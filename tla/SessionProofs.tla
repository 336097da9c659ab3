---------------------------- MODULE SessionProofs ----------------------------
(***************************************************************************)
(* Theorems about sessions, for every set of users and logins: who serves  *)
(* a user (Sessiond), and what a proof of the password is worth and how    *)
(* long a name stays blocked (Gateway).                                    *)
(***************************************************************************)
EXTENDS Sessiond, Gateway, FiniteSetTheorems, TLAPS

\* A login's process exists from the moment its handler spawns it.
Stages ==
  \A l \in Login :
    /\ login[l] \in {"idle", "ensure", "spawn"} => proc[l] = "none"
    /\ login[l] = "start" => proc[l] = "listening"

TypeInv == TypeOK /\ Stages

-----------------------------------------------------------------------------
(***************************************************************************)
(* Types.                                                                  *)
(***************************************************************************)
LEMMA InitType == Init => TypeInv
<1> SUFFICES ASSUME Init PROVE TypeInv
  OBVIOUS
<1>1. logout \in [Login -> [at : {"idle", "delete", "look", "ask", "signal", "panicked"},
                           agent : Login \cup {NoAgent}]]
  BY DEF Init, Quiet
<1>2. agents \in [User -> Login \cup {NoAgent}] /\ owner \in [User -> Login \cup {NoAgent}]
  BY DEF Init
<1>3. QED
  BY <1>1, <1>2 DEF Init, TypeInv, TypeOK, Stages, Process, Serves

\* handleLogin, up to the answer.
LEMMA LoginType ==
  ASSUME TypeInv, NEW l \in Login, Authenticate(l) \/ HandleLogin(l)
  PROVE  TypeInv'
<1>0. UserOf[l] \in User /\ NoAgent \notin Login
  BY SessiondAssumption DEF SessiondAssumption
<1> USE DEF TypeInv, TypeOK, Stages, GoLogin, Serves, Process
<1>1. CASE Authenticate(l)
  BY <1>0, <1>1 DEF Authenticate
<1>2. CASE EnsureLook(l)
  BY <1>0, <1>2 DEF EnsureLook
<1>3. CASE SpawnListen(l)
  BY <1>0, <1>3 DEF SpawnListen
<1>4. CASE SpawnStart(l)
  BY <1>0, <1>4 DEF SpawnStart
<1>5. CASE SpawnFails(l)
  BY <1>0, <1>5 DEF SpawnFails
<1>6. CASE Register(l)
  BY <1>0, <1>6 DEF Register
<1>7. CASE StoreSession(l)
  BY <1>0, <1>7 DEF StoreSession
<1>8. QED
  BY <1>1, <1>2, <1>3, <1>4, <1>5, <1>6, <1>7 DEF HandleLogin

\* Logouts and requests.
LEMMA CallType ==
  ASSUME TypeInv, NEW l \in Login,
         SendLogout(l) \/ HandleLogout(l) \/ SendRequest(l) \/ HandleRequest(l)
  PROVE  TypeInv'
<1>0. UserOf[l] \in User /\ NoAgent \notin Login
  BY SessiondAssumption DEF SessiondAssumption
<1> USE DEF TypeInv, TypeOK, Stages, GoLogout, Serves, Process
<1>1. CASE SendLogout(l)
  BY <1>0, <1>1 DEF SendLogout
<1>2. CASE LogoutDelete(l)
  BY <1>0, <1>2 DEF LogoutDelete
<1>3. CASE LogoutLook(l)
  BY <1>0, <1>3 DEF LogoutLook
<1>4. CASE LogoutAsk(l)
  BY <1>0, <1>4 DEF LogoutAsk
<1>5. CASE LogoutSignal(l)
  BY <1>0, <1>5 DEF LogoutSignal, Ends
<1>6. CASE SendRequest(l)
  BY <1>0, <1>6 DEF SendRequest
<1>7. CASE Validate(l)
  BY <1>0, <1>7 DEF Validate
<1>8. CASE Dial(l)
  BY <1>0, <1>8 DEF Dial
<1>9. QED
  BY <1>1, <1>2, <1>3, <1>4, <1>5, <1>6, <1>7, <1>8 DEF HandleLogout, HandleRequest

LEMMA StepType == TypeInv /\ [Next]_vars => TypeInv'
<1> SUFFICES ASSUME TypeInv, [Next]_vars PROVE TypeInv'
  OBVIOUS
<1>1. ASSUME NEW l \in Login, Authenticate(l) \/ HandleLogin(l) PROVE TypeInv'
  BY <1>1, LoginType
<1>2. ASSUME NEW l \in Login,
             SendLogout(l) \/ HandleLogout(l) \/ SendRequest(l) \/ HandleRequest(l)
      PROVE  TypeInv'
  BY <1>2, CallType
<1> USE DEF TypeInv, TypeOK, Stages, Serves, Process
<1>3. ASSUME NEW l \in Login, Expire(l) PROVE TypeInv'
  BY <1>3 DEF Expire, Valid
<1>4. ASSUME NEW a \in Login, HangUp(a) PROVE TypeInv'
  BY <1>4 DEF HangUp
<1>5. ASSUME NEW a \in Login, IdleDecide(a) PROVE TypeInv'
  BY <1>5 DEF IdleDecide
<1>6. ASSUME NEW a \in Login, IdleExit(a) PROVE TypeInv'
  BY <1>6 DEF IdleExit, Ends
<1>7. ASSUME NEW a \in Login, Reap(a) PROVE TypeInv'
  BY <1>7 DEF Reap
<1>8. ASSUME NEW a \in Login, Die(a) PROVE TypeInv'
  BY <1>8 DEF Die, Ends
<1>9. CASE Restart
  BY <1>9 DEF Restart, Quiet, LoggingIn
<1>10. CASE UNCHANGED vars
  BY <1>10 DEF vars
<1>11. QED
  BY <1>1, <1>2, <1>3, <1>4, <1>5, <1>6, <1>7, <1>8, <1>9, <1>10 DEF Next, AgentStep

LEMMA TypeInvariant == Spec => []TypeInv
<1>1. QED
  BY InitType, StepType, PTL DEF Spec

\* Every reachable state is well-typed, whatever overlaps, dies or restarts; an
\* agent marked dead has ended, and a connected one runs.
THEOREM TypeCorrect == Spec => []TypeOK
<1>1. TypeInv => TypeOK
  BY DEF TypeInv
<1>2. QED
  BY <1>1, TypeInvariant, PTL

-----------------------------------------------------------------------------
(***************************************************************************)
(* One agent per user, if the login handlers of a user do not overlap.     *)
(***************************************************************************)
OneByOne == MayOverlap = FALSE

\* Of one user one login at a time is being handled.
Serialised ==
  \A l, m \in Login : LoggingIn(l) /\ LoggingIn(m) /\ UserOf[l] = UserOf[m] => l = m

\* The map holds a user's own agents.
MapOwned == \A u \in User : agents[u] # NoAgent => UserOf[agents[u]] = u

\* The socket path belongs to the login that is spawning.
Spawning == \A l \in Login : login[l] = "start" => owner[UserOf[l]] = l

\* A process that serves is behind its user's path, and in the map unless its
\* login is about to enter it.
Known ==
  \A a \in Login : Serves(a) =>
    /\ owner[UserOf[a]] = a
    /\ login[a] = "register" \/ agents[UserOf[a]] = a

\* While a login spawns, nobody else serves its user.
Vacant ==
  \A l, a \in Login :
    login[l] \in {"spawn", "start", "register"} /\ Serves(a) /\ UserOf[a] = UserOf[l] => a = l

Owned == Serialised /\ MapOwned /\ Spawning /\ Known /\ Vacant

LEMMA InitOwned == Init => Owned
BY SessiondAssumption
   DEF SessiondAssumption, Init, Owned, Serialised, MapOwned, Spawning, Known, Vacant, LoggingIn, Serves

LEMMA LoginOwned ==
  ASSUME OneByOne, TypeInv, Owned, NEW l \in Login, Authenticate(l) \/ HandleLogin(l)
  PROVE  Owned'
<1>0. UserOf \in [Login -> User] /\ NoAgent \notin Login
  BY SessiondAssumption DEF SessiondAssumption
<1> USE DEF TypeInv, TypeOK, Stages, Owned, Serialised, MapOwned, Spawning, Known, Vacant,
            GoLogin, LoggingIn, Serves
<1>1. CASE Authenticate(l)
  <2>1. \A m \in Login : UserOf[m] = UserOf[l] => ~LoggingIn(m)
    BY <1>1 DEF Authenticate, OneByOne
  <2>2. Serialised'
    BY <1>1, <2>1 DEF Authenticate
  <2>3. MapOwned' /\ Spawning' /\ Known' /\ Vacant'
    BY <1>1 DEF Authenticate
  <2>4. QED
    BY <2>2, <2>3
<1>2. CASE EnsureLook(l)
  <2>1. UserOf[l] \in User
    BY <1>0
  <2>2. ASSUME NEW a \in Login, Serves(a), UserOf[a] = UserOf[l], login'[l] = "spawn"
        PROVE  FALSE
    BY <1>0, <1>2, <2>1, <2>2 DEF EnsureLook, Alive
  <2>3. QED
    BY <1>0, <1>2, <2>1, <2>2 DEF EnsureLook
<1>3. CASE SpawnListen(l)
  <2>0. UserOf[l] \in User /\ login[l] = "spawn"
    BY <1>0, <1>3 DEF SpawnListen
  <2>1. \A a \in Login : Serves(a)' => Serves(a) /\ a # l /\ UserOf[a] # UserOf[l]
    BY <1>3, <2>0 DEF SpawnListen
  <2>2. \A m \in Login : m # l /\ LoggingIn(m) => UserOf[m] # UserOf[l]
    BY <2>0
  <2>3. Serialised' /\ MapOwned'
    BY <1>3, <2>0 DEF SpawnListen
  <2>4. Spawning'
    BY <1>0, <1>3, <2>0, <2>2 DEF SpawnListen
  <2>5. Known'
    BY <1>0, <1>3, <2>0, <2>1 DEF SpawnListen
  <2>6. Vacant'
    BY <1>3, <2>0, <2>1 DEF SpawnListen
  <2>7. QED
    BY <2>3, <2>4, <2>5, <2>6
<1>4. CASE SpawnStart(l)
  BY <1>0, <1>4 DEF SpawnStart
<1>5. CASE SpawnFails(l)
  BY <1>0, <1>5 DEF SpawnFails
<1>6. CASE Register(l)
  BY <1>0, <1>6 DEF Register
<1>7. CASE StoreSession(l)
  BY <1>0, <1>7 DEF StoreSession
<1>8. QED
  BY <1>1, <1>2, <1>3, <1>4, <1>5, <1>6, <1>7 DEF HandleLogin

\* Nothing but a login starts a process, or touches the map and the path.
LEMMA ElseOwned ==
  ASSUME TypeInv, Owned, UNCHANGED <<agents, owner, login>>,
         \A a \in Login : Serves(a)' => Serves(a)
  PROVE  Owned'
BY DEF Owned, Serialised, MapOwned, Spawning, Known, Vacant, LoggingIn

LEMMA StepOwned == OneByOne /\ TypeInv /\ Owned /\ [Next]_vars => Owned'
<1> SUFFICES ASSUME OneByOne, TypeInv, Owned, [Next]_vars PROVE Owned'
  OBVIOUS
<1>1. ASSUME NEW l \in Login, Authenticate(l) \/ HandleLogin(l) PROVE Owned'
  BY <1>1, LoginOwned
<1>2. ASSUME NEW l \in Login,
             SendLogout(l) \/ HandleLogout(l) \/ SendRequest(l) \/ HandleRequest(l)
      PROVE  Owned'
  <2>1. CASE LogoutSignal(l)
    BY <2>1, ElseOwned DEF LogoutSignal, Ends, Serves, TypeInv, TypeOK
  <2>2. CASE SendLogout(l) \/ LogoutDelete(l) \/ LogoutLook(l) \/ LogoutAsk(l)
    BY <2>2, ElseOwned DEF SendLogout, LogoutDelete, LogoutLook, LogoutAsk, Serves
  <2>3. CASE SendRequest(l) \/ HandleRequest(l)
    BY <2>3, ElseOwned DEF SendRequest, HandleRequest, Validate, Dial, Serves
  <2>4. QED
    BY <1>2, <2>1, <2>2, <2>3 DEF HandleLogout
<1>3. ASSUME NEW a \in Login, Expire(a) \/ HangUp(a) \/ Reap(a) PROVE Owned'
  BY <1>3, ElseOwned DEF Expire, HangUp, Reap, Serves
<1>4. ASSUME NEW a \in Login, IdleDecide(a) PROVE Owned'
  BY <1>4, ElseOwned DEF IdleDecide, Serves, TypeInv, TypeOK
<1>5. ASSUME NEW a \in Login, IdleExit(a) \/ Die(a) PROVE Owned'
  BY <1>5, ElseOwned DEF IdleExit, Die, Ends, Serves, TypeInv, TypeOK
<1>6. CASE Restart
  BY <1>6 DEF Restart, Owned, Serialised, MapOwned, Spawning, Known, Vacant, LoggingIn, Serves,
              TypeInv, TypeOK
<1>7. CASE UNCHANGED vars
  BY <1>7, ElseOwned DEF vars, Serves
<1>8. QED
  BY <1>1, <1>2, <1>3, <1>4, <1>5, <1>6, <1>7 DEF Next, AgentStep

LEMMA OwnedInvariant == OneByOne => (Spec => [](TypeInv /\ Owned))
<1>1. Init => TypeInv /\ Owned
  BY InitType, InitOwned
<1>2. OneByOne /\ (TypeInv /\ Owned) /\ [Next]_vars => (TypeInv /\ Owned)'
  BY StepType, StepOwned
<1>3. ASSUME OneByOne PROVE Spec => [](TypeInv /\ Owned)
  <2>1. (TypeInv /\ Owned) /\ [Next]_vars => (TypeInv /\ Owned)'
    BY <1>2, <1>3
  <2>2. QED
    BY <1>1, <2>1, PTL DEF Spec
<1>4. QED
  BY <1>3

\* However logins, logouts, idle exits, crashes, late reaping and restarts fall,
\* a user has one agent at most (ensureAgent, spawnAgent).
THEOREM AtMostOneAgent == OneByOne => (Spec => []OneAgentPerUser)
<1>1. TypeInv /\ Owned => OneAgentPerUser
  BY DEF Owned, Known, OneAgentPerUser
<1>2. QED
  BY <1>1, OwnedInvariant, PTL

\* The agent in the map, while it lives, is the one behind its user's socket
\* path: the one logins are handed and the one stopAgentIfIdle asks.
THEOREM TheRegisteredListens == OneByOne => (Spec => []RegisteredListens)
<1>1. TypeInv /\ Owned => RegisteredListens
  BY DEF TypeInv, TypeOK, Owned, Known, MapOwned, RegisteredListens, Serves
<1>2. QED
  BY <1>1, OwnedInvariant, PTL

-----------------------------------------------------------------------------
(***************************************************************************)
(* Gateway: types of what is known of proofs.                              *)
(***************************************************************************)
ReauthPlaces == {"new", "lookup", "pam", "proved", "writes", "done", "refused"}
ActionPlaces == {"new", "check", "compare", "accepted", "refused"}
Reauths == [at : ReauthPlaces, pam : BOOLEAN, value : Nat]
Actions == [at : ActionPlaces, value : Nat, asked : Nat]

Types ==
  /\ now \in Nat
  /\ sess \in [Token -> {"unused", "live", "gone"}] /\ until \in [Token -> Nat]
  /\ reauth \in [Reauth -> Reauths] /\ action \in [Action -> Actions]
  /\ proved \in [Token -> SUBSET Nat]

LEMMA ReauthGoesFacts ==
  ASSUME Types, NEW r \in Reauth, NEW at \in ReauthPlaces, ReauthGoes(r, at)
  PROVE  /\ reauth' \in [Reauth -> Reauths]
         /\ reauth'[r].at = at /\ reauth'[r].pam = reauth[r].pam /\ reauth'[r].value = reauth[r].value
         /\ \A other \in Reauth : other # r => reauth'[other] = reauth[other]
BY DEF Types, ReauthGoes, Reauths

LEMMA WritesFacts ==
  ASSUME NEW q \in Reauths, NEW v \in Nat
  PROVE  LET p == [q EXCEPT !.at = "writes", !.value = v]
         IN  p \in Reauths /\ p.at = "writes" /\ p.value = v /\ (q.pam => p.pam)
<1>1. q = [at |-> q.at, pam |-> q.pam, value |-> q.value] /\ q.pam \in BOOLEAN
  BY DEF Reauths
<1>2. [q EXCEPT !.at = "writes", !.value = v] \in Reauths
  BY DEF Reauths, ReauthPlaces
<1>3. QED
  BY <1>1, <1>2 DEF Reauths

LEMMA ActionGoesFacts ==
  ASSUME Types, NEW a \in Action, NEW at \in ActionPlaces, ActionGoes(a, at)
  PROVE  /\ action' \in [Action -> Actions]
         /\ action'[a].at = at /\ action'[a].value = action[a].value /\ action'[a].asked = action[a].asked
         /\ \A other \in Action : other # a => action'[other] = action[other]
BY DEF Types, ActionGoes, Actions

-----------------------------------------------------------------------------
(***************************************************************************)
(* What is known of the notes: a note that is being written is of this     *)
(* very moment, one that is complete is of some moment PAM has accepted a  *)
(* password, and what an action has been told is either nothing or one of  *)
(* the two.                                                                *)
(***************************************************************************)
Noting ==
  \A r \in Reauth :
    /\ reauth[r].at \in {"proved", "writes"} => reauth[r].pam
    /\ reauth[r].at = "writes" => reauth[r].value = now + Window /\ now \in proved[ReauthOn[r]]

Noted == \A t \in Token : until[t] > 0 =>
  \E noted \in proved[t] : noted <= now /\ until[t] = noted + Window

Open(a) == \E noted \in proved[ActionOn[a]] : noted <= action[a].asked /\ action[a].asked < noted + Window

Told ==
  \A a \in Action :
    /\ action[a].at = "compare" =>
         action[a].asked <= now /\ (action[a].asked < action[a].value => Open(a))
    /\ action[a].at = "accepted" => Open(a)

NotesKnown == Types /\ Noting /\ Noted /\ Told

LEMMA Constants ==
  /\ ReauthOn \in [Reauth -> Token] /\ ActionOn \in [Action -> Token]
  /\ Window \in Nat /\ Window > 0 /\ MaxTime \in Nat
BY GatewayAssumption DEF GatewayAssumption

LEMMA InitKnown == GatewayInit => NotesKnown
BY Constants
DEF GatewayInit, NotesKnown, Types, Noting, Noted, Told, Reauths, Actions, ReauthPlaces, ActionPlaces

\* A step that leaves the notes alone.
LEMMA SameNotes ==
  ASSUME NotesKnown, UNCHANGED <<now, until, reauth, action, proved>>,
         sess' \in [Token -> {"unused", "live", "gone"}]
  PROVE  NotesKnown'
BY DEF NotesKnown, Types, Noting, Noted, Told, Open

LEMMA LoginKnown == ASSUME NotesKnown, NEW l \in Attempt, LogsIn(l) PROVE NotesKnown'
<1>1. UNCHANGED <<now, until, reauth, action, proved>>
  BY DEF LogsIn, LoginStarts, LoginAnswered, LoginFails, LoginSucceeds
<1>2. sess' = sess \/ \E t \in Token : sess' = [sess EXCEPT ![t] = "live"]
  BY DEF LogsIn, LoginStarts, LoginAnswered, LoginFails, LoginSucceeds
<1>3. sess' \in [Token -> {"unused", "live", "gone"}]
  BY <1>2 DEF NotesKnown, Types
<1>4. QED
  BY <1>1, <1>3, SameNotes

LEMMA ProvesKnown == ASSUME NotesKnown, NEW r \in Reauth, Proves(r) PROVE NotesKnown'
<1>0. Types /\ Noting /\ Noted /\ Told
  BY DEF NotesKnown
<1>1. CASE ReauthStarts(r) \/ ReauthFinds(r)
  <2>1. /\ reauth' \in [Reauth -> Reauths] /\ reauth'[r].at \in {"lookup", "pam", "refused"}
        /\ \A other \in Reauth : other # r => reauth'[other] = reauth[other]
    BY <1>0, <1>1, ReauthGoesFacts DEF ReauthStarts, ReauthFinds, ReauthPlaces
  <2>2. UNCHANGED <<now, sess, until, action, proved>>
    BY <1>1 DEF ReauthStarts, ReauthFinds
  <2>3. QED
    BY <1>0, <2>1, <2>2 DEF NotesKnown, Types, Noting, Noted, Told, Open
<1>2. CASE ReauthProves(r)
  <2>1. PICK pam \in BOOLEAN :
          reauth' = [reauth EXCEPT ![r].at = IF pam THEN "proved" ELSE "refused", ![r].pam = pam]
    BY <1>2 DEF ReauthProves
  <2>2. /\ reauth' \in [Reauth -> Reauths]
        /\ reauth'[r].at \in {"proved", "refused"} /\ reauth'[r].pam = pam
        /\ reauth'[r].at = "proved" => pam
        /\ \A other \in Reauth : other # r => reauth'[other] = reauth[other]
    BY <1>0, <2>1 DEF Types, Reauths, ReauthPlaces
  <2>3. UNCHANGED <<now, sess, until, action, proved>>
    BY <1>2 DEF ReauthProves
  <2>4. QED
    BY <1>0, <2>2, <2>3 DEF NotesKnown, Types, Noting, Noted, Told, Open
<1>3. CASE ReauthWrites(r)
  <2> DEFINE t == ReauthOn[r]
  <2>1. /\ reauth' = [reauth EXCEPT ![r].at = "writes", ![r].value = now + Window]
        /\ UNCHANGED <<now, sess, until, action>> /\ reauth[r].at = "proved"
    BY <1>3 DEF ReauthWrites
  <2>2. /\ reauth' \in [Reauth -> Reauths] /\ reauth'[r].at = "writes"
        /\ reauth'[r].value = now + Window /\ reauth'[r].pam /\ reauth[r].pam
        /\ \A other \in Reauth : other # r => reauth'[other] = reauth[other]
    <3>1. reauth[r].pam
      BY <1>0, <2>1 DEF Noting
    <3>2. now + Window \in Nat
      BY <1>0, Constants DEF Types
    <3>3. /\ reauth' = [reauth EXCEPT ![r] = [reauth[r] EXCEPT !.at = "writes", !.value = now + Window]]
          /\ reauth[r] \in Reauths
      BY <1>0, <2>1 DEF Types
    <3>4. QED
      BY <1>0, <3>1, <3>2, <3>3, WritesFacts DEF Types
  <2>3. proved' = [proved EXCEPT ![t] = @ \cup {now}] /\ t \in Token
    BY <1>3, <2>2, Constants DEF ReauthWrites
  <2> HIDE DEF t
  <2>4. proved' \in [Token -> SUBSET Nat] /\ now \in proved'[t] /\ \A u \in Token : proved[u] \subseteq proved'[u]
    BY <1>0, <2>3 DEF Types
  <2>5. Types'
    BY <1>0, <2>1, <2>2, <2>4 DEF Types
  <2>6. Noting'
    BY <1>0, <2>1, <2>2, <2>4, Constants DEF Noting, t
  <2>7. Noted' /\ Told'
    BY <1>0, <2>1, <2>4, Constants DEF Noted, Told, Open
  <2>8. QED
    BY <2>5, <2>6, <2>7 DEF NotesKnown
<1>4. CASE ReauthEnds(r)
  <2> DEFINE t == ReauthOn[r]
  <2>1. /\ reauth' \in [Reauth -> Reauths] /\ reauth'[r].at = "done"
        /\ \A other \in Reauth : other # r => reauth'[other] = reauth[other]
    BY <1>0, <1>4, ReauthGoesFacts DEF ReauthEnds, ReauthPlaces
  <2>2. /\ reauth[r].at = "writes" /\ until' = [until EXCEPT ![t] = reauth[r].value]
        /\ UNCHANGED <<now, sess, action, proved>>
    BY <1>4 DEF ReauthEnds
  <2>3. reauth[r].value = now + Window /\ now \in proved[t] /\ t \in Token
    BY <1>0, <2>2, Constants DEF Noting
  <2> HIDE DEF t
  <2>4. Types' /\ Noting'
    BY <1>0, <2>1, <2>2, <2>3, Constants DEF Types, Noting
  <2>5. Noted'
    BY <1>0, <2>2, <2>3, Constants DEF Types, Noted
  <2>6. Told'
    BY <1>0, <2>2 DEF Told, Open
  <2>7. QED
    BY <2>4, <2>5, <2>6 DEF NotesKnown
<1>5. QED
  BY <1>1, <1>2, <1>3, <1>4 DEF Proves

LEMMA ActsKnown == ASSUME NotesKnown, NEW a \in Action, Acts(a) PROVE NotesKnown'
<1>0. Types /\ Noting /\ Noted /\ Told
  BY DEF NotesKnown
<1>1. UNCHANGED <<now, sess, until, reauth, proved>>
  BY DEF Acts, ActionStarts, ActionChecks, ActionDecides
<1>2. /\ action' \in [Action -> Actions]
      /\ \A other \in Action : other # a => action'[other] = action[other]
      /\ action'[a].at = "compare" =>
           action'[a].asked <= now /\ (action'[a].asked < action'[a].value => Open(a)')
      /\ action'[a].at = "accepted" => Open(a)'
  <2>1. CASE ActionStarts(a)
    BY <1>0, <2>1, ActionGoesFacts DEF ActionStarts, ActionPlaces
  <2>2. CASE ActionDecides(a)
    <3>1. PICK at \in {"accepted", "refused"} :
            ActionGoes(a, at) /\ action[a].at = "compare" /\ (at = "accepted" => now < action[a].value)
      BY <2>2 DEF ActionDecides
    <3>2. /\ action' \in [Action -> Actions] /\ action'[a].at = at /\ action'[a].asked = action[a].asked
          /\ \A other \in Action : other # a => action'[other] = action[other]
      BY <1>0, <3>1, ActionGoesFacts DEF ActionPlaces
    <3>3. action[a].asked \in Nat /\ action[a].value \in Nat /\ now \in Nat
      BY <1>0 DEF Types, Actions
    <3>4. at = "accepted" => Open(a)
      BY <1>0, <3>1, <3>3 DEF Told
    <3>5. QED
      BY <1>1, <3>1, <3>2, <3>4 DEF Open
  <2>3. CASE ActionChecks(a)
    <3>1. CASE ActionGoes(a, "refused")
      BY <1>0, <3>1, ActionGoesFacts DEF ActionPlaces
    <3>2. ASSUME NEW value \in Readable(ActionOn[a]),
                 action' = [action EXCEPT ![a] = [at |-> "compare", value |-> value, asked |-> now]]
          PROVE  /\ action' \in [Action -> Actions]
                 /\ \A other \in Action : other # a => action'[other] = action[other]
                 /\ action'[a].at = "compare" =>
                      action'[a].asked <= now /\ (action'[a].asked < action'[a].value => Open(a)')
                 /\ action'[a].at = "accepted" => Open(a)'
      <4> DEFINE t == ActionOn[a]
      <4>1. t \in Token /\ until[t] \in Nat /\ now \in Nat
        BY <1>0, Constants DEF Types
      <4>2. value \in Nat /\ (now < value => \E noted \in proved[t] : noted <= now /\ now < noted + Window)
        <5>1. CASE \E r \in Reauth : ReauthOn[r] = t /\ reauth[r].at = "writes"
          <6>1. value \in Nat
            BY <3>2, <5>1, Constants DEF Readable
          <6>2. now \in proved[t] /\ now < now + Window
            BY <1>0, <4>1, <5>1, Constants DEF Noting
          <6>3. QED
            BY <4>1, <6>1, <6>2
        <5>2. CASE ~ \E r \in Reauth : ReauthOn[r] = t /\ reauth[r].at = "writes"
          <6>1. value = until[t]
            BY <3>2, <5>2 DEF Readable
          <6>2. QED
            BY <1>0, <4>1, <6>1, Constants DEF Noted
        <5>3. QED
          BY <5>1, <5>2
      <4> HIDE DEF t
      <4>3. [at |-> "compare", value |-> value, asked |-> now] \in Actions
        BY <4>1, <4>2 DEF Actions, ActionPlaces
      <4>4. /\ action' \in [Action -> Actions]
            /\ \A other \in Action : other # a => action'[other] = action[other]
            /\ action'[a].at = "compare" /\ action'[a].value = value /\ action'[a].asked = now
        BY <1>0, <3>2, <4>3 DEF Types
      <4>5. QED
        BY <1>1, <4>1, <4>2, <4>4 DEF Open, t
    <3>3. QED
      BY <2>3, <3>1, <3>2 DEF ActionChecks
  <2>4. QED
    BY <2>1, <2>2, <2>3 DEF Acts
<1>3. Types' /\ Noting' /\ Noted'
  BY <1>0, <1>1, <1>2 DEF Types, Noting, Noted
<1>4. Told'
  BY <1>0, <1>1, <1>2 DEF Told, Open
<1>5. QED
  BY <1>3, <1>4 DEF NotesKnown

LEMMA RestKnown ==
  ASSUME NotesKnown, (\E t \in Token : SessionEnds(t)) \/ SessiondDies \/ Tick \/ UNCHANGED gatewayVars
  PROVE  NotesKnown'
<1>0. Types /\ Noting /\ Noted /\ Told
  BY DEF NotesKnown
<1>1. ASSUME NEW t \in Token, SessionEnds(t) PROVE NotesKnown'
  BY <1>0, <1>1, SameNotes DEF SessionEnds, Types
<1>2. CASE SessiondDies
  <2>1. UNCHANGED <<now, until, action, proved>> /\ sess' \in [Token -> {"unused", "live", "gone"}]
    BY <1>0, <1>2 DEF SessiondDies, Types
  <2>2. reauth' \in [Reauth -> Reauths]
    BY <1>0, <1>2 DEF SessiondDies, Types, Reauths, ReauthPlaces
  <2>3. \A r \in Reauth : reauth'[r].at \notin {"proved", "writes"}
    BY <1>0, <1>2 DEF SessiondDies, Types, Reauths, ReauthPlaces
  <2>4. QED
    BY <1>0, <2>1, <2>2, <2>3 DEF NotesKnown, Types, Noting, Noted, Told, Open
<1>3. CASE Tick
  <2>1. /\ now' = now + 1 /\ UNCHANGED <<sess, until, reauth, action, proved>>
        /\ \A r \in Reauth : reauth[r].at # "writes"
    BY <1>3 DEF Tick
  <2>2. Types' /\ Noting'
    BY <1>0, <2>1 DEF Types, Noting
  <2>3. Noted'
    BY <1>0, <2>1 DEF Types, Noted
  <2>4. Told'
    <3>1. \A a \in Action : action[a].asked \in Nat
      BY <1>0 DEF Types, Actions
    <3>2. QED
      BY <1>0, <2>1, <3>1 DEF Types, Told, Open
  <2>5. QED
    BY <2>2, <2>3, <2>4 DEF NotesKnown
<1>4. CASE UNCHANGED gatewayVars
  BY <1>0, <1>4, SameNotes DEF gatewayVars, Types
<1>5. QED
  BY <1>1, <1>2, <1>3, <1>4

LEMMA KnownInvariant == GatewaySpec => []NotesKnown
<1>1. NotesKnown /\ [GatewayNext]_gatewayVars => NotesKnown'
  BY LoginKnown, ProvesKnown, ActsKnown, RestKnown DEF GatewayNext
<1>2. QED
  BY <1>1, InitKnown, PTL DEF GatewaySpec

\* An action that was challenged and let through has a proof of the password, of its own
\* session and not too old when it was asked for, for any number of proofs and actions
\* and although the note is written and read without a lock.
THEOREM FreshIsProved == GatewaySpec => []FreshMeansProved
<1>1. NotesKnown => FreshMeansProved
  BY DEF NotesKnown, Told, Open, FreshMeansProved
<1>2. QED
  BY <1>1, KnownInvariant, PTL

\* A session that has ended never comes back, whatever call still holds it.
THEOREM GoneStaysGone == GatewaySpec => GoneForGood
<1>1. NotesKnown /\ [GatewayNext]_gatewayVars => [\A t \in Token : sess[t] = "gone" => sess'[t] = "gone"]_gatewayVars
  <2> SUFFICES ASSUME NotesKnown, [GatewayNext]_gatewayVars, NEW t \in Token, sess[t] = "gone" PROVE sess'[t] = "gone"
    OBVIOUS
  <2>0. sess \in [Token -> {"unused", "live", "gone"}]
    BY DEF NotesKnown, Types
  <2>1. ASSUME NEW l \in Attempt, LogsIn(l) PROVE sess'[t] = "gone"
    <3>1. sess' = sess \/ \E u \in Token : sess[u] = "unused" /\ sess' = [sess EXCEPT ![u] = "live"]
      BY <2>1 DEF LogsIn, LoginStarts, LoginAnswered, LoginFails, LoginSucceeds
    <3>2. QED
      BY <2>0, <3>1
  <2>2. CASE \/ \E r \in Reauth : Proves(r)
             \/ \E a \in Action : Acts(a)
             \/ Tick \/ UNCHANGED gatewayVars
    BY <2>2
    DEF Proves, ReauthStarts, ReauthFinds, ReauthProves, ReauthWrites, ReauthEnds,
        Acts, ActionStarts, ActionChecks, ActionDecides, Tick, gatewayVars
  <2>3. CASE SessiondDies \/ \E u \in Token : SessionEnds(u)
    BY <2>0, <2>3 DEF SessiondDies, SessionEnds, Live
  <2>4. QED
    BY <2>1, <2>2, <2>3 DEF GatewayNext
<1>2. QED
  BY <1>1, KnownInvariant, PTL DEF GatewaySpec, GoneForGood

-----------------------------------------------------------------------------
(***************************************************************************)
(* The limiter.  That a power of two is a number and grows is a fact of    *)
(* the sets of which it counts the subsets.                                *)
(***************************************************************************)
LEMMA PowerGrows == ASSUME NEW n \in Nat PROVE 2^n \in Nat /\ 2^n > 0 /\ 2^n <= 2^(n + 1)
<1> DEFINE S == 1..n T == 1..(n + 1)
<1>1. IsFiniteSet(S) /\ Cardinality(S) = n /\ IsFiniteSet(T) /\ Cardinality(T) = n + 1
  BY FS_Interval
<1>2. S \subseteq T
  OBVIOUS
<1> HIDE DEF S, T
<1>3. /\ IsFiniteSet(SUBSET S) /\ Cardinality(SUBSET S) = 2^n
      /\ IsFiniteSet(SUBSET T) /\ Cardinality(SUBSET T) = 2^(n + 1)
  <2>1. Cardinality(SUBSET S) = 2^Cardinality(S) /\ Cardinality(SUBSET T) = 2^Cardinality(T)
    BY <1>1, FS_SUBSET, Zenon
  <2>2. IsFiniteSet(SUBSET S) /\ IsFiniteSet(SUBSET T)
    BY <1>1, FS_SUBSET, Zenon
  <2>3. QED
    BY <1>1, <2>1, <2>2, Zenon
<1>4. /\ Cardinality(SUBSET S) \in Nat /\ Cardinality(SUBSET S) # 0
      /\ Cardinality(SUBSET S) <= Cardinality(SUBSET T)
  <2>1. SUBSET S \in SUBSET (SUBSET T) /\ SUBSET S # {}
    BY <1>2
  <2>2. Cardinality(SUBSET S) <= Cardinality(SUBSET T)
    BY <1>3, <2>1, FS_Subset, Zenon
  <2>3. Cardinality(SUBSET S) # 0
    BY <1>3, <2>1, FS_EmptySet, Zenon
  <2>4. QED
    BY <1>3, <2>2, <2>3, FS_CardinalityType, Zenon
<1>5. 2^n \in Nat /\ 2^n # 0 /\ 2^n <= 2^(n + 1)
  BY <1>3, <1>4, Zenon
<1>6. QED
  BY <1>5

LEMMA LimiterConstants ==
  /\ KeyOf \in [Attempt -> Key]
  /\ Threshold \in Nat /\ Threshold > 0 /\ MaxDelay \in Nat /\ MaxDelay > 0
  /\ Second \in Nat /\ Second > 0 /\ Width \in Nat /\ Width > 0
BY GatewayAssumption DEF GatewayAssumption

LEMMA ProductGrows ==
  ASSUME NEW count \in Nat, count >= Threshold
  PROVE  Product(count) \in Nat /\ Product(count) > 0 /\ Product(count) <= Product(count + 1)
<1> DEFINE n == count - Threshold + 1 x == 2^n y == 2^(n + 1)
<1>1. n \in Nat /\ (count + 1) - Threshold + 1 = n + 1 /\ Second \in Nat /\ Second > 0
  BY LimiterConstants
<1>2. x \in Nat /\ x > 0 /\ x <= y /\ y \in Nat
  BY <1>1, PowerGrows
<1>3. Product(count) = x * Second /\ Product(count + 1) = y * Second
  BY <1>1 DEF Product
<1> HIDE DEF n, x, y
<1>4. x * Second \in Nat /\ x * Second > 0 /\ x * Second <= y * Second
  BY <1>1, <1>2
<1>5. QED
  BY <1>3, <1>4

\* The range of a Duration.
LEMMA DurationRange ==
  /\ 2^(Width - 1) \in Nat /\ 2^Width \in Nat
  /\ 2^Width > 0 /\ 2^(Width - 1) <= 2^Width
<1>1. Width - 1 \in Nat /\ Width \in Nat /\ (Width - 1) + 1 = Width
  BY LimiterConstants
<1>2. QED
  BY <1>1, PowerGrows

LEMMA DelayIsInt ==
  ASSUME NEW count \in Nat, count >= Threshold
  PROVE  Delay(count) \in Int
<1> DEFINE x == Product(count) h == 2^(Width - 1) m == 2^Width
<1>1. x \in Nat /\ h \in Nat /\ m \in Nat /\ m > 0
  BY ProductGrows, DurationRange
<1>2. Signed(x) = IF x % m < h THEN x % m ELSE (x % m) - m
  BY DEF Signed
<1>3. Delay(count) = IF Signed(x) > MaxDelay THEN MaxDelay ELSE Signed(x)
  BY DEF Delay
<1> HIDE DEF x, h, m
<1>4. Signed(x) \in Int
  BY <1>1, <1>2
<1>5. QED
  BY <1>3, <1>4, LimiterConstants

\* While it fits, the delay is what one would think, and grows.
LEMMA DelayWhileItFits ==
  ASSUME NEW count \in Nat, count >= Threshold, Fits(count)
  PROVE  Delay(count) = IF Product(count) > MaxDelay THEN MaxDelay ELSE Product(count)
<1> DEFINE x == Product(count) h == 2^(Width - 1) m == 2^Width
<1>1. x \in Nat /\ h \in Nat /\ m \in Nat /\ h <= m /\ x < h
  BY ProductGrows, DurationRange DEF Fits
<1>2. Signed(x) = IF x % m < h THEN x % m ELSE (x % m) - m
  BY DEF Signed
<1>3. Delay(count) = IF Signed(x) > MaxDelay THEN MaxDelay ELSE Signed(x)
  BY DEF Delay
<1> HIDE DEF x, h, m
<1>4. x % m = x
  BY <1>1
<1>5. QED
  BY <1>1, <1>2, <1>3, <1>4 DEF x

LEMMA DelayGrows ==
  ASSUME NEW count \in Nat, count >= Threshold, Fits(count + 1)
  PROVE  Fits(count) /\ Delay(count) \in Nat /\ Delay(count + 1) \in Nat /\ Delay(count) <= Delay(count + 1)
<1>1. /\ count + 1 \in Nat /\ count + 1 >= Threshold /\ MaxDelay \in Nat
      /\ Product(count) \in Nat /\ Product(count + 1) \in Nat /\ Product(count) <= Product(count + 1)
  BY LimiterConstants, ProductGrows
<1>2. Fits(count)
  BY <1>1, DurationRange DEF Fits
<1>3. QED
  BY <1>1, <1>2, DelayWhileItFits

LimiterTypes ==
  /\ now \in Nat /\ crashes \in Nat
  /\ failed \in [Key -> [count : Nat, blocked : Int]]
  /\ attempt \in [Attempt -> {"new", "busy", "asks", "accepted", "refused", "unavailable", "done"}]

\* No block reaches further than a failure at this moment would carry it, while delays fit.
NoLaterBlock ==
  \A k \in Key :
    /\ failed[k].count < Threshold => failed[k].blocked = 0
    /\ failed[k].count >= Threshold /\ Fits(failed[k].count) =>
         failed[k].blocked <= now + Delay(failed[k].count)

Limited == LimiterTypes /\ NoLaterBlock

LEMMA InitLimited == GatewayInit => Limited
<1>1. Threshold \in Nat /\ Threshold > 0
  BY GatewayAssumption DEF GatewayAssumption
<1>2. QED
  BY <1>1 DEF GatewayInit, Limited, LimiterTypes, NoLaterBlock

\* What one failure does to a name's entry.
LEMMA FailureExtends ==
  ASSUME Limited, NEW l \in Attempt, LoginFails(l)
  PROVE  LET k == KeyOf[l] IN
         /\ k \in Key /\ failed' \in [Key -> [count : Nat, blocked : Int]]
         /\ \A other \in Key : other # k => failed'[other] = failed[other]
         /\ (failed'[k].count >= Threshold /\ ~Fits(failed'[k].count)) \/ failed'[k].blocked >= failed[k].blocked
         /\ failed'[k].count < Threshold => failed'[k].blocked = 0
         /\ failed'[k].count >= Threshold => failed'[k].blocked = now + Delay(failed'[k].count)
<1> DEFINE k == KeyOf[l] f == failed[k] count == f.count + 1
           entry == [count |-> count, blocked |-> IF count >= Threshold THEN now + Delay(count) ELSE f.blocked]
<1>1. k \in Key /\ Threshold \in Nat
  BY LimiterConstants
<1>2. f \in [count : Nat, blocked : Int] /\ now \in Nat
  BY <1>1 DEF Limited, LimiterTypes
<1>3. /\ f.count < Threshold => f.blocked = 0
      /\ f.count >= Threshold /\ Fits(f.count) => f.blocked <= now + Delay(f.count)
  BY <1>1 DEF Limited, NoLaterBlock
<1>4. failed' = [failed EXCEPT ![k] = entry]
  BY DEF LoginFails
<1> HIDE DEF k, f
<1>5. f.count \in Nat /\ f.blocked \in Int /\ count \in Nat
  BY <1>2
<1>6. count >= Threshold => Delay(count) \in Int
  BY <1>5, DelayIsInt
<1>7. entry.count = count /\ entry.blocked = IF count >= Threshold THEN now + Delay(count) ELSE f.blocked
  OBVIOUS
<1>8. entry \in [count : Nat, blocked : Int]
  BY <1>2, <1>5, <1>6
<1>9. CASE count < Threshold
  <2>1. entry.blocked = f.blocked /\ f.blocked = 0
    BY <1>1, <1>3, <1>5, <1>7, <1>9
  <2>2. failed' \in [Key -> [count : Nat, blocked : Int]] /\ failed'[k] = entry
        /\ \A other \in Key : other # k => failed'[other] = failed[other]
    BY <1>1, <1>4, <1>8 DEF Limited, LimiterTypes
  <2>3. QED
    BY <1>1, <1>5, <1>7, <1>9, <2>1, <2>2 DEF k, f
<1>10. CASE count >= Threshold
  <2>1. Fits(count) => entry.blocked >= f.blocked
    <3> SUFFICES ASSUME Fits(count) PROVE entry.blocked >= f.blocked
      OBVIOUS
    <3>1. CASE f.count >= Threshold
      <4>1. Fits(f.count) /\ Delay(f.count) \in Nat /\ Delay(count) \in Nat /\ Delay(f.count) <= Delay(count)
        BY <1>5, <3>1, DelayGrows
      <4>2. f.blocked <= now + Delay(f.count)
        BY <1>3, <3>1, <4>1
      <4>3. entry.blocked = now + Delay(count)
        BY <1>7, <1>10
      <4>4. QED
        BY <1>2, <1>5, <4>1, <4>2, <4>3
    <3>2. CASE f.count < Threshold
      <4>1. Delay(count) = IF Product(count) > MaxDelay THEN MaxDelay ELSE Product(count)
        BY <1>5, <1>10, DelayWhileItFits
      <4>2. Product(count) \in Nat
        BY <1>5, <1>10, ProductGrows
      <4>3. f.blocked = 0 /\ entry.blocked = now + Delay(count)
        BY <1>3, <1>7, <1>10, <3>2
      <4>4. QED
        BY <1>2, <4>1, <4>2, <4>3, LimiterConstants
    <3>3. QED
      BY <1>1, <1>5, <3>1, <3>2
  <2>2. failed' \in [Key -> [count : Nat, blocked : Int]] /\ failed'[k] = entry
        /\ \A other \in Key : other # k => failed'[other] = failed[other]
    BY <1>1, <1>4, <1>8 DEF Limited, LimiterTypes
  <2> HIDE DEF entry
  <2>3. QED
    BY <1>1, <1>5, <1>7, <1>10, <2>1, <2>2 DEF k, f
<1>11. QED
  BY <1>1, <1>5, <1>9, <1>10

LEMMA StepLimited == Limited /\ [GatewayNext]_gatewayVars => Limited'
<1> SUFFICES ASSUME Limited, [GatewayNext]_gatewayVars PROVE Limited'
  OBVIOUS
<1>0. LimiterTypes /\ NoLaterBlock
  BY DEF Limited
<1>1. ASSUME NEW l \in Attempt, LogsIn(l) PROVE Limited'
  <2>1. LimiterTypes' \/ LoginFails(l)
    BY <1>0, <1>1, GatewayAssumption
    DEF GatewayAssumption, LogsIn, LoginStarts, LoginAnswered, LoginSucceeds, LimiterTypes
  <2>2. CASE LoginFails(l)
    <3>1. UNCHANGED <<now, crashes>> /\ attempt' = [attempt EXCEPT ![l] = "done"]
      BY <2>2 DEF LoginFails
    <3>2. LimiterTypes'
      BY <1>0, <2>2, <3>1, FailureExtends DEF LimiterTypes
    <3>3. NoLaterBlock'
      BY <1>0, <2>2, <3>1, FailureExtends DEF NoLaterBlock, Delay, Fits, Product
    <3>4. QED
      BY <3>2, <3>3 DEF Limited
  <2>3. CASE LoginSucceeds(l)
    <3>1. /\ failed' = [failed EXCEPT ![KeyOf[l]] = [count |-> 0, blocked |-> 0]] /\ now' = now
          /\ Threshold \in Nat /\ Threshold > 0
      BY <2>3, GatewayAssumption DEF GatewayAssumption, LoginSucceeds
    <3>2. NoLaterBlock'
      BY <1>0, <3>1 DEF NoLaterBlock, LimiterTypes, Delay, Fits, Product
    <3>3. QED
      BY <2>1, <2>3, <3>2 DEF Limited, LoginFails, LoginSucceeds
  <2>4. CASE LoginStarts(l) \/ LoginAnswered(l)
    <3>1. UNCHANGED <<now, failed>>
      BY <2>4 DEF LoginStarts, LoginAnswered
    <3>2. NoLaterBlock'
      BY <1>0, <3>1 DEF NoLaterBlock, Delay, Fits, Product
    <3>3. QED
      BY <2>1, <2>2, <3>2 DEF Limited
  <2>5. QED
    BY <1>1, <2>2, <2>3, <2>4 DEF LogsIn
<1>2. CASE Tick
  <2>1. now' = now + 1 /\ UNCHANGED <<failed, attempt, crashes>>
    BY <1>2 DEF Tick
  <2>2. LimiterTypes'
    BY <1>0, <2>1 DEF LimiterTypes
  <2>3. NoLaterBlock'
    <3>1. \A k \in Key : failed[k] \in [count : Nat, blocked : Int]
      BY <1>0 DEF LimiterTypes
    <3>2. \A k \in Key : failed[k].count >= Threshold => Delay(failed[k].count) \in Int
      BY <3>1, DelayIsInt
    <3>3. \A k \in Key : failed[k].count >= Threshold /\ Fits(failed[k].count) =>
            failed[k].blocked <= now' + Delay(failed[k].count)
      BY <1>0, <2>1, <3>1, <3>2 DEF NoLaterBlock, LimiterTypes
    <3>4. QED
      BY <1>0, <2>1, <3>3 DEF NoLaterBlock, Delay, Fits, Product
  <2>4. QED
    BY <2>2, <2>3 DEF Limited
<1>3. CASE SessiondDies
  <2>1. UNCHANGED <<now, failed>> /\ LimiterTypes'
    BY <1>0, <1>3 DEF SessiondDies, LimiterTypes
  <2>2. QED
    BY <1>0, <2>1 DEF Limited, NoLaterBlock, Delay, Fits, Product
<1>4. CASE \/ \E r \in Reauth : Proves(r)
           \/ \E a \in Action : Acts(a)
           \/ \E t \in Token : SessionEnds(t)
           \/ UNCHANGED gatewayVars
  <2>1. UNCHANGED <<now, failed, attempt, crashes>>
    BY <1>4
    DEF Proves, ReauthStarts, ReauthFinds, ReauthProves, ReauthWrites, ReauthEnds,
        Acts, ActionStarts, ActionChecks, ActionDecides, SessionEnds, gatewayVars
  <2>2. QED
    BY <1>0, <2>1 DEF Limited, LimiterTypes, NoLaterBlock, Delay, Fits, Product
<1>5. QED
  BY <1>1, <1>2, <1>3, <1>4 DEF GatewayNext

LEMMA LimitedInvariant == GatewaySpec => []Limited
BY InitLimited, StepLimited, PTL DEF GatewaySpec

\* Every reachable state of the gateway's logins, proofs and actions is well-typed, for
\* any threshold, any longest block and any window.
THEOREM GatewayTypeCorrect == GatewaySpec => []GatewayTypeOK
<1>1. Limited /\ NotesKnown => GatewayTypeOK
  BY DEF Limited, LimiterTypes, NotesKnown, Types, Reauths, Actions, ReauthPlaces, ActionPlaces, GatewayTypeOK
<1>2. QED
  BY <1>1, LimitedInvariant, KnownInvariant, PTL

\* Up to the failure whose delay no longer fits into a Duration, only a login that was
\* accepted shortens a block: logins of the same name that were let through before the
\* block was set, and fail in whatever order afterwards, do not.
THEOREM OnlySuccessUnblocks == GatewaySpec => BlockGrowsWhileItFits
<1> DEFINE Stays == \A k \in Key :
             \/ failed'[k].blocked >= failed[k].blocked
             \/ failed'[k].count >= Threshold /\ ~Fits(failed'[k].count)
             \/ \E l \in Attempt : KeyOf[l] = k /\ attempt[l] = "accepted" /\ attempt'[l] = "done"
<1>1. Limited /\ [GatewayNext]_gatewayVars => [Stays]_gatewayVars
  <2> SUFFICES ASSUME Limited, GatewayNext PROVE Stays
    OBVIOUS
  <2>0. \A k \in Key : failed[k] \in [count : Nat, blocked : Int]
    BY DEF Limited, LimiterTypes
  <2>1. ASSUME NEW l \in Attempt, LoginFails(l) PROVE Stays
    BY <2>0, <2>1, FailureExtends
  <2>2. ASSUME NEW l \in Attempt, LoginSucceeds(l) PROVE Stays
    <3>1. /\ failed' = [failed EXCEPT ![KeyOf[l]] = [count |-> 0, blocked |-> 0]]
          /\ attempt[l] = "accepted" /\ attempt' = [attempt EXCEPT ![l] = "done"]
      BY <2>2 DEF LoginSucceeds
    <3>2. attempt'[l] = "done" /\ \A k \in Key : k # KeyOf[l] => failed'[k] = failed[k]
      BY <3>1 DEF Limited, LimiterTypes
    <3>3. QED
      BY <2>0, <3>1, <3>2
  <2>3. CASE UNCHANGED failed
    BY <2>0, <2>3
  <2>4. QED
    BY <2>1, <2>2, <2>3
    DEF GatewayNext, LogsIn, LoginStarts, LoginAnswered, Proves, ReauthStarts, ReauthFinds,
        ReauthProves, ReauthWrites, ReauthEnds, Acts, ActionStarts, ActionChecks, ActionDecides,
        SessionEnds, SessiondDies, Tick
<1>2. QED
  BY <1>1, LimitedInvariant, PTL DEF GatewaySpec, BlockGrowsWhileItFits
=============================================================================
