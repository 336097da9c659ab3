------------------------------- MODULE Gateway -------------------------------
(***************************************************************************)
(* Logging in, proving the password again, and acting on that proof: the   *)
(* gateway with its login limiter, what sessiond keeps of a session, and   *)
(* the broker's question whether the proof is fresh.                       *)
(*                                                                         *)
(* Every arrow is a call that takes time: the limiter is asked before      *)
(* sessiond and told after it, ReauthUntil is written to a session that    *)
(* was looked up earlier and read without the daemon's lock.  Agents are   *)
(* the business of module Sessiond; idle and absolute expiry may come any  *)
(* time.  Cookies, CSRF tokens and headers are left out.                   *)
(***************************************************************************)
EXTENDS Integers, FiniteSets

CONSTANTS
  Token,                  \* session tokens; they do not repeat
  Attempt, KeyOf, Key,    \* the logins; KeyOf[l]: user name and address
  Reauth, ReauthOn,       \* the auth.reauth calls; ReauthOn[r]: r's session
  Action, ActionOn,       \* the privileged actions polkit challenges; their session
  Threshold, MaxDelay,    \* limiterThreshold, limiterMaxDelay
  Second, Width,          \* time.Second, the unit of MaxDelay and Window being one; its bits
  Window,                 \* ReauthWindow
  MaxTime, MaxCrash       \* bounds: the clock; deaths of sessiond

ASSUME GatewayAssumption ==
  /\ KeyOf \in [Attempt -> Key] /\ ReauthOn \in [Reauth -> Token] /\ ActionOn \in [Action -> Token]
  /\ {Threshold, MaxDelay, Second, Width, Window, MaxTime, MaxCrash} \subseteq Nat
  /\ Threshold > 0 /\ MaxDelay > 0 /\ Second > 0 /\ Width > 0 /\ Window > 0

VARIABLES
  now,
  failed,   \* failed[k]: the limiter's entry; a count of 0 is no entry
  attempt,  \* attempt[l]: where handleLogin is
  sess,     \* sess[t]: "unused", "live", or "gone" from sessiond's map
  until,    \* until[t]: ReauthUntil of the session, which a call may hold after it has gone
  reauth,   \* reauth[r]: where the call is, and the time it is about to write
  action,   \* action[a]: where the call is, and the ReauthUntil it was given
  proved,   \* history, proved[t]: when a proof PAM has accepted was noted
  crashes

gatewayVars == <<now, failed, attempt, sess, until, reauth, action, proved, crashes>>

-----------------------------------------------------------------------------
(***************************************************************************)
(* handleLogin and the limiter.                                            *)
(***************************************************************************)
\* time.Duration(1 << (count - Threshold + 1)) * time.Second, before the product is put
\* into Width bits, and after: it fits, or it may be anything from below zero on.
Product(count) == 2^(count - Threshold + 1) * Second
Fits(count) == Product(count) < 2^(Width - 1)
Signed(x) == LET w == x % 2^Width IN IF w < 2^(Width - 1) THEN w ELSE w - 2^Width

\* Twice as long with each failure from the threshold on, with a cap, but no floor.
Delay(count) == LET d == Signed(Product(count)) IN IF d > MaxDelay THEN MaxDelay ELSE d

\* limiter.blocked; who is not blocked asks sessiond.
LoginStarts(l) ==
  /\ attempt[l] = "new"
  /\ attempt' = [attempt EXCEPT ![l] = IF failed[KeyOf[l]].blocked > now THEN "busy" ELSE "asks"]
  /\ UNCHANGED <<now, failed, sess, until, reauth, action, proved, crashes>>

\* sessiond accepts the password and makes a session, though the answer may be lost, or
\* refuses, or is not available.
LoginAnswered(l) ==
  /\ attempt[l] = "asks"
  /\ \/ \E t \in Token :
          /\ sess[t] = "unused" /\ sess' = [sess EXCEPT ![t] = "live"]
          /\ \E answer \in {"accepted", "unavailable"} : attempt' = [attempt EXCEPT ![l] = answer]
     \/ attempt' = [attempt EXCEPT ![l] = "refused"] /\ UNCHANGED sess
     \/ attempt' = [attempt EXCEPT ![l] = "unavailable"] /\ UNCHANGED sess
  /\ UNCHANGED <<now, failed, until, reauth, action, proved, crashes>>

\* Mutant of LoginFails: counting starts anew when a block is set.
LoginFailsAnew(l) ==
  LET k == KeyOf[l] count == failed[k].count + 1 IN
  /\ attempt[l] = "refused"
  /\ failed' = [failed EXCEPT ![k] =
       [count |-> count % Threshold,
        blocked |-> IF count >= Threshold THEN now + Delay(count) ELSE 0]]
  /\ attempt' = [attempt EXCEPT ![l] = "done"]
  /\ UNCHANGED <<now, sess, until, reauth, action, proved, crashes>>

\* limiter.record
LoginFails(l) ==
  LET k == KeyOf[l] count == failed[k].count + 1 IN
  /\ attempt[l] = "refused"
  /\ failed' = [failed EXCEPT ![k] =
       [count |-> count,
        blocked |-> IF count >= Threshold THEN now + Delay(count) ELSE @.blocked]]
  /\ attempt' = [attempt EXCEPT ![l] = "done"]
  /\ UNCHANGED <<now, sess, until, reauth, action, proved, crashes>>

\* limiter.reset
LoginSucceeds(l) ==
  /\ attempt[l] = "accepted"
  /\ failed' = [failed EXCEPT ![KeyOf[l]] = [count |-> 0, blocked |-> 0]]
  /\ attempt' = [attempt EXCEPT ![l] = "done"]
  /\ UNCHANGED <<now, sess, until, reauth, action, proved, crashes>>

-----------------------------------------------------------------------------
(***************************************************************************)
(* auth.reauth.                                                            *)
(***************************************************************************)
Live(t) == sess[t] = "live"
ReauthGoes(r, at) == reauth' = [reauth EXCEPT ![r].at = at]

\* requireSession, in the gateway.
ReauthStarts(r) ==
  /\ reauth[r].at = "new"
  /\ ReauthGoes(r, IF Live(ReauthOn[r]) THEN "lookup" ELSE "refused")
  /\ UNCHANGED <<now, failed, attempt, sess, until, action, proved, crashes>>

\* handleReauth looks the session up and holds on to it.
ReauthFinds(r) ==
  /\ reauth[r].at = "lookup"
  /\ ReauthGoes(r, IF Live(ReauthOn[r]) THEN "pam" ELSE "refused")
  /\ UNCHANGED <<now, failed, attempt, sess, until, action, proved, crashes>>

\* Mutant of ReauthProves: whatever PAM says.
ReauthProvesAnyhow(r) ==
  /\ reauth[r].at = "pam"
  /\ \E pam \in BOOLEAN : reauth' = [reauth EXCEPT ![r].at = "proved", ![r].pam = pam]
  /\ UNCHANGED <<now, failed, attempt, sess, until, action, proved, crashes>>

\* PAM.
ReauthProves(r) ==
  /\ reauth[r].at = "pam"
  /\ \E pam \in BOOLEAN :
       reauth' = [reauth EXCEPT ![r].at = IF pam THEN "proved" ELSE "refused", ![r].pam = pam]
  /\ UNCHANGED <<now, failed, attempt, sess, until, action, proved, crashes>>

\* The end of the window is computed, and its words are written one after the other.
ReauthWrites(r) ==
  /\ reauth[r].at = "proved"
  /\ reauth' = [reauth EXCEPT ![r].at = "writes", ![r].value = now + Window]
  /\ proved' = [proved EXCEPT ![ReauthOn[r]] = IF reauth[r].pam THEN @ \cup {now} ELSE @]
  /\ UNCHANGED <<now, failed, attempt, sess, until, action, crashes>>

\* The write is complete, whether or not the session is still in the map.
ReauthEnds(r) ==
  LET t == ReauthOn[r] IN
  /\ reauth[r].at = "writes"
  /\ until' = [until EXCEPT ![t] = reauth[r].value]
  /\ ReauthGoes(r, "done")
  /\ UNCHANGED <<now, failed, attempt, sess, action, proved, crashes>>

-----------------------------------------------------------------------------
(***************************************************************************)
(* An action that polkit challenges.                                       *)
(***************************************************************************)
ActionGoes(a, at) == action' = [action EXCEPT ![a].at = at]

\* requireSession, in the gateway; then the agent and the broker have it.
ActionStarts(a) ==
  /\ action[a].at = "new"
  /\ ActionGoes(a, IF Live(ActionOn[a]) THEN "check" ELSE "refused")
  /\ UNCHANGED <<now, failed, attempt, sess, until, reauth, proved, crashes>>

\* What an unlocked read of ReauthUntil may return: a write that is under way leaves
\* the old time, the new one, or parts of both, which can be any time.
Readable(t) ==
  IF \E r \in Reauth : ReauthOn[r] = t /\ reauth[r].at = "writes"
    THEN 0..(MaxTime + Window + 1) ELSE {until[t]}

\* reauthFresh asks; handleSessionCheck looks the session up and reads.  The call may fail,
\* and the session be another user's.
ActionChecks(a) ==
  LET t == ActionOn[a] IN
  /\ action[a].at = "check"
  /\ \/ /\ Live(t)
        /\ \E value \in Readable(t) : action' = [action EXCEPT ![a] = 
               [at |-> "compare", value |-> value, asked |-> now]]
     \/ ActionGoes(a, "refused")
  /\ UNCHANGED <<now, failed, attempt, sess, until, reauth, proved, crashes>>

\* Mutant of ActionDecides: that there is a proof is enough.
ActionDecidesAnyTime(a) ==
  /\ action[a].at = "compare"
  /\ ActionGoes(a, IF action[a].value > 0 THEN "accepted" ELSE "refused")
  /\ UNCHANGED <<now, failed, attempt, sess, until, reauth, proved, crashes>>

\* The answer is compared with the clock.
ActionDecides(a) ==
  /\ action[a].at = "compare"
  /\ ActionGoes(a, IF now < action[a].value THEN "accepted" ELSE "refused")
  /\ UNCHANGED <<now, failed, attempt, sess, until, reauth, proved, crashes>>

-----------------------------------------------------------------------------
\* A logout, or lookup finds the session too old.
SessionEnds(t) ==
  /\ Live(t) /\ sess' = [sess EXCEPT ![t] = "gone"]
  /\ UNCHANGED <<now, failed, attempt, until, reauth, action, proved, crashes>>

\* sessiond dies; its calls fail, and a fresh start knows no session.
SessiondDies ==
  /\ crashes < MaxCrash /\ crashes' = crashes + 1
  /\ sess' = [t \in Token |-> IF Live(t) THEN "gone" ELSE sess[t]]
  /\ attempt' = [l \in Attempt |-> IF attempt[l] = "asks" THEN "unavailable" ELSE attempt[l]]
  /\ reauth' = [r \in Reauth |-> IF reauth[r].at \in {"lookup", "pam", "proved", "writes"}
                                 THEN [reauth[r] EXCEPT !.at = "refused"] ELSE reauth[r]]
  /\ UNCHANGED <<now, failed, until, action, proved>>

\* The clock stands still while three words are written.
Tick ==
  /\ \A r \in Reauth : reauth[r].at # "writes"
  /\ now < MaxTime /\ now' = now + 1
  /\ UNCHANGED <<failed, attempt, sess, until, reauth, action, proved, crashes>>

GatewayInit ==
  /\ now = 0 /\ crashes = 0
  /\ failed = [k \in Key |-> [count |-> 0, blocked |-> 0]]
  /\ attempt = [l \in Attempt |-> "new"]
  /\ sess = [t \in Token |-> "unused"] /\ until = [t \in Token |-> 0]
  /\ reauth = [r \in Reauth |-> [at |-> "new", pam |-> FALSE, value |-> 0]]
  /\ action = [a \in Action |-> [at |-> "new", value |-> 0, asked |-> 0]]
  /\ proved = [t \in Token |-> {}]

LogsIn(l) == LoginStarts(l) \/ LoginAnswered(l) \/ LoginFails(l) \/ LoginSucceeds(l)

Proves(r) == ReauthStarts(r) \/ ReauthFinds(r) \/ ReauthProves(r) \/ ReauthWrites(r) \/ ReauthEnds(r)

Acts(a) == ActionStarts(a) \/ ActionChecks(a) \/ ActionDecides(a)

GatewayNext ==
  \/ \E l \in Attempt : LogsIn(l)
  \/ \E r \in Reauth : Proves(r)
  \/ \E a \in Action : Acts(a)
  \/ \E t \in Token : SessionEnds(t)
  \/ SessiondDies \/ Tick

GatewaySpec == GatewayInit /\ [][GatewayNext]_gatewayVars

-----------------------------------------------------------------------------
(***************************************************************************)
(* Properties.                                                             *)
(***************************************************************************)
\* Every variable stays within its range; counts do not run below zero.
GatewayTypeOK ==
  /\ now \in Nat /\ crashes \in Nat
  /\ failed \in [Key -> [count : Nat, blocked : Int]]
  /\ attempt \in [Attempt -> {"new", "busy", "asks", "accepted", "refused", "unavailable", "done"}]
  /\ sess \in [Token -> {"unused", "live", "gone"}] /\ until \in [Token -> Nat]
  /\ reauth \in [Reauth -> [at : {"new", "lookup", "pam", "proved", "writes", "done", "refused"},
                             pam : BOOLEAN, value : Nat]]
  /\ action \in [Action -> [at : {"new", "check", "compare", "accepted", "refused"}, value : Nat, asked : Nat]]
  /\ proved \in [Token -> SUBSET Nat]

\* An action that was challenged and accepted has a proof of the password in its own
\* session, and when sessiond was asked the window of that proof was open, although the
\* note of it is written without a lock, to a session that may have gone, and read
\* while it is written.
FreshMeansProved ==
  \A a \in Action : action[a].at = "accepted" =>
    \E noted \in proved[ActionOn[a]] : noted <= action[a].asked /\ action[a].asked < noted + Window

\* Nothing that is late brings a session back.
GoneForGood == [][\A t \in Token : sess[t] = "gone" => sess'[t] = "gone"]_gatewayVars

\* While nobody logs in with success, a name stays blocked at least as long as it was,
\* whatever logins were let through before and fail late, up to the failure whose delay
\* does not fit into a Duration.
BlockGrowsWhileItFits ==
  [][\A k \in Key :
       \/ failed'[k].blocked >= failed[k].blocked
       \/ failed'[k].count >= Threshold /\ ~Fits(failed'[k].count)
       \/ \E l \in Attempt : KeyOf[l] = k /\ attempt[l] = "accepted" /\ attempt'[l] = "done"]_gatewayVars

\* gateway_test.go: "not blocked after threshold".  A failure that is counted at the
\* threshold or beyond leaves the name blocked.  It does not where the delay has run over.
BlockedAfterThreshold ==
  [][\A k \in Key :
       failed'[k].count > failed[k].count /\ failed'[k].count >= Threshold
         => failed'[k].blocked > now]_gatewayVars
=============================================================================
