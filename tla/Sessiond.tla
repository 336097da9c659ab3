------------------------------ MODULE Sessiond ------------------------------
(***************************************************************************)
(* The session daemon (internal/sessiond) and the life of the agents it    *)
(* starts (cmd/lumiod/agent): who is logged in, which process serves a     *)
(* user, who listens on the user's socket path, and when an agent ends.    *)
(*                                                                         *)
(* Handlers run in goroutines of their own and share d.mu only for single  *)
(* map operations, so each of those is a step and everything else falls    *)
(* between.  A login is named once: l is the POST /login, the token it is  *)
(* answered with, and the agent process it may have to spawn.              *)
(*                                                                         *)
(* An agent knows whether it is in use by its WebSockets and PTYs: busy.   *)
(***************************************************************************)
EXTENDS FiniteSets

CONSTANTS
  Login,      \* the logins: tokens, and the agents they spawn
  NoAgent,    \* stands for "no process"
  User,
  UserOf,     \* UserOf[l]: who logs in with l
  MayOverlap, \* may two logins of one user be handled at the same time?
  MayForget,  \* may a session end, by time or a second logout, before its logout arrives?
  MayDie,     \* may an agent process crash?
  MayRestart  \* may the daemon be restarted?

ASSUME SessiondAssumption ==
  /\ NoAgent \notin Login
  /\ UserOf \in [Login -> User]
  /\ {MayOverlap, MayForget, MayDie, MayRestart} \subseteq BOOLEAN

VARIABLES
  stuck,    \* is d.mu held by a goroutine that is gone?
  sessions, \* the tokens in Daemon.sessions
  expired,  \* tokens whose idle or absolute time has run out
  agents,   \* Daemon.agents
  dead,     \* the agentProcs markDead has been called for
  proc,     \* proc[l]: the agent process login l spawned
  owner,    \* owner[u]: the process that listens on users/<uid>.sock
  busy,     \* the agents with a WebSocket or a PTY
  login,    \* login[l]: how far handleLogin is
  logout,   \* logout[l]: how far handleLogout(l) is, and the agent it looks at
  request   \* request[l]: the gateway's request for the client of l

vars == <<stuck, sessions, expired, agents, dead, proc, owner, busy, login, logout, request>>

Serves(a) == a # NoAgent /\ proc[a] \in {"running", "leaving"}

Valid(l) == l \in sessions \ expired

LoggingIn(l) == login[l] \notin {"idle", "done", "refused", "lost"}

Quiet == [at |-> "idle", agent |-> NoAgent]

-----------------------------------------------------------------------------
(***************************************************************************)
(* handleLogin.                                                            *)
(***************************************************************************)
GoLogin(l, place) == login' = [login EXCEPT ![l] = place]

\* PAM says yes, or no.
Authenticate(l) ==
  /\ login[l] = "idle"
  /\ MayOverlap \/ \A m \in Login : UserOf[m] = UserOf[l] => ~LoggingIn(m)
  /\ GoLogin(l, "ensure") \/ GoLogin(l, "refused")
  /\ UNCHANGED <<stuck, sessions, expired, agents, dead, proc, owner, busy, logout, request>>

Alive(a) == a # NoAgent /\ a \notin dead

\* Mutant of EnsureLook: an agent that is there is not reused.
EnsureNothing(l) ==
  /\ ~stuck /\ login[l] = "ensure"
  /\ GoLogin(l, "spawn")
  /\ UNCHANGED <<stuck, sessions, expired, agents, dead, proc, owner, busy, logout, request>>

\* ensureAgent: a living agent is reused, otherwise one has to be spawned.
EnsureLook(l) ==
  /\ ~stuck /\ login[l] = "ensure"
  /\ GoLogin(l, IF Alive(agents[UserOf[l]]) THEN "store" ELSE "spawn")
  /\ UNCHANGED <<stuck, sessions, expired, agents, dead, proc, owner, busy, logout, request>>

\* spawnAgent takes the socket path, whoever had it.
SpawnListen(l) ==
  /\ login[l] = "spawn"
  /\ owner' = [owner EXCEPT ![UserOf[l]] = l]
  /\ proc' = [proc EXCEPT ![l] = "listening"]
  /\ GoLogin(l, "start")
  /\ UNCHANGED <<stuck, sessions, expired, agents, dead, busy, logout, request>>

SpawnStart(l) ==
  /\ login[l] = "start"
  /\ proc' = [proc EXCEPT ![l] = "running"]
  /\ GoLogin(l, "register")
  /\ UNCHANGED <<stuck, sessions, expired, agents, dead, owner, busy, logout, request>>

\* An error on the way: 503.  Closing the listener may unlink the path, and
\* unlinks it by its name.
SpawnFails(l) ==
  /\ login[l] \in {"spawn", "start"}
  /\ owner' \in {owner, [owner EXCEPT ![UserOf[l]] = NoAgent]}
  /\ owner'[UserOf[l]] # l
  /\ proc' = [proc EXCEPT ![l] = IF @ = "listening" THEN "exited" ELSE @]
  /\ GoLogin(l, "refused")
  /\ UNCHANGED <<stuck, sessions, expired, agents, dead, busy, logout, request>>

\* Mutant of Register: the process is not entered in the map.
RegisterNothing(l) ==
  /\ ~stuck /\ login[l] = "register"
  /\ GoLogin(l, "store")
  /\ UNCHANGED <<stuck, sessions, expired, agents, dead, proc, owner, busy, logout, request>>

Register(l) ==
  /\ ~stuck /\ login[l] = "register"
  /\ agents' = [agents EXCEPT ![UserOf[l]] = l]
  /\ GoLogin(l, "store")
  /\ UNCHANGED <<stuck, sessions, expired, dead, proc, owner, busy, logout, request>>

\* The session is stored and the login answered.
StoreSession(l) ==
  /\ ~stuck /\ login[l] = "store"
  /\ sessions' = sessions \cup {l}
  /\ GoLogin(l, "done")
  /\ UNCHANGED <<stuck, expired, agents, dead, proc, owner, busy, logout, request>>

-----------------------------------------------------------------------------
(***************************************************************************)
(* handleLogout and stopAgentIfIdle.                                       *)
(***************************************************************************)
GoLogout(l, place, a) == logout' = [logout EXCEPT ![l] = [at |-> place, agent |-> a]]

\* The client of l logs out; it may do so more than once.
SendLogout(l) ==
  /\ login[l] = "done" /\ logout[l] = Quiet
  /\ MayForget \/ Valid(l)
  /\ GoLogout(l, "delete", NoAgent)
  /\ UNCHANGED <<stuck, sessions, expired, agents, dead, proc, owner, busy, login, request>>

Remaining(l) == {m \in sessions \ {l} : UserOf[m] = UserOf[l]}

\* Mutant of LogoutDelete: it returns early, and still locked, if sessions remain.
LogoutDeleteLocked(l) ==
  /\ ~stuck /\ logout[l].at = "delete"
  /\ sessions' = sessions \ {l}
  /\ stuck' = (Remaining(l) # {})
  /\ GoLogout(l, IF Remaining(l) = {} THEN "look" ELSE "idle", NoAgent)
  /\ UNCHANGED <<expired, agents, dead, proc, owner, busy, login, request>>

\* The token is deleted and the user's other sessions are counted.  The count
\* reads the user of the deleted session: for an unknown token that is a nil
\* dereference as soon as there is any session to count, and the handler is
\* gone with d.mu locked.
LogoutDelete(l) ==
  /\ ~stuck /\ logout[l].at = "delete"
  /\ sessions' = sessions \ {l}
  /\ stuck' = (l \notin sessions /\ sessions # {})
  /\ GoLogout(l, IF l \in sessions /\ Remaining(l) = {} THEN "look"
                 ELSE IF stuck' THEN "panicked" ELSE "idle", NoAgent)
  /\ UNCHANGED <<expired, agents, dead, proc, owner, busy, login, request>>

LogoutLook(l) ==
  LET a == agents[UserOf[l]] IN
  /\ ~stuck /\ logout[l].at = "look"
  /\ IF Alive(a) THEN GoLogout(l, "ask", a) ELSE GoLogout(l, "idle", NoAgent)
  /\ UNCHANGED <<stuck, sessions, expired, agents, dead, proc, owner, busy, login, request>>

\* GET /agent/state goes to the socket path: whoever serves it answers.
LogoutAsk(l) ==
  LET o == owner[UserOf[l]] IN
  /\ logout[l].at = "ask"
  /\ IF Serves(o) /\ o \notin busy
       THEN GoLogout(l, "signal", logout[l].agent)
       ELSE GoLogout(l, "idle", NoAgent)
  /\ UNCHANGED <<stuck, sessions, expired, agents, dead, proc, owner, busy, login, request>>

Ends(a) ==
  /\ proc' = [proc EXCEPT ![a] = "exited"]
  /\ busy' = busy \ {a}

\* SIGTERM; a process that is gone does not mind.
LogoutSignal(l) ==
  /\ logout[l].at = "signal"
  /\ IF Serves(logout[l].agent) THEN Ends(logout[l].agent) ELSE UNCHANGED <<proc, busy>>
  /\ GoLogout(l, "idle", NoAgent)
  /\ UNCHANGED <<stuck, sessions, expired, agents, dead, owner, login, request>>

-----------------------------------------------------------------------------
(***************************************************************************)
(* Requests: the gateway validates the token and dials the user's socket.  *)
(***************************************************************************)
SendRequest(l) ==
  /\ login[l] = "done" /\ request[l] = "none"
  /\ request' = [request EXCEPT ![l] = "validate"]
  /\ UNCHANGED <<stuck, sessions, expired, agents, dead, proc, owner, busy, login, logout>>

\* lookup: an expired session is deleted when it is looked at.
Validate(l) ==
  /\ ~stuck /\ request[l] = "validate"
  /\ sessions' = IF l \in expired THEN sessions \ {l} ELSE sessions
  /\ request' = [request EXCEPT ![l] = IF Valid(l) THEN "dial" ELSE "none"]
  /\ UNCHANGED <<stuck, expired, agents, dead, proc, owner, busy, login, logout>>

\* The socket listens before its process runs: the connection waits.
Starting(a) == a # NoAgent /\ proc[a] = "listening"

\* A request that only asks leaves no trace, one that opens a WebSocket does;
\* without an agent the gateway answers unavailable.
Dial(l) ==
  LET o == owner[UserOf[l]] IN
  /\ request[l] = "dial"
  /\ ~Starting(o)
  /\ request' = [request EXCEPT ![l] = "none"]
  /\ busy' \in IF Serves(o) THEN {busy, busy \cup {o}} ELSE {busy}
  /\ UNCHANGED <<stuck, sessions, expired, agents, dead, proc, owner, login, logout>>

-----------------------------------------------------------------------------
(***************************************************************************)
(* Time, the agents and the daemon's own end.                              *)
(***************************************************************************)
Expire(l) ==
  /\ Valid(l)
  /\ MayForget \/ logout[l] = Quiet
  /\ expired' = expired \cup {l}
  /\ UNCHANGED <<stuck, sessions, agents, dead, proc, owner, busy, login, logout, request>>

\* The last WebSocket and the last PTY of the agent are gone.
HangUp(a) ==
  /\ a \in busy
  /\ busy' = busy \ {a}
  /\ UNCHANGED <<stuck, sessions, expired, agents, dead, proc, owner, login, logout, request>>

\* Ten minutes without a connection, a PTY or a request; then os.Exit.  The login
\* that spawned the agent does not last that long.
IdleDecide(a) ==
  /\ proc[a] = "running" /\ a \notin busy /\ login[a] = "done"
  /\ proc' = [proc EXCEPT ![a] = "leaving"]
  /\ UNCHANGED <<stuck, sessions, expired, agents, dead, owner, busy, login, logout, request>>

IdleExit(a) ==
  /\ proc[a] = "leaving"
  /\ Ends(a)
  /\ UNCHANGED <<stuck, sessions, expired, agents, dead, owner, login, logout, request>>

Die(a) ==
  /\ MayDie /\ Serves(a)
  /\ Ends(a)
  /\ UNCHANGED <<stuck, sessions, expired, agents, dead, owner, login, logout, request>>

\* cmd.Wait returns, a little later than the process ends.
Reap(a) ==
  /\ proc[a] = "exited" /\ a \notin dead
  /\ login[a] \notin {"refused", "lost"}
  /\ dead' = dead \cup {a}
  /\ UNCHANGED <<stuck, sessions, expired, agents, proc, owner, busy, login, logout, request>>

\* systemd stops the whole control group, agents included, and starts a daemon
\* that knows of no session.
Restart ==
  /\ MayRestart
  /\ \E l \in Login : LoggingIn(l) \/ l \in sessions \/ logout[l] # Quiet
  /\ stuck' = FALSE
  /\ sessions' = {} /\ expired' = {}
  /\ agents' = [u \in User |-> NoAgent]
  /\ dead' = {a \in Login : proc[a] # "none"}
  /\ proc' = [a \in Login |-> IF proc[a] = "none" THEN "none" ELSE "exited"]
  /\ busy' = {}
  /\ login' = [l \in Login |-> IF LoggingIn(l) THEN "lost" ELSE login[l]]
  /\ logout' = [l \in Login |-> Quiet]
  /\ request' = [l \in Login |-> "none"]
  /\ UNCHANGED owner

-----------------------------------------------------------------------------
Init ==
  /\ stuck = FALSE
  /\ sessions = {} /\ expired = {}
  /\ agents = [u \in User |-> NoAgent] /\ dead = {}
  /\ proc = [a \in Login |-> "none"]
  /\ owner = [u \in User |-> NoAgent]
  /\ busy = {}
  /\ login = [l \in Login |-> "idle"]
  /\ logout = [l \in Login |-> Quiet]
  /\ request = [l \in Login |-> "none"]

HandleLogin(l) ==
  \/ EnsureLook(l) \/ SpawnListen(l) \/ SpawnStart(l) \/ SpawnFails(l)
  \/ Register(l) \/ StoreSession(l)

HandleLogout(l) == LogoutDelete(l) \/ LogoutLook(l) \/ LogoutAsk(l) \/ LogoutSignal(l)

HandleRequest(l) == Validate(l) \/ Dial(l)

AgentStep(a) == IdleDecide(a) \/ IdleExit(a) \/ Reap(a)

Next ==
  \/ \E l \in Login :
       \/ Authenticate(l) \/ HandleLogin(l)
       \/ SendLogout(l) \/ HandleLogout(l)
       \/ SendRequest(l) \/ HandleRequest(l)
       \/ Expire(l)
       \/ HangUp(l) \/ AgentStep(l) \/ Die(l)
  \/ Restart

Spec == Init /\ [][Next]_vars

\* Goroutines run, every call between the daemons has a deadline, and a process
\* that has ended is reaped.  Clients come and go as they like; the agent's idle
\* timer is not relied on.
FairSpec ==
  /\ Spec
  /\ \A l \in Login :
       /\ WF_vars(HandleLogin(l)) /\ WF_vars(HandleLogout(l)) /\ WF_vars(HandleRequest(l))
       /\ WF_vars(IdleExit(l)) /\ WF_vars(Reap(l))

\* Clients that keep asking.
AskingSpec == FairSpec /\ \A l \in Login : WF_vars(SendRequest(l))

-----------------------------------------------------------------------------
(***************************************************************************)
(* Properties.                                                             *)
(***************************************************************************)
Process == {"none", "listening", "running", "leaving", "exited"}

\* Every variable stays within its range; markDead is called for a process that
\* has ended, and only a process that runs has connections.
TypeOK ==
  /\ stuck \in BOOLEAN
  /\ sessions \subseteq Login /\ expired \subseteq Login
  /\ agents \in [User -> Login \cup {NoAgent}]
  /\ dead \subseteq {a \in Login : proc[a] = "exited"}
  /\ busy \subseteq {a \in Login : Serves(a)}
  /\ proc \in [Login -> Process]
  /\ owner \in [User -> Login \cup {NoAgent}]
  /\ login \in [Login -> {"idle", "ensure", "spawn", "start", "register", "store",
                          "done", "refused", "lost"}]
  /\ logout \in [Login -> [at : {"idle", "delete", "look", "ask", "signal", "panicked"},
                           agent : Login \cup {NoAgent}]]
  /\ request \in [Login -> {"none", "validate", "dial"}]

\* However logins, logouts, idle exits, crashes and late reaping fall, a user has
\* one agent at most: what ensureAgent finds dead is dead (login handlers of one
\* user that do not overlap).
OneAgentPerUser ==
  \A a, b \in Login : Serves(a) /\ Serves(b) /\ UserOf[a] = UserOf[b] => a = b

\* The process ensureAgent hands out, as long as it lives, is the one behind the
\* socket path: spawnAgent never takes the path from a living agent, and
\* stopAgentIfIdle asks the process it is going to signal.
RegisteredListens ==
  \A u \in User : Serves(agents[u]) => owner[u] = agents[u]

\* Whoever asks the daemon is answered: the handlers share d.mu, and nobody keeps it.
EveryCallAnswered ==
  \A l \in Login :
    /\ LoggingIn(l) ~> ~LoggingIn(l)
    /\ (logout[l] # Quiet) ~> (logout[l] = Quiet)
    /\ (request[l] # "none") ~> (request[l] = "none")

\* The agent of a valid session whose client keeps asking is there again after
\* it has ended.  It is not, only a login starts agents: no run checks this, see the
\* README, section 4.
AgentComesBack ==
  \A l \in Login : (Valid(l) /\ ~Serves(owner[UserOf[l]])) ~> (~Valid(l) \/ Serves(owner[UserOf[l]]))
=============================================================================
