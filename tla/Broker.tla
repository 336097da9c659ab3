------------------------------- MODULE Broker -------------------------------
(***************************************************************************)
(* The privileged broker: what happens to a POST /action between the       *)
(* socket and the reply (internal/broker).  Every call runs the pipeline   *)
(*                                                                         *)
(*   validate -> replay by requestId -> polkit -> unit lock + precondition *)
(*     -> audit begin -> execute and verify -> audit end -> reply          *)
(*                                                                         *)
(* in a goroutine of its own, so the steps of different calls interleave.  *)
(* The audit table is the only state that survives a crash; it is also     *)
(* what a repeated requestId is answered from.                             *)
(*                                                                         *)
(* Executors are abstract here: systemd is a unit state and a queued job,  *)
(* the package worker a progress record per request, and the protected     *)
(* file, network and power executors an outcome.                           *)
(***************************************************************************)
EXTENDS Naturals, Sequences, FiniteSets

CONSTANTS
  Call,         \* the POST /action calls the broker is ever sent
  RequestId,    \* the client-generated request ids
  Unit,         \* the systemd units calls may name
  NoCall,       \* stands for "no call"
  NoUnit,       \* a call that names no unit
  RequestOf,    \* RequestOf[c]: the requestId call c carries
  KindOf,       \* KindOf[c]: the executor the action of c goes to
  OpOf,         \* OpOf[c]: the systemd operation of c ("none" if it has none)
  UnitOf,       \* UnitOf[c]: arguments.unit, or restartUnit of a file action
  ExpectedOf,   \* ExpectedOf[c]: expected.activeState ("any" when omitted)
  MayOverlap,   \* may a client send a requestId again before it is answered?
  MayCrash,     \* may the broker process crash?
  AuditMayFail, \* may an INSERT into the audit table fail?
  MayFlip       \* may somebody else (systemctl over SSH) change a unit?

Kind == {"service", "direct", "apply"}
ActiveState == {"active", "inactive", "failed"}
Op == {"start", "stop", "restart", "reload", "enable", "disable", "none"}

ASSUME CallAssumption ==
  /\ NoCall \notin Call
  /\ NoUnit \notin Unit
  /\ RequestOf \in [Call -> RequestId]
  /\ KindOf \in [Call -> Kind]
  /\ OpOf \in [Call -> Op]
  /\ UnitOf \in [Call -> Unit \cup {NoUnit}]
  /\ ExpectedOf \in [Call -> ActiveState \cup {"any"}]
  /\ \A c \in Call : KindOf[c] = "service" => UnitOf[c] \in Unit /\ OpOf[c] # "none"
  /\ \A c \in Call : KindOf[c] = "direct" => (OpOf[c] = "restart" <=> UnitOf[c] \in Unit)

ASSUME SwitchAssumption ==
  /\ MayOverlap \in BOOLEAN
  /\ MayCrash \in BOOLEAN
  /\ AuditMayFail \in BOOLEAN
  /\ MayFlip \in BOOLEAN

VARIABLES
  phase,     \* phase[c]: where the goroutine of call c is
  reply,     \* reply[c]: the HTTP status c was answered with, and by whose result
  audit,     \* the audit table, in id order
  holder,    \* holder[u]: the call that holds unitLocks[u]
  unit,      \* unit[u]: the state systemd reports for u
  job,       \* job[u]: the call whose systemd job on u has not run yet
  progress,  \* progress[r]: the package worker's progress record for request r
  effects    \* the calls whose executor has been invoked (history)

vars == <<phase, reply, audit, holder, unit, job, progress, effects>>

Phase == {"idle", "received", "authorizing", "authorized", "locked", "checked",
          "begun", "waiting", "queued", "done", "lost"}
Outcome == {"pending", "success", "failed", "denied"}
Row == [kind : {"begin", "end", "deny"}, call : Call, outcome : Outcome]
Reply == [status : {0, 200, 400, 403, 409, 500, 503}, from : Call \cup {NoCall}]
NoReply == [status |-> 0, from |-> NoCall]
Progress == {"none", "running", "success", "failed"}

(***************************************************************************)
(* The audit table.                                                        *)
(***************************************************************************)
AuditRow(kind, c, outcome) == [kind |-> kind, call |-> c, outcome |-> outcome]

\* insert ignores the error of the INSERT, so a failed one adds no row.
Insert(kind, c, outcome) ==
  \/ audit' = Append(audit, AuditRow(kind, c, outcome))
  \/ AuditMayFail /\ UNCHANGED audit

\* Mutant of Terminal: a deny row is not a stored result.
TerminalSkipsDenials(r) ==
  {i \in DOMAIN audit : audit[i].kind = "end" /\ RequestOf[audit[i].call] = r}

\* The rows StoredResult stops at.
Terminal(r) ==
  {i \in DOMAIN audit : audit[i].kind # "begin" /\ RequestOf[audit[i].call] = r}

HasStored(r) == Terminal(r) # {}

\* The first end or deny row wins, whoever wrote it.
StoredRow(r) == audit[CHOOSE i \in Terminal(r) : \A j \in Terminal(r) : i <= j]

StatusOf(outcome) ==
  CASE outcome = "success" -> 200
    [] outcome = "denied" -> 403
    [] OTHER -> 500

(***************************************************************************)
(* The steps of one call.                                                  *)
(***************************************************************************)
InFlight(c) == phase[c] \notin {"idle", "queued", "done", "lost"}

Respond(c, status, from) ==
  /\ phase' = [phase EXCEPT ![c] = "done"]
  /\ reply' = [reply EXCEPT ![c] = [status |-> status, from |-> from]]

\* unlock() runs when the handler of a service action returns.
Unlock(c) ==
  holder' = [u \in Unit |-> IF holder[u] = c THEN NoCall ELSE holder[u]]

\* A client sends the call.  With MayOverlap it may repeat a requestId whose
\* earlier call it has given up on while the broker still works on it.
Submit(c) ==
  /\ phase[c] = "idle"
  /\ MayOverlap \/ \A d \in Call : RequestOf[d] = RequestOf[c] => ~InFlight(d)
  /\ phase' = [phase EXCEPT ![c] = "received"]
  /\ UNCHANGED <<reply, audit, holder, unit, job, progress, effects>>

\* validate failed, or the executor is not available, or (after polkit) the
\* content of a file is not base64: answered, not audited.
Reject(c) ==
  /\ \/ phase[c] = "received" /\ \E status \in {400, 503} : Respond(c, status, NoCall)
     \/ phase[c] = "authorized" /\ KindOf[c] = "direct" /\ Respond(c, 400, NoCall)
  /\ UNCHANGED <<audit, holder, unit, job, progress, effects>>

\* A stored result, or a package apply the worker already knows, is replayed.
Replay(c) ==
  LET r == RequestOf[c] IN
  /\ phase[c] = "received"
  /\ \/ HasStored(r) /\ Respond(c, StatusOf(StoredRow(r).outcome), StoredRow(r).call)
     \/ /\ ~HasStored(r) /\ KindOf[c] = "apply" /\ progress[r] # "none"
        /\ Respond(c, 200, NoCall)
  /\ UNCHANGED <<audit, holder, unit, job, progress, effects>>

\* Mutant of LookupMiss: the stored result is not looked up.
LookupMissIgnoresAudit(c) ==
  /\ phase[c] = "received"
  /\ phase' = [phase EXCEPT ![c] = "authorizing"]
  /\ UNCHANGED <<reply, audit, holder, unit, job, progress, effects>>

\* Nothing to replay: on to polkit.
LookupMiss(c) ==
  /\ phase[c] = "received"
  /\ ~HasStored(RequestOf[c])
  /\ KindOf[c] = "apply" => progress[RequestOf[c]] = "none"
  /\ phase' = [phase EXCEPT ![c] = "authorizing"]
  /\ UNCHANGED <<reply, audit, holder, unit, job, progress, effects>>

\* polkit allows, or it challenges and sessiond vouches for a fresh reauth.
Allowed(c) ==
  /\ phase[c] = "authorizing"
  /\ phase' = [phase EXCEPT ![c] = "authorized"]
  /\ UNCHANGED <<reply, audit, holder, unit, job, progress, effects>>

\* polkit denies, or it challenges without a fresh reauth: one deny row.
Denied(c) ==
  /\ phase[c] = "authorizing"
  /\ Insert("deny", c, "denied")
  /\ Respond(c, 403, c)
  /\ UNCHANGED <<holder, unit, job, progress, effects>>

\* polkit itself cannot be asked: 503 and no row.
PolkitUnavailable(c) ==
  /\ phase[c] = "authorizing"
  /\ Respond(c, 503, NoCall)
  /\ UNCHANGED <<audit, holder, unit, job, progress, effects>>

\* lockUnit blocks until the unit's mutex is free; only service actions call it.
LockUnit(c) ==
  /\ phase[c] = "authorized" /\ KindOf[c] = "service"
  /\ holder[UnitOf[c]] = NoCall
  /\ holder' = [holder EXCEPT ![UnitOf[c]] = c]
  /\ phase' = [phase EXCEPT ![c] = "locked"]
  /\ UNCHANGED <<reply, audit, unit, job, progress, effects>>

\* The expected state matches, or none was given.
PreconditionHolds(c) ==
  /\ phase[c] = "locked"
  /\ ExpectedOf[c] \in {"any", unit[UnitOf[c]].active}
  /\ phase' = [phase EXCEPT ![c] = "checked"]
  /\ UNCHANGED <<reply, audit, holder, unit, job, progress, effects>>

\* Mutant of PreconditionFails: the early return forgets to unlock.
PreconditionFailsKeepsLock(c) ==
  /\ phase[c] = "locked" /\ ExpectedOf[c] # "any"
  /\ Respond(c, 409, NoCall)
  /\ UNCHANGED <<audit, holder, unit, job, progress, effects>>

\* It does not (409), or reading the unit failed (500): no row is written.
PreconditionFails(c) ==
  /\ phase[c] = "locked" /\ ExpectedOf[c] # "any"
  /\ \/ unit[UnitOf[c]].active # ExpectedOf[c] /\ Respond(c, 409, NoCall)
     \/ Respond(c, 500, NoCall)
  /\ Unlock(c)
  /\ UNCHANGED <<audit, unit, job, progress, effects>>

ReadyToBegin(c) ==
  IF KindOf[c] = "service" THEN phase[c] = "checked" ELSE phase[c] = "authorized"

\* Mutant of Begin: only an action with a precondition is recorded beforehand.
BeginPreconditionedOnly(c) ==
  /\ ReadyToBegin(c)
  /\ IF ExpectedOf[c] # "any" THEN Insert("begin", c, "pending") ELSE UNCHANGED audit
  /\ phase' = [phase EXCEPT ![c] = "begun"]
  /\ UNCHANGED <<reply, holder, unit, job, progress, effects>>

Begin(c) ==
  /\ ReadyToBegin(c)
  /\ Insert("begin", c, "pending")
  /\ phase' = [phase EXCEPT ![c] = "begun"]
  /\ UNCHANGED <<reply, holder, unit, job, progress, effects>>

\* Mutant of Finish: an error return skips the end row.
FinishSuccessOnly(c, outcome, status) ==
  /\ IF outcome = "success" THEN Insert("end", c, outcome) ELSE UNCHANGED audit
  /\ Respond(c, status, c)
  /\ Unlock(c)

\* audit end, reply, and the deferred unlock of a service action.
Finish(c, outcome, status) ==
  /\ Insert("end", c, outcome)
  /\ Respond(c, status, c)
  /\ Unlock(c)

\* systemd takes the method call: enabling is done at once, the rest is a job
\* ("replace": it supersedes one that has not run).
SystemdAccepts(c) ==
  LET u == UnitOf[c] IN
  IF OpOf[c] \in {"enable", "disable"}
  THEN unit' = [unit EXCEPT ![u].enabled = (OpOf[c] = "enable")] /\ UNCHANGED job
  ELSE job' = [job EXCEPT ![u] = c] /\ UNCHANGED unit

\* What waitState and waitEnabled poll for.
Reached(c) ==
  LET u == unit[UnitOf[c]] IN
  CASE OpOf[c] = "stop" -> u.active = "inactive"
    [] OpOf[c] = "enable" -> u.enabled
    [] OpOf[c] = "disable" -> ~u.enabled
    [] OTHER -> u.active = "active"

ExecuteService(c) ==
  /\ phase[c] = "begun" /\ KindOf[c] = "service"
  /\ effects' = effects \cup {c}
  /\ \/ /\ SystemdAccepts(c)
        /\ phase' = [phase EXCEPT ![c] = "waiting"]
        /\ UNCHANGED <<reply, audit, holder>>
     \/ Finish(c, "failed", 500) /\ UNCHANGED <<unit, job>>
  /\ UNCHANGED progress

\* The poll saw the wanted state; or the unit failed, a read failed, eight
\* seconds passed or the caller hung up.
FinishService(c) ==
  /\ phase[c] = "waiting" /\ KindOf[c] = "service"
  /\ \/ Reached(c) /\ Finish(c, "success", 200)
     \/ Finish(c, "failed", 500)
  /\ UNCHANGED <<unit, job, progress, effects>>

\* The executors that are called without a lock: protected files, network,
\* power, updates.refresh and updates.plan.  A file write may be followed by a
\* restart, which takes no unit lock either.
ExecuteDirect(c) ==
  /\ phase[c] = "begun" /\ KindOf[c] = "direct"
  /\ effects' = effects \cup {c}
  /\ \/ /\ \/ UnitOf[c] # NoUnit /\ SystemdAccepts(c)
           \/ UNCHANGED <<unit, job>>
        /\ phase' = [phase EXCEPT ![c] = "waiting"]
        /\ UNCHANGED <<reply, audit, holder>>
     \/ /\ \E status \in {400, 403, 409, 500, 503} : Finish(c, "failed", status)
        /\ UNCHANGED <<unit, job>>
  /\ UNCHANGED progress

\* The outcome of the restart is part of the data: the action succeeds anyway.
FinishDirect(c) ==
  /\ phase[c] = "waiting" /\ KindOf[c] = "direct"
  /\ Finish(c, "success", 200)
  /\ UNCHANGED <<unit, job, progress, effects>>

\* Mutant of StartApply: the progress map is not consulted.
StartApplyAgain(c) ==
  /\ phase[c] = "begun" /\ KindOf[c] = "apply"
  /\ progress' = [progress EXCEPT ![RequestOf[c]] = "running"]
  /\ effects' = effects \cup {c}
  /\ phase' = [phase EXCEPT ![c] = "queued"]
  /\ reply' = [reply EXCEPT ![c] = [status |-> 200, from |-> c]]
  /\ UNCHANGED <<audit, holder, unit, job>>

\* StartApply: the plan is handed to the worker and the call is answered; or
\* it is missing or stale; or the request is already under way, and then the
\* begin row of this call never gets its end row.
StartApply(c) ==
  LET r == RequestOf[c] IN
  /\ phase[c] = "begun" /\ KindOf[c] = "apply"
  /\ \/ /\ progress[r] = "none"
        /\ progress' = [progress EXCEPT ![r] = "running"]
        /\ effects' = effects \cup {c}
        /\ phase' = [phase EXCEPT ![c] = "queued"]
        /\ reply' = [reply EXCEPT ![c] = [status |-> 200, from |-> c]]
        /\ UNCHANGED <<audit, holder>>
     \/ /\ progress[r] = "none"
        /\ \E status \in {409, 503} : Finish(c, "failed", status)
        /\ UNCHANGED <<progress, effects>>
     \/ /\ progress[r] # "none"
        /\ Respond(c, 200, NoCall)
        /\ UNCHANGED <<audit, holder, progress, effects>>
  /\ UNCHANGED <<unit, job>>

\* The worker is done with the plan: progress first, then the audit end row.
ApplyDone(c) ==
  /\ phase[c] = "queued"
  /\ \E outcome \in {"success", "failed"} :
       /\ progress' = [progress EXCEPT ![RequestOf[c]] = outcome]
       /\ Insert("end", c, outcome)
  /\ phase' = [phase EXCEPT ![c] = "done"]
  /\ UNCHANGED <<reply, holder, unit, job, effects>>

(***************************************************************************)
(* What happens around the calls.                                          *)
(***************************************************************************)
\* A finished apply is forgotten an hour later; no handler is in flight so long.
PruneProgress(r) ==
  /\ progress[r] \in {"success", "failed"}
  /\ \A c \in Call : RequestOf[c] = r => ~InFlight(c)
  /\ progress' = [progress EXCEPT ![r] = "none"]
  /\ UNCHANGED <<phase, reply, audit, holder, unit, job, effects>>

\* systemd runs the queued job.  Starting an active unit is a no-op.
RunJob(u) ==
  /\ job[u] # NoCall
  /\ \E s \in ActiveState :
       /\ CASE OpOf[job[u]] = "stop" -> s = "inactive"
            [] OpOf[job[u]] = "restart" -> s \in {"active", "failed"}
            [] OpOf[job[u]] = "start" /\ unit[u].active # "active" -> s \in {"active", "failed"}
            [] OTHER -> s = unit[u].active
       /\ unit' = [unit EXCEPT ![u].active = s]
  /\ job' = [job EXCEPT ![u] = NoCall]
  /\ UNCHANGED <<phase, reply, audit, holder, progress, effects>>

\* Somebody outside the broker changes the unit.
Flip(u) ==
  /\ MayFlip
  /\ \E s \in ActiveState \ {unit[u].active} : unit' = [unit EXCEPT ![u].active = s]
  /\ UNCHANGED <<phase, reply, audit, holder, job, progress, effects>>

\* The process dies: goroutines, locks and the worker's memory are gone, the
\* audit table and systemd stay.  Nothing is reconciled when it comes back.
Crash ==
  /\ MayCrash
  /\ \E c \in Call : InFlight(c) \/ phase[c] = "queued"
  /\ phase' = [c \in Call |-> IF InFlight(c) \/ phase[c] = "queued" THEN "lost" ELSE phase[c]]
  /\ holder' = [u \in Unit |-> NoCall]
  /\ progress' = [r \in RequestId |-> "none"]
  /\ UNCHANGED <<reply, audit, unit, job, effects>>

\* Every call there is has ended: the broker idles.
Idle ==
  /\ \A c \in Call : phase[c] \in {"done", "lost"}
  /\ UNCHANGED vars

Init ==
  /\ phase = [c \in Call |-> "idle"]
  /\ reply = [c \in Call |-> NoReply]
  /\ audit = <<>>
  /\ holder = [u \in Unit |-> NoCall]
  /\ unit \in [Unit -> [active : ActiveState, enabled : {FALSE}]]
  /\ job = [u \in Unit |-> NoCall]
  /\ progress = [r \in RequestId |-> "none"]
  /\ effects = {}

\* What the goroutine of c does once the call has been received.
Handle(c) ==
  \/ Reject(c) \/ Replay(c) \/ LookupMiss(c)
  \/ Allowed(c) \/ Denied(c) \/ PolkitUnavailable(c)
  \/ LockUnit(c) \/ PreconditionHolds(c) \/ PreconditionFails(c)
  \/ Begin(c)
  \/ ExecuteService(c) \/ FinishService(c)
  \/ ExecuteDirect(c) \/ FinishDirect(c)
  \/ StartApply(c) \/ ApplyDone(c)

Next ==
  \/ \E c \in Call : Submit(c) \/ Handle(c)
  \/ \E r \in RequestId : PruneProgress(r)
  \/ \E u \in Unit : RunJob(u) \/ Flip(u)
  \/ Crash
  \/ Idle

Spec == Init /\ [][Next]_vars

\* Goroutines are scheduled and every wait in a handler has a deadline, so a
\* handler that can step does; sync.Mutex does not starve a waiter, and the
\* finitely many holders make weak fairness enough.
FairSpec == Spec /\ \A c \in Call : WF_vars(Handle(c))

-----------------------------------------------------------------------------
(***************************************************************************)
(* Properties.                                                             *)
(***************************************************************************)
\* Every variable stays within its range.
TypeOK ==
  /\ phase \in [Call -> Phase]
  /\ reply \in [Call -> Reply]
  /\ audit \in Seq(Row)
  /\ holder \in [Unit -> Call \cup {NoCall}]
  /\ unit \in [Unit -> [active : ActiveState, enabled : BOOLEAN]]
  /\ job \in [Unit -> Call \cup {NoCall}]
  /\ progress \in [RequestId -> Progress]
  /\ effects \subseteq Call

\* Two calls with one requestId are executed both only if the broker crashed
\* under one of them (the replay lookup of handleAction against the rows that
\* End and Deny write, and the worker's progress map).
ExecutedOnce ==
  \A c, d \in effects :
    c # d /\ RequestOf[c] = RequestOf[d] => phase[c] = "lost" \/ phase[d] = "lost"

\* Whatever overlaps, crashes or is lost, the audit table never says that a package
\* apply was carried out twice: the worker's progress map closes the time between the
\* lookup and the end row.
AppliedOnce ==
  \A i, j \in DOMAIN audit :
    LET c == audit[i].call d == audit[j].call IN
    /\ audit[i].kind = "end" /\ audit[j].kind = "end" /\ {c, d} \subseteq effects
    /\ KindOf[c] = "apply" /\ KindOf[d] = "apply" /\ RequestOf[c] = RequestOf[d]
    => c = d

\* All answers that report a result for one requestId report the result of one
\* and the same call: a repetition is never answered with a result of its own.
RepliesAgree ==
  \A c, d \in Call :
    /\ RequestOf[c] = RequestOf[d]
    /\ reply[c].from # NoCall /\ reply[d].from # NoCall
    => reply[c].from = reply[d].from

\* The audit table tells what was done: no executor runs without a begin row
\* before it, no call has two end rows or both a deny row and a begin row.
AuditCoversEffects ==
  /\ \A c \in effects : \E i \in DOMAIN audit : audit[i].kind = "begin" /\ audit[i].call = c
  /\ \A i, j \in DOMAIN audit :
       /\ i # j /\ audit[i].call = audit[j].call
       => {audit[i].kind, audit[j].kind} = {"begin", "end"}
  /\ \A i \in DOMAIN audit : audit[i].kind = "end" =>
       \E j \in 1..(i - 1) : audit[j].kind = "begin" /\ audit[j].call = audit[i].call

OpenRow(i) ==
  audit[i].kind = "begin"
    /\ ~\E j \in DOMAIN audit : audit[j].kind = "end" /\ audit[j].call = audit[i].call

\* A begin row without an end row belongs to an action that is still running
\* or that a crash interrupted: the evidence recovery is to work from.
OpenRowsAreEvidence ==
  \A i \in DOMAIN audit : OpenRow(i) => phase[audit[i].call] # "done"

Critical(c) == KindOf[c] = "service" /\ phase[c] \in {"locked", "checked", "begun", "waiting"}

\* From the precondition check to the audit end row a service action has its
\* unit to itself among service actions (lockUnit in handleServiceAction).
OneServiceActionPerUnit ==
  \A c, d \in Call : Critical(c) /\ Critical(d) /\ UnitOf[c] = UnitOf[d] => c = d

\* A unit lock is held exactly by a call inside the locked part of its handler:
\* it is neither leaked by an early return nor dropped too soon.
LockHeldWhileCritical ==
  \A u \in Unit :
    /\ holder[u] # NoCall => Critical(holder[u]) /\ UnitOf[holder[u]] = u
    /\ \A c \in Call : Critical(c) /\ UnitOf[c] = u => holder[u] = c

\* Rows are only ever added, and the result a requestId is answered with, once
\* there, never changes.
StoredResultIsFinal ==
  [][\A r \in RequestId : HasStored(r) => HasStored(r)' /\ StoredRow(r)' = StoredRow(r)]_vars

\* The abstract service: executions and verdicts per request.
Abstract == INSTANCE IdempotentAction WITH
  executedBy <- [r \in RequestId |-> {c \in effects : RequestOf[c] = r}],
  verdict <- [r \in RequestId |-> IF HasStored(r) THEN StoredRow(r).outcome ELSE "none"],
  lost <- {c \in Call : phase[c] = "lost"}

\* As long as a client waits for its answer before it repeats a requestId, and no
\* INSERT fails, the broker implements the idempotent service, crashes included.
ImplementsIdempotentAction == Abstract!ASpec

\* Every call is answered unless the process dies under it.
EveryCallAnswered ==
  \A c \in Call : (phase[c] = "received") ~> (phase[c] \in {"queued", "done", "lost"})

=============================================================================
