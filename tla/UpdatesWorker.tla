---------------------------- MODULE UpdatesWorker ----------------------------
(***************************************************************************)
(* The package worker (internal/updates), how the broker calls it, and the *)
(* channel that reports its progress (wsapi runUpdateProgress).            *)
(*                                                                         *)
(* Refresh and CalculatePlan try opMu and are refused when it is taken;    *)
(* StartApply records the request and leaves the work to a goroutine that  *)
(* waits for opMu.  plans and progress live in memory, under mu, and are   *)
(* pruned by the clock when a plan is calculated.  The clock is read       *)
(* before mu is taken, so a time may be old when it is used.               *)
(*                                                                         *)
(* A Call is one packages.applyPlan that reaches the worker; several may   *)
(* carry one request id.  The lines of apt's output are one step.          *)
(***************************************************************************)
EXTENDS Naturals, FiniteSets

CONSTANTS
  Call,
  RequestId, RequestOf, \* RequestOf[c]: c's requestId
  Plan, PlanOf,         \* PlanOf[c]: the plan c asks to apply
  NoPlan,               \* stands for "no plan"
  Full,                 \* the plans with packages to install
  Watcher, Watches,     \* the updates.progress channels; Watches[w]: the request
  Lifetime,             \* planLifetime
  Retention,            \* how long a result is kept: an hour
  MaxTime,              \* bound: the clock
  MaxCrash              \* bound: deaths of the broker

ASSUME WorkerAssumption ==
  /\ RequestOf \in [Call -> RequestId] /\ PlanOf \in [Call -> Plan]
  /\ NoPlan \notin Plan /\ Full \subseteq Plan
  /\ Watches \in [Watcher -> RequestId]
  /\ {Lifetime, Retention, MaxTime, MaxCrash} \subseteq Nat
  /\ Lifetime > 0 /\ Lifetime <= Retention
  /\ "free" \notin RequestId /\ "query" \notin RequestId

VARIABLES
  now,      \* the clock
  opMu,     \* "free", or who holds it: "query", or the request whose goroutine does
  query,    \* the Refresh or CalculatePlan that holds opMu, and the time it has read last
  issued,   \* history: the plans ever calculated; randomID does not repeat
  plans,    \* Worker.plans: ExpiresAt, or 0 for a plan that is not there
  progress, \* Worker.progress
  job,      \* job[r]: the goroutine that applies for r
  call,     \* call[c]: the call, the time it has read, and its answer
  watch,    \* watch[w]: runUpdateProgress, and the last report it has sent
  installs, \* history: how often apt-get install was started for a request and a plan
  crashes

store == <<issued, plans>>
vars == <<now, opMu, query, store, progress, job, call, watch, installs, crashes>>

Final(phase) == phase \in {"success", "failed"}

\* UpdatedAt is read in two ways: ver is what the watcher compares, at is the hour,
\* which matters for a result only.
Report(phase, p, ver) ==
  [phase |-> phase, plan |-> p, ver |-> ver, at |-> IF Final(phase) THEN now ELSE 0]
\* No report; ver is a clock, a later report of the request goes on from it.
Without(ver) == [phase |-> "none", plan |-> NoPlan, ver |-> ver, at |-> 0]

Known(r) == progress[r].phase # "none"
Done(r) == Final(progress[r].phase)

Idle == [at |-> "none", now |-> 0]
Off == [at |-> "off", sent |-> [phase |-> "none", ver |-> 0]]

-----------------------------------------------------------------------------
(***************************************************************************)
(* Refresh and CalculatePlan.                                              *)
(***************************************************************************)
\* TryLock; ErrBusy changes nothing.
QueryStarts ==
  /\ opMu = "free" /\ opMu' = "query"
  /\ query' = [at |-> "apt", now |-> 0]
  /\ UNCHANGED <<now, store, progress, job, call, watch, installs, crashes>>

\* Refresh is over, or apt-get -s has failed.
QueryEnds ==
  /\ query.at = "apt"
  /\ query' = Idle /\ opMu' = "free"
  /\ UNCHANGED <<now, store, progress, job, call, watch, installs, crashes>>

\* apt-get -s has answered: now := time.Now().  Plan bounds how often.
QueryStamps ==
  /\ query.at = "apt" /\ issued # Plan
  /\ query' = [at |-> "store", now |-> now]
  /\ UNCHANGED <<now, opMu, store, progress, job, call, watch, installs, crashes>>

Pruned(r, t) == Done(r) /\ t > progress[r].at + Retention

\* Mutant of StorePlan: the new plan takes the place of all that is not in use.
StorePlanForgetting ==
  /\ query.at = "store"
  /\ \E p \in Plan \ issued :
       /\ issued' = issued \cup {p}
       /\ plans' = [q \in Plan |-> IF q = p THEN query.now + Lifetime ELSE 0]
  /\ progress' = [r \in RequestId |-> IF Done(r) THEN Without(progress[r].ver) ELSE progress[r]]
  /\ query' = Idle /\ opMu' = "free"
  /\ UNCHANGED <<now, job, call, watch, installs, crashes>>

\* Mutant of StorePlan: progress is pruned by its plan.
StorePlanPruningByPlan ==
  /\ query.at = "store"
  /\ \E p \in Plan \ issued :
       /\ issued' = issued \cup {p}
       /\ plans' = [q \in Plan |-> IF q = p THEN query.now + Lifetime
                                   ELSE IF plans[q] > query.now THEN plans[q] ELSE 0]
  /\ progress' = [r \in RequestId |->
       IF Known(r) /\ plans'[progress[r].plan] = 0 THEN Without(progress[r].ver) ELSE progress[r]]
  /\ query' = Idle /\ opMu' = "free"
  /\ UNCHANGED <<now, job, call, watch, installs, crashes>>

\* pruneLocked, and the new plan.
StorePlan ==
  /\ query.at = "store"
  /\ \E p \in Plan \ issued :
       /\ issued' = issued \cup {p}
       /\ plans' = [q \in Plan |-> IF q = p THEN query.now + Lifetime
                                   ELSE IF plans[q] > query.now THEN plans[q] ELSE 0]
  /\ progress' = [r \in RequestId |->
       IF Pruned(r, query.now) THEN Without(progress[r].ver) ELSE progress[r]]
  /\ query' = Idle /\ opMu' = "free"
  /\ UNCHANGED <<now, job, call, watch, installs, crashes>>

-----------------------------------------------------------------------------
(***************************************************************************)
(* StartApply.                                                             *)
(***************************************************************************)
Arrive(c) ==
  /\ call[c].at = "none"
  /\ call' = [call EXCEPT ![c] = [at |-> "lock", now |-> now]]
  /\ UNCHANGED <<now, opMu, query, store, progress, job, watch, installs, crashes>>

Answer(c, reply) == call' = [call EXCEPT ![c] = [at |-> reply, now |-> 0]]

\* Mutant of StartApply: only the plan is looked up.
StartApplyAnew(c) ==
  LET r == RequestOf[c] p == PlanOf[c] IN
  /\ call[c].at = "lock"
  /\ IF plans[p] = 0
       THEN Answer(c, "missing") /\ UNCHANGED <<store, progress, job>>
       ELSE /\ Answer(c, "started")
            /\ progress' = [progress EXCEPT ![r] = Report("queued", p, @.ver + 1)]
            /\ job' = [job EXCEPT ![r] = "queued"]
            /\ UNCHANGED store
  /\ UNCHANGED <<now, opMu, query, watch, installs, crashes>>

\* A request that is known is not started again; an expired plan is thrown away.
\* A caller that expects another plan than it names is refused as for a stale one.
StartApply(c) ==
  LET r == RequestOf[c] p == PlanOf[c] IN
  /\ call[c].at = "lock"
  /\ \/ Known(r) /\ Answer(c, "replayed") /\ UNCHANGED <<plans, progress, job>>
     \/ ~Known(r) /\ plans[p] = 0 /\ Answer(c, "missing") /\ UNCHANGED <<plans, progress, job>>
     \/ /\ ~Known(r) /\ plans[p] # 0 /\ plans[p] <= call[c].now
        /\ Answer(c, "stale") /\ plans' = [plans EXCEPT ![p] = 0]
        /\ UNCHANGED <<progress, job>>
     \/ /\ ~Known(r) /\ plans[p] # 0 /\ call[c].now < plans[p]
        /\ Answer(c, "started")
        /\ progress' = [progress EXCEPT ![r] = Report("queued", p, @.ver + 1)]
        /\ job' = [job EXCEPT ![r] = "queued"]
        /\ UNCHANGED plans
  /\ UNCHANGED <<now, opMu, query, issued, watch, installs, crashes>>

-----------------------------------------------------------------------------
(***************************************************************************)
(* The goroutine of apply.                                                 *)
(***************************************************************************)
GoJob(r, place) == job' = [job EXCEPT ![r] = place]

JobLocks(r) ==
  /\ job[r] = "queued" /\ opMu = "free"
  /\ opMu' = r /\ GoJob(r, "locked")
  /\ UNCHANGED <<now, query, store, progress, call, watch, installs, crashes>>

SetProgress(r, phase) ==
  progress' = [progress EXCEPT ![r] = Report(phase, @.plan, @.ver + 1)]

\* The plan has packages: apt-get install.
JobInstalls(r) ==
  LET p == progress[r].plan IN
  /\ job[r] = "locked" /\ p \in Full
  /\ SetProgress(r, "installing") /\ GoJob(r, "apt")
  /\ installs' = [installs EXCEPT ![r][p] = @ + 1]
  /\ UNCHANGED <<now, opMu, query, store, call, watch, crashes>>

\* Mutant of JobFinishes: the result does not touch UpdatedAt.
JobFinishesUnstamped(r) ==
  /\ job[r] = "apt" \/ (job[r] = "locked" /\ progress[r].plan \notin Full)
  /\ \E outcome \in IF job[r] = "apt" THEN {"success", "failed"} ELSE {"success"} :
       progress' = [progress EXCEPT ![r].phase = outcome]
  /\ GoJob(r, "finished")
  /\ UNCHANGED <<now, opMu, query, store, call, watch, installs, crashes>>

\* finish: apt has ended, or was ended after an hour; or there was nothing to do.
JobFinishes(r) ==
  /\ job[r] = "apt" \/ (job[r] = "locked" /\ progress[r].plan \notin Full)
  /\ \E outcome \in IF job[r] = "apt" THEN {"success", "failed"} ELSE {"success"} :
       SetProgress(r, outcome)
  /\ GoJob(r, "finished")
  /\ UNCHANGED <<now, opMu, query, store, call, watch, installs, crashes>>

\* Mutant of JobEnds: opMu is not released.
JobEndsLocked(r) ==
  /\ job[r] = "finished"
  /\ GoJob(r, "none")
  /\ UNCHANGED <<now, opMu, query, store, progress, call, watch, installs, crashes>>

\* The done callback has written the audit row; opMu is released.
JobEnds(r) ==
  /\ job[r] = "finished"
  /\ GoJob(r, "none") /\ opMu' = "free"
  /\ UNCHANGED <<now, query, store, progress, call, watch, installs, crashes>>

-----------------------------------------------------------------------------
(***************************************************************************)
(* runUpdateProgress.                                                      *)
(***************************************************************************)
\* The browser subscribes, any time after the request was accepted.
WatchStarts(w) ==
  /\ watch[w].at = "off" /\ Known(Watches[w])
  /\ watch' = [watch EXCEPT ![w].at = "poll"]
  /\ UNCHANGED <<now, opMu, query, store, progress, job, call, installs, crashes>>

\* broker.UpdateProgress: what is not there fails the channel, what is newer is sent,
\* and after the last report the channel is closed.  Only the answer is shared state.
WatchPolls(w) ==
  LET got == progress[Watches[w]] IN
  /\ watch[w].at = "poll"
  /\ watch' = [watch EXCEPT
       ![w].at = IF ~Known(Watches[w]) THEN "failed" ELSE IF Final(got.phase) THEN "closed" ELSE "poll",
       ![w].sent = IF got.ver > @.ver THEN [phase |-> got.phase, ver |-> got.ver] ELSE @]
  /\ UNCHANGED <<now, opMu, query, store, progress, job, call, installs, crashes>>

-----------------------------------------------------------------------------
Tick ==
  /\ now < MaxTime /\ now' = now + 1
  /\ UNCHANGED <<opMu, query, store, progress, job, call, watch, installs, crashes>>

\* The broker dies and is started again; systemd has ended apt with it.
Crash ==
  /\ crashes < MaxCrash /\ crashes' = crashes + 1
  /\ opMu' = "free" /\ query' = Idle
  /\ plans' = [p \in Plan |-> 0]
  /\ progress' = [r \in RequestId |-> Without(progress[r].ver)] /\ job' = [r \in RequestId |-> "none"]
  /\ call' = [c \in Call |-> IF call[c].at = "lock" THEN [at |-> "lost", now |-> 0] ELSE call[c]]
  /\ UNCHANGED <<now, issued, watch, installs>>

Init ==
  /\ now = 0 /\ crashes = 0
  /\ opMu = "free" /\ query = Idle
  /\ issued = {} /\ plans = [p \in Plan |-> 0]
  /\ progress = [r \in RequestId |-> Without(0)] /\ job = [r \in RequestId |-> "none"]
  /\ call = [c \in Call |-> Idle]
  /\ watch = [w \in Watcher |-> Off]
  /\ installs = [r \in RequestId |-> [p \in Plan |-> 0]]

Query == QueryStarts \/ QueryEnds \/ QueryStamps \/ StorePlan

Apply(r) == JobLocks(r) \/ JobInstalls(r) \/ JobFinishes(r) \/ JobEnds(r)

Watch(w) == WatchStarts(w) \/ WatchPolls(w)

Next ==
  \/ Query
  \/ \E c \in Call : Arrive(c) \/ StartApply(c)
  \/ \E r \in RequestId : Apply(r)
  \/ \E w \in Watcher : Watch(w)
  \/ Tick \/ Crash

Spec == Init /\ [][Next]_vars

\* Goroutines run and apt ends, at the latest by its context's deadline.  A sync.Mutex
\* somebody has waited for is not given to a TryLock, so who waits gets it.
FairSpec ==
  /\ Spec
  /\ WF_vars(QueryEnds \/ QueryStamps \/ StorePlan)
  /\ \A r \in RequestId : SF_vars(Apply(r))

-----------------------------------------------------------------------------
(***************************************************************************)
(* Properties.                                                             *)
(***************************************************************************)
Phase == {"queued", "installing", "success", "failed"}
Reports == [phase : Phase, plan : Plan, ver : Nat, at : Nat]
             \cup [phase : {"none"}, plan : {NoPlan}, ver : Nat, at : {0}]
Sent == [phase : Phase \cup {"none"}, ver : Nat]

\* Every variable stays within its range; what is reported is reported of a plan.
TypeOK ==
  /\ now \in Nat /\ crashes \in Nat
  /\ opMu \in {"free", "query"} \cup RequestId
  /\ query \in [at : {"none", "apt", "store"}, now : Nat]
  /\ issued \subseteq Plan /\ plans \in [Plan -> Nat]
  /\ progress \in [RequestId -> Reports]
  /\ job \in [RequestId -> {"none", "queued", "locked", "apt", "finished"}]
  /\ call \in [Call -> [at : {"none", "lock", "started", "replayed", "missing", "stale", "lost"}, now : Nat]]
  /\ watch \in [Watcher -> [at : {"off", "poll", "closed", "failed"}, sent : Sent]]
  /\ installs \in [RequestId -> [Plan -> Nat]]

\* Who is running apt: a refresh, a simulation or an installation.
UsesApt == {r \in RequestId : job[r] \in {"locked", "apt", "finished"}}
             \cup (IF query.at # "none" THEN {"query"} ELSE {})

\* One package operation at a time, whatever was asked for while one ran.
OneOperation == UsesApt = {opMu} \ {"free"}

\* A request installs a plan once, however often it is repeated: at once, later,
\* after its result was pruned, or after the broker was restarted.  Once the result
\* is forgotten it is the plan that has gone.
InstalledOnce == \A r \in RequestId, p \in Plan : installs[r][p] <= 1

\* A goroutine's report is not pruned under it: setProgress would put an entry in
\* its place that names neither the request nor the plan.
JobKeepsItsReport ==
  \A r \in RequestId : job[r] # "none" =>
    /\ progress[r].plan \in Plan
    /\ (job[r] = "finished") <=> Done(r)

\* A result stays what it is for an hour; then it may be forgotten.  Only the death
\* of the broker takes it away earlier.
ResultIsKept ==
  [][\A r \in RequestId : Done(r) =>
       \/ progress'[r] = progress[r]
       \/ progress'[r] = Without(progress[r].ver) /\ (now > progress[r].at + Retention \/ crashes' # crashes)]_vars

\* A plan the user was shown can be applied until it expires.
PlanIsKept ==
  [][\A p \in Plan : now < plans[p] => plans'[p] = plans[p] \/ crashes' # crashes]_vars

\* A progress channel that was closed without an error has delivered the result.
WatcherHasResult == \A w \in Watcher : watch[w].at = "closed" => Final(watch[w].sent.phase)

\* What was accepted comes to its end, although refreshes and plans compete for the
\* lock.
AcceptedEnds == \A r \in RequestId : job[r] # "none" ~> job[r] = "none"
=============================================================================
