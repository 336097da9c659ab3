---------------------------- MODULE UpdatesProofs ----------------------------
(***************************************************************************)
(* Theorems about UpdatesWorker, for every number of requests, plans and   *)
(* watchers, every lifetime, and any number of ticks and crashes.          *)
(***************************************************************************)
EXTENDS UpdatesWorker, TLAPS

\* opMu tells who uses apt.
Using == {"locked", "apt", "finished"}
Holding ==
  /\ \A r \in RequestId : job[r] \in Using <=> opMu = r
  /\ query.at # "none" <=> opMu = "query"

\* A report says what its goroutine does because nobody prunes while it finishes, and
\* it names a plan, which types need.
WorkerInv == TypeOK /\ Holding /\ JobKeepsItsReport

-----------------------------------------------------------------------------
(***************************************************************************)
(* Types.                                                                  *)
(***************************************************************************)
LEMMA InitType == Init => TypeOK
BY WorkerAssumption DEF WorkerAssumption, Init, TypeOK, Idle, Off, Reports, Without, Sent

\* The two ends of StartApply: nothing but a stale plan changes, or the request starts.
Refused(c) ==
  /\ UNCHANGED <<progress, job, issued>>
  /\ \/ plans' = plans
     \/ plans' = [plans EXCEPT ![PlanOf[c]] = 0] /\ plans[PlanOf[c]] <= call[c].now

Accepted(c) ==
  /\ ~Known(RequestOf[c])
  /\ plans[PlanOf[c]] # 0 /\ call[c].now < plans[PlanOf[c]]
  /\ progress' = [progress EXCEPT ![RequestOf[c]] =
       Report("queued", PlanOf[c], progress[RequestOf[c]].ver + 1)]
  /\ job' = [job EXCEPT ![RequestOf[c]] = "queued"]
  /\ UNCHANGED <<issued, plans>>

LEMMA StartCases ==
  ASSUME TypeOK, NEW c \in Call, StartApply(c)
  PROVE  /\ RequestOf[c] \in RequestId /\ PlanOf[c] \in Plan
         /\ Refused(c) \/ Accepted(c)
<1>1. RequestOf[c] \in RequestId /\ PlanOf[c] \in Plan
  BY WorkerAssumption DEF WorkerAssumption
<1>2. Refused(c) \/ Accepted(c)
  BY <1>1 DEF StartApply, Refused, Accepted, TypeOK
<1>3. QED
  BY <1>1, <1>2

LEMMA StartReplies ==
  ASSUME TypeOK, NEW c \in Call, StartApply(c)
  PROVE  call' \in [Call -> [at : {"none", "lock", "started", "replayed", "missing", "stale", "lost"}, now : Nat]]
<1>1. \E reply \in {"started", "replayed", "missing", "stale"} : Answer(c, reply)
  BY DEF StartApply
<1>2. QED
  BY <1>1 DEF Answer, TypeOK

LEMMA StepType == WorkerInv /\ [Next]_vars => TypeOK'
<1> SUFFICES ASSUME WorkerInv, [Next]_vars PROVE TypeOK'
  OBVIOUS
<1> USE WorkerAssumption DEF WorkerAssumption, WorkerInv, TypeOK, Idle
<1>1. CASE QueryStarts
  BY <1>1 DEF QueryStarts, store
<1>2. CASE QueryEnds
  BY <1>2 DEF QueryEnds, store
<1>3. CASE QueryStamps
  BY <1>3 DEF QueryStamps, store
<1>4. CASE StorePlan
  <2>1. plans' \in [Plan -> Nat] /\ issued' \subseteq Plan
    BY <1>4 DEF StorePlan
  <2>2. progress' \in [RequestId -> Reports]
    BY <1>4 DEF StorePlan, Reports, Without
  <2>3. QED
    BY <1>4, <2>1, <2>2 DEF StorePlan
<1>5. ASSUME NEW c \in Call, Arrive(c) PROVE TypeOK'
  BY <1>5 DEF Arrive, store
<1>6. ASSUME NEW c \in Call, StartApply(c) PROVE TypeOK'
  <2>1. call' \in [Call -> [at : {"none", "lock", "started", "replayed", "missing", "stale", "lost"}, now : Nat]]
    BY <1>6, StartReplies
  <2>2. plans' \in [Plan -> Nat] /\ issued' \subseteq Plan
    BY <1>6, StartCases DEF Refused, Accepted
  <2>3. progress' \in [RequestId -> Reports] /\ job' \in [RequestId -> {"none", "queued", "locked", "apt", "finished"}]
    <3>1. CASE Refused(c)
      BY <3>1 DEF Refused
    <3>2. CASE Accepted(c)
      BY <1>6, <3>2, StartCases DEF Accepted, Report, Reports, Phase, Final
    <3>3. QED
      BY <1>6, <3>1, <3>2, StartCases
  <2>4. QED
    BY <1>6, <2>1, <2>2, <2>3 DEF StartApply
<1>7. ASSUME NEW r \in RequestId, Apply(r) PROVE TypeOK'
  <2>1. CASE JobLocks(r)
    BY <2>1 DEF JobLocks, GoJob, store
  <2>2. CASE JobInstalls(r)
    <3>1. progress[r].plan \in Plan
      BY <2>2 DEF JobInstalls
    <3>2. progress' \in [RequestId -> Reports]
      BY <2>2, <3>1 DEF JobInstalls, SetProgress, Report, Reports, Phase, Final
    <3>3. installs' \in [RequestId -> [Plan -> Nat]]
      BY <2>2, <3>1 DEF JobInstalls
    <3>4. QED
      BY <2>2, <3>2, <3>3 DEF JobInstalls, GoJob, store
  <2>3. CASE JobFinishes(r)
    <3>1. progress[r].plan \in Plan
      BY <2>3 DEF JobFinishes, JobKeepsItsReport
    <3>2. progress' \in [RequestId -> Reports]
      BY <2>3, <3>1 DEF JobFinishes, SetProgress, Report, Reports, Phase, Final
    <3>3. QED
      BY <2>3, <3>2 DEF JobFinishes, GoJob, store
  <2>4. CASE JobEnds(r)
    BY <2>4 DEF JobEnds, GoJob, store
  <2>5. QED
    BY <1>7, <2>1, <2>2, <2>3, <2>4 DEF Apply
<1>8. ASSUME NEW w \in Watcher, Watch(w) PROVE TypeOK'
  <2>1. CASE WatchStarts(w)
    BY <2>1 DEF WatchStarts, store
  <2>2. CASE WatchPolls(w)
    <3>1. progress[Watches[w]] \in Reports
      OBVIOUS
    <3>2. [phase |-> progress[Watches[w]].phase, ver |-> progress[Watches[w]].ver] \in Sent
      BY <3>1 DEF Reports, Sent
    <3> DEFINE end == IF ~Known(Watches[w]) THEN "failed"
                      ELSE IF Final(progress[Watches[w]].phase) THEN "closed" ELSE "poll"
               last == IF progress[Watches[w]].ver > watch[w].sent.ver
                       THEN [phase |-> progress[Watches[w]].phase, ver |-> progress[Watches[w]].ver]
                       ELSE watch[w].sent
    <3>3. watch' = [watch EXCEPT ![w].at = end, ![w].sent = last]
      BY <2>2 DEF WatchPolls
    <3>4. end \in {"off", "poll", "closed", "failed"} /\ last \in Sent
      BY <3>2
    <3> HIDE DEF end, last
    <3>5. watch' \in [Watcher -> [at : {"off", "poll", "closed", "failed"}, sent : Sent]]
      BY <3>3, <3>4
    <3>6. QED
      BY <2>2, <3>5 DEF WatchPolls, store
  <2>3. QED
    BY <1>8, <2>1, <2>2 DEF Watch
<1>9. CASE Tick
  BY <1>9 DEF Tick, store
<1>10. CASE Crash
  BY <1>10 DEF Crash, Without, Reports
<1>11. CASE UNCHANGED vars
  BY <1>11 DEF vars, store
<1>12. QED
  BY <1>1, <1>2, <1>3, <1>4, <1>5, <1>6, <1>7, <1>8, <1>9, <1>10, <1>11 DEF Next, Query

-----------------------------------------------------------------------------
(***************************************************************************)
(* The lock.                                                               *)
(***************************************************************************)
LEMMA StepHolding == WorkerInv /\ [Next]_vars => Holding'
<1> SUFFICES ASSUME WorkerInv, [Next]_vars PROVE Holding'
  OBVIOUS
<1> USE WorkerAssumption DEF WorkerAssumption, WorkerInv, TypeOK, Idle, Holding, Using
<1>1. CASE QueryStarts
  BY <1>1 DEF QueryStarts
<1>2. CASE QueryEnds
  BY <1>2 DEF QueryEnds
<1>3. CASE QueryStamps
  BY <1>3 DEF QueryStamps
<1>4. CASE StorePlan
  BY <1>4 DEF StorePlan
<1>5. ASSUME NEW c \in Call, Arrive(c) PROVE Holding'
  BY <1>5 DEF Arrive
<1>6. ASSUME NEW c \in Call, StartApply(c) PROVE Holding'
  <2>1. UNCHANGED <<opMu, query>>
    BY <1>6 DEF StartApply
  <2>2. CASE Refused(c)
    BY <2>1, <2>2 DEF Refused
  <2>3. CASE Accepted(c)
    <3>0. RequestOf[c] \in RequestId /\ progress[RequestOf[c]] \in Reports
      BY <1>6, StartCases
    <3>1. job[RequestOf[c]] = "none"
      BY <2>3, <3>0 DEF Accepted, JobKeepsItsReport, Known, Reports, Phase
    <3>2. QED
      BY <2>1, <2>3, <3>0, <3>1 DEF Accepted
  <2>4. QED
    BY <1>6, <2>2, <2>3, StartCases
<1>7. ASSUME NEW r \in RequestId, Apply(r) PROVE Holding'
  <2>1. CASE JobLocks(r)
    BY <2>1 DEF JobLocks, GoJob
  <2>2. CASE JobInstalls(r)
    BY <2>2 DEF JobInstalls, GoJob
  <2>3. CASE JobFinishes(r)
    BY <2>3 DEF JobFinishes, GoJob
  <2>4. CASE JobEnds(r)
    BY <2>4 DEF JobEnds, GoJob
  <2>5. QED
    BY <1>7, <2>1, <2>2, <2>3, <2>4 DEF Apply
<1>8. ASSUME NEW w \in Watcher, Watch(w) PROVE Holding'
  BY <1>8 DEF Watch, WatchStarts, WatchPolls
<1>9. CASE Tick
  BY <1>9 DEF Tick
<1>10. CASE Crash
  BY <1>10 DEF Crash
<1>11. CASE UNCHANGED vars
  BY <1>11 DEF vars
<1>12. QED
  BY <1>1, <1>2, <1>3, <1>4, <1>5, <1>6, <1>7, <1>8, <1>9, <1>10, <1>11 DEF Next, Query

LEMMA StepReport == WorkerInv /\ [Next]_vars => JobKeepsItsReport'
<1> SUFFICES ASSUME WorkerInv, [Next]_vars PROVE JobKeepsItsReport'
  OBVIOUS
<1> USE WorkerAssumption DEF WorkerAssumption, WorkerInv, TypeOK, JobKeepsItsReport, Done
<1>1. CASE QueryStarts \/ QueryEnds \/ QueryStamps
  BY <1>1 DEF QueryStarts, QueryEnds, QueryStamps
<1>2. CASE StorePlan
  <2>1. \A r \in RequestId : job[r] # "finished"
    BY <1>2 DEF StorePlan, Holding, Using
  <2>2. \A r \in RequestId : job[r] # "none" => progress'[r] = progress[r]
    BY <1>2, <2>1 DEF StorePlan, Pruned
  <2>3. QED
    BY <1>2, <2>2 DEF StorePlan
<1>3. ASSUME NEW c \in Call, Arrive(c) PROVE JobKeepsItsReport'
  BY <1>3 DEF Arrive
<1>4. ASSUME NEW c \in Call, StartApply(c) PROVE JobKeepsItsReport'
  BY <1>4, StartCases DEF Refused, Accepted, Report, Final
<1>5. ASSUME NEW r \in RequestId, Apply(r) PROVE JobKeepsItsReport'
  <2>1. CASE JobLocks(r)
    BY <2>1 DEF JobLocks, GoJob
  <2>2. CASE JobInstalls(r)
    BY <2>2 DEF JobInstalls, GoJob, SetProgress, Report, Final
  <2>3. CASE JobFinishes(r)
    BY <2>3 DEF JobFinishes, GoJob, SetProgress, Report, Final
  <2>4. CASE JobEnds(r)
    BY <2>4 DEF JobEnds, GoJob
  <2>5. QED
    BY <1>5, <2>1, <2>2, <2>3, <2>4 DEF Apply
<1>6. ASSUME NEW w \in Watcher, Watch(w) PROVE JobKeepsItsReport'
  BY <1>6 DEF Watch, WatchStarts, WatchPolls
<1>7. CASE Tick
  BY <1>7 DEF Tick
<1>8. CASE Crash
  BY <1>8 DEF Crash
<1>9. CASE UNCHANGED vars
  BY <1>9 DEF vars
<1>10. QED
  BY <1>1, <1>2, <1>3, <1>4, <1>5, <1>6, <1>7, <1>8, <1>9 DEF Next, Query

LEMMA WorkerInvariant == Spec => []WorkerInv
<1>1. Init => WorkerInv
  BY InitType, WorkerAssumption
     DEF WorkerAssumption, Init, WorkerInv, Holding, Using, JobKeepsItsReport, Idle
<1>2. WorkerInv /\ [Next]_vars => WorkerInv'
  BY StepType, StepHolding, StepReport DEF WorkerInv
<1>3. QED
  BY <1>1, <1>2, PTL DEF Spec

\* Every reachable state of the worker is well-typed, whoever repeats requests and
\* however often the broker dies.
THEOREM TypeCorrect == Spec => []TypeOK
<1>1. WorkerInv => TypeOK
  BY DEF WorkerInv
<1>2. QED
  BY <1>1, WorkerInvariant, PTL

\* One package operation runs at a time, and opMu says which: a refresh or a plan that
\* only tries the lock, and the applies that wait for it.
THEOREM OneAtATime == Spec => []OneOperation
<1>1. WorkerInv => OneOperation
  BY WorkerAssumption
     DEF WorkerAssumption, WorkerInv, TypeOK, Holding, Using, OneOperation, UsesApt
<1>2. QED
  BY <1>1, WorkerInvariant, PTL

\* The report of a running apply is not pruned under it, however long it takes.
THEOREM ReportStays == Spec => []JobKeepsItsReport
<1>1. WorkerInv => JobKeepsItsReport
  BY DEF WorkerInv
<1>2. QED
  BY <1>1, WorkerInvariant, PTL

-----------------------------------------------------------------------------
(***************************************************************************)
(* Plans, results and the clock.                                           *)
(***************************************************************************)
\* What was read of the clock is not from the future.
ReadBefore == query.now <= now /\ \A c \in Call : call[c].now <= now

\* A plan that is there was calculated, and a lifetime ago at most; so was the plan
\* of every report.
PlansAreIssued ==
  /\ \A p \in Plan : plans[p] <= now + Lifetime /\ (plans[p] # 0 => p \in issued)
  /\ \A r \in RequestId : Known(r) => progress[r].plan \in issued

\* A plan does not outlive the result of its application by more than its lifetime.
ResultOutlives ==
  \A r \in RequestId : Done(r) => plans[progress[r].plan] <= progress[r].at + Lifetime

\* What a request has installed has gone, or is still reported.
Spent ==
  \A r \in RequestId, p \in Plan : installs[r][p] # 0 =>
    /\ p \in issued
    /\ plans[p] = 0 \/ (Known(r) /\ progress[r].plan = p)

\* What a goroutine is about to install it has not installed before.
Unspent ==
  \A r \in RequestId : job[r] \in {"queued", "locked"} => installs[r][progress[r].plan] = 0

PlanInv == ReadBefore /\ PlansAreIssued /\ ResultOutlives /\ Spent /\ Unspent /\ InstalledOnce

LEMMA StepReadBefore == WorkerInv /\ ReadBefore /\ [Next]_vars => ReadBefore'
<1> SUFFICES ASSUME WorkerInv, ReadBefore, [Next]_vars PROVE ReadBefore'
  OBVIOUS
<1> USE DEF WorkerInv, TypeOK, Idle, ReadBefore
<1>1. CASE Query
  BY <1>1 DEF Query, QueryStarts, QueryEnds, QueryStamps, StorePlan
<1>2. ASSUME NEW c \in Call, Arrive(c) \/ StartApply(c) PROVE ReadBefore'
  BY <1>2 DEF Arrive, StartApply, Answer
<1>3. ASSUME NEW r \in RequestId, Apply(r) PROVE ReadBefore'
  BY <1>3 DEF Apply, JobLocks, JobInstalls, JobFinishes, JobEnds
<1>4. ASSUME NEW w \in Watcher, Watch(w) PROVE ReadBefore'
  BY <1>4 DEF Watch, WatchStarts, WatchPolls
<1>5. CASE Tick \/ Crash \/ UNCHANGED vars
  BY <1>5 DEF Tick, Crash, vars
<1>6. QED
  BY <1>1, <1>2, <1>3, <1>4, <1>5 DEF Next

\* The step that prunes: a result is forgotten together with its plan.
LEMMA StorePlanKeeps ==
  ASSUME WorkerInv, PlanInv, StorePlan
  PROVE  PlansAreIssued' /\ ResultOutlives' /\ Spent' /\ Unspent' /\ InstalledOnce'
<1> USE WorkerAssumption DEF WorkerAssumption, WorkerInv, TypeOK
<1>1. PICK p \in Plan \ issued :
        /\ issued' = issued \cup {p}
        /\ plans' = [q \in Plan |-> IF q = p THEN query.now + Lifetime
                                    ELSE IF plans[q] > query.now THEN plans[q] ELSE 0]
  BY DEF StorePlan
<1>2. UNCHANGED <<now, job, installs>>
  BY DEF StorePlan
<1>3. \A r \in RequestId :
        \/ progress'[r] = progress[r]
        \/ progress'[r].phase = "none" /\ Done(r) /\ query.now > progress[r].at + Retention
  BY DEF StorePlan, Pruned, Without
<1>4. \A q \in issued \cap Plan : plans'[q] = IF plans[q] > query.now THEN plans[q] ELSE 0
  BY <1>1
<1>5. PlansAreIssued'
  <2>1. ASSUME NEW q \in Plan PROVE (plans[q] <= now + Lifetime /\ (plans[q] # 0 => q \in issued))'
    <3>1. CASE q = p
      BY <1>1, <1>2, <3>1 DEF PlanInv, ReadBefore
    <3>2. CASE q # p
      BY <1>1, <1>2, <3>2 DEF PlanInv, PlansAreIssued
    <3>3. QED
      BY <3>1, <3>2
  <2>2. ASSUME NEW r \in RequestId, Known(r)' PROVE progress'[r].plan \in issued'
    BY <1>1, <1>3, <2>2 DEF PlanInv, PlansAreIssued, Known
  <2>3. QED
    BY <2>1, <2>2 DEF PlansAreIssued
<1>6. ResultOutlives'
  <2> SUFFICES ASSUME NEW r \in RequestId, Done(r)' PROVE (plans[progress[r].plan] <= progress[r].at + Lifetime)'
    BY DEF ResultOutlives
  <2>0. progress'[r] = progress[r]
    <3>1. progress'[r].phase # "none"
      BY DEF Done, Final
    <3>2. QED
      BY <1>3, <3>1
  <2>1. progress'[r] = progress[r] /\ Done(r) /\ Known(r)
    BY <2>0 DEF Done, Final, Known
  <2>2. progress[r].plan \in issued \cap Plan /\ progress[r].at \in Nat
    BY <2>1 DEF PlanInv, PlansAreIssued, Reports, Known
  <2>3. plans[progress[r].plan] <= progress[r].at + Lifetime
    BY <2>1 DEF PlanInv, ResultOutlives
  <2>4. QED
    BY <1>4, <2>1, <2>2, <2>3
<1>7. Spent'
  <2> SUFFICES ASSUME NEW r \in RequestId, NEW q \in Plan, installs'[r][q] # 0
               PROVE  (q \in issued /\ (plans[q] = 0 \/ (Known(r) /\ progress[r].plan = q)))'
    BY DEF Spent
  <2>1. q \in issued /\ q \in issued' /\ (plans[q] = 0 \/ (Known(r) /\ progress[r].plan = q))
    BY <1>1, <1>2 DEF PlanInv, Spent
  <2>2. CASE plans[q] = 0
    BY <1>4, <2>1, <2>2
  <2>3. CASE Known(r) /\ progress[r].plan = q /\ progress'[r] = progress[r]
    BY <2>1, <2>3 DEF Known
  <2>4. CASE progress[r].plan = q /\ Done(r) /\ query.now > progress[r].at + Retention
    <3>1. plans[q] <= progress[r].at + Lifetime
      BY <2>4 DEF PlanInv, ResultOutlives
    <3>2. progress[r].at \in Nat
      BY <2>4 DEF Reports
    <3>3. ~(plans[q] > query.now)
      BY <2>4, <3>1, <3>2
    <3>4. QED
      BY <1>4, <2>1, <3>3
  <2>5. QED
    BY <1>3, <2>1, <2>2, <2>3, <2>4
<1>8. Unspent'
  <2>1. \A r \in RequestId : job[r] \in {"queued", "locked"} => progress'[r] = progress[r]
    BY <1>3 DEF JobKeepsItsReport
  <2>2. QED
    BY <1>2, <2>1 DEF PlanInv, Unspent
<1>9. QED
  BY <1>2, <1>5, <1>6, <1>7, <1>8 DEF PlanInv, InstalledOnce

LEMMA StartApplyKeeps ==
  ASSUME WorkerInv, PlanInv, NEW c \in Call, StartApply(c)
  PROVE  PlansAreIssued' /\ ResultOutlives' /\ Spent' /\ Unspent' /\ InstalledOnce'
<1> USE WorkerAssumption DEF WorkerAssumption, WorkerInv, TypeOK
<1>1. UNCHANGED <<now, installs>> /\ RequestOf[c] \in RequestId /\ PlanOf[c] \in Plan
  BY DEF StartApply
<1>2. CASE Refused(c)
  <2>1. UNCHANGED <<progress, job, issued>>
    BY <1>2 DEF Refused
  <2>2. plans' \in [Plan -> Nat] /\ \A p \in Plan : plans'[p] \in {0, plans[p]}
    <3>1. CASE plans' = plans
      BY <3>1
    <3>2. CASE plans' = [plans EXCEPT ![PlanOf[c]] = 0]
      BY <1>1, <3>2
    <3>3. QED
      BY <1>2, <3>1, <3>2 DEF Refused
  <2>3. PlansAreIssued'
    BY <1>1, <2>1, <2>2 DEF PlanInv, PlansAreIssued, Known
  <2>4. ResultOutlives'
    <3> SUFFICES ASSUME NEW r \in RequestId, Done(r) PROVE plans'[progress[r].plan] <= progress[r].at + Lifetime
      BY <2>1 DEF ResultOutlives, Done
    <3>1. progress[r].plan \in Plan /\ progress[r].at \in Nat
      BY DEF Reports, Done, Final
    <3>2. plans[progress[r].plan] <= progress[r].at + Lifetime
      BY DEF PlanInv, ResultOutlives
    <3>3. plans'[progress[r].plan] \in {0, plans[progress[r].plan]}
      BY <2>2, <3>1
    <3>4. QED
      BY <3>1, <3>2, <3>3
  <2>5. Spent' /\ Unspent'
    BY <1>1, <2>1, <2>2 DEF PlanInv, Spent, Unspent, Known
  <2>6. QED
    BY <1>1, <2>3, <2>4, <2>5 DEF PlanInv, InstalledOnce
<1>3. CASE Accepted(c)
  <2>1. /\ UNCHANGED <<issued, plans>>
        /\ \A r \in RequestId \ {RequestOf[c]} : progress'[r] = progress[r] /\ job'[r] = job[r]
    BY <1>3 DEF Accepted
  <2>2. /\ progress'[RequestOf[c]].phase = "queued" /\ progress'[RequestOf[c]].plan = PlanOf[c]
        /\ ~Known(RequestOf[c]) /\ plans[PlanOf[c]] # 0
    BY <1>1, <1>3 DEF Accepted, Report
  <2>3. PlansAreIssued'
    BY <1>1, <2>1, <2>2 DEF PlanInv, PlansAreIssued, Known
  <2>4. ResultOutlives'
    <3> SUFFICES ASSUME NEW r \in RequestId, Done(r)' PROVE (plans[progress[r].plan] <= progress[r].at + Lifetime)'
      BY DEF ResultOutlives
    <3>1. r # RequestOf[c]
      BY <2>2 DEF Done, Final
    <3>2. QED
      BY <2>1, <3>1 DEF PlanInv, ResultOutlives, Done
  <2>5. Spent'
    <3> SUFFICES ASSUME NEW r \in RequestId, NEW p \in Plan, installs[r][p] # 0
                 PROVE  (p \in issued /\ (plans[p] = 0 \/ (Known(r) /\ progress[r].plan = p)))'
      BY <1>1 DEF Spent
    <3>1. p \in issued /\ (plans[p] = 0 \/ (Known(r) /\ progress[r].plan = p))
      BY DEF PlanInv, Spent
    <3>2. CASE r = RequestOf[c]
      BY <2>1, <2>2, <3>1, <3>2
    <3>3. CASE r # RequestOf[c]
      BY <2>1, <3>1, <3>3 DEF Known
    <3>4. QED
      BY <3>2, <3>3
  <2>6. installs[RequestOf[c]][PlanOf[c]] = 0
    BY <1>1, <2>2 DEF PlanInv, Spent
  <2>7. Unspent'
    BY <1>1, <2>1, <2>2, <2>6 DEF PlanInv, Unspent
  <2>8. QED
    BY <1>1, <2>3, <2>4, <2>5, <2>7 DEF PlanInv, InstalledOnce
<1>4. QED
  BY <1>2, <1>3, StartCases

LEMMA JobKeeps ==
  ASSUME WorkerInv, PlanInv, NEW r \in RequestId, Apply(r)
  PROVE  PlansAreIssued' /\ ResultOutlives' /\ Spent' /\ Unspent' /\ InstalledOnce'
<1> USE WorkerAssumption DEF WorkerAssumption, WorkerInv, TypeOK
<1>1. UNCHANGED <<now, issued, plans>>
  BY DEF Apply, JobLocks, JobInstalls, JobFinishes, JobEnds, store
<1>2. CASE JobLocks(r) \/ JobEnds(r)
  <2>1. UNCHANGED <<progress, installs>> /\ \A q \in RequestId :
          job'[q] \in {"queued", "locked"} => job[q] \in {"queued", "locked"}
    BY <1>2 DEF JobLocks, JobEnds, GoJob
  <2>2. PlansAreIssued' /\ ResultOutlives' /\ Spent'
    BY <1>1, <2>1 DEF PlanInv, PlansAreIssued, ResultOutlives, Spent, Known, Done
  <2>3. Unspent' /\ InstalledOnce'
    BY <2>1 DEF PlanInv, Unspent, InstalledOnce
  <2>4. QED
    BY <2>2, <2>3
<1>3. CASE JobInstalls(r)
  <2> DEFINE p == progress[r].plan
  <2>1. p \in Plan /\ installs[r][p] = 0 /\ p \in issued
    <3>1. job[r] = "locked"
      BY <1>3 DEF JobInstalls
    <3>2. p \in Plan
      BY <3>1 DEF JobKeepsItsReport
    <3>3. Known(r)
      BY <3>2 DEF Known, Reports, Phase
    <3>4. QED
      BY <3>1, <3>2, <3>3 DEF PlanInv, Unspent, PlansAreIssued
  <2>2. /\ progress'[r].phase = "installing" /\ progress'[r].plan = p
        /\ \A q \in RequestId \ {r} : progress'[q] = progress[q]
    BY <1>3 DEF JobInstalls, SetProgress, Report
  <2>3. /\ installs' = [installs EXCEPT ![r][p] = @ + 1]
        /\ job' = [job EXCEPT ![r] = "apt"]
    BY <1>3 DEF JobInstalls, GoJob
  <2>4. PlansAreIssued'
    BY <1>1, <2>1, <2>2 DEF PlanInv, PlansAreIssued, Known
  <2>5. ResultOutlives'
    <3> SUFFICES ASSUME NEW q \in RequestId, Done(q)' PROVE (plans[progress[q].plan] <= progress[q].at + Lifetime)'
      BY DEF ResultOutlives
    <3>1. q # r
      BY <2>2 DEF Done, Final
    <3>2. QED
      BY <1>1, <2>2, <3>1 DEF PlanInv, ResultOutlives, Done
  <2>6. Spent'
    <3> SUFFICES ASSUME NEW q \in RequestId, NEW t \in Plan, installs'[q][t] # 0
                 PROVE  (t \in issued /\ (plans[t] = 0 \/ (Known(q) /\ progress[q].plan = t)))'
      BY DEF Spent
    <3>1. CASE q = r /\ t = p
      BY <1>1, <2>1, <2>2, <3>1 DEF Known
    <3>2. CASE ~(q = r /\ t = p)
      <4>1. installs[q][t] # 0
        BY <2>1, <2>3, <3>2
      <4>2. t \in issued /\ (plans[t] = 0 \/ (Known(q) /\ progress[q].plan = t))
        BY <4>1 DEF PlanInv, Spent
      <4>3. QED
        BY <1>1, <2>2, <4>2, <3>2 DEF Known
    <3>3. QED
      BY <3>1, <3>2
  <2>7. Unspent'
    BY <2>1, <2>2, <2>3 DEF PlanInv, Unspent
  <2>8. InstalledOnce'
    <3> SUFFICES ASSUME NEW q \in RequestId, NEW t \in Plan PROVE installs'[q][t] <= 1
      BY DEF InstalledOnce
    <3>1. installs[q][t] <= 1
      BY DEF PlanInv, InstalledOnce
    <3>2. QED
      BY <2>1, <2>3, <3>1
  <2>9. QED
    BY <2>4, <2>5, <2>6, <2>7, <2>8
<1>4. CASE JobFinishes(r)
  <2>1. UNCHANGED installs /\ job' = [job EXCEPT ![r] = "finished"]
    BY <1>4 DEF JobFinishes, GoJob
  <2>2. /\ progress'[r].phase # "none" /\ progress'[r].plan = progress[r].plan /\ progress'[r].at = now
        /\ \A q \in RequestId \ {r} : progress'[q] = progress[q]
    BY <1>4 DEF JobFinishes, SetProgress, Report, Final
  <2>3. progress[r].plan \in Plan /\ Known(r)
    <3>1. progress[r].plan \in Plan
      BY <1>4 DEF JobFinishes, JobKeepsItsReport
    <3>2. QED
      BY <3>1 DEF Known, Reports, Phase
  <2>4. PlansAreIssued'
    BY <1>1, <2>2, <2>3 DEF PlanInv, PlansAreIssued, Known
  <2>5. ResultOutlives'
    <3> SUFFICES ASSUME NEW q \in RequestId, Done(q)' PROVE (plans[progress[q].plan] <= progress[q].at + Lifetime)'
      BY DEF ResultOutlives
    <3>1. CASE q = r
      BY <1>1, <2>2, <2>3, <3>1 DEF PlanInv, PlansAreIssued
    <3>2. CASE q # r
      BY <1>1, <2>2, <3>2 DEF PlanInv, ResultOutlives, Done
    <3>3. QED
      BY <3>1, <3>2
  <2>6. Spent'
    <3> SUFFICES ASSUME NEW q \in RequestId, NEW t \in Plan, installs[q][t] # 0
                 PROVE  (t \in issued /\ (plans[t] = 0 \/ (Known(q) /\ progress[q].plan = t)))'
      BY <2>1 DEF Spent
    <3>1. t \in issued /\ (plans[t] = 0 \/ (Known(q) /\ progress[q].plan = t))
      BY DEF PlanInv, Spent
    <3>2. QED
      BY <1>1, <2>2, <2>3, <3>1 DEF Known
  <2>7. Unspent' /\ InstalledOnce'
    BY <2>1, <2>2 DEF PlanInv, Unspent, InstalledOnce
  <2>8. QED
    BY <2>4, <2>5, <2>6, <2>7
<1>5. QED
  BY <1>2, <1>3, <1>4 DEF Apply

LEMMA StepPlan == WorkerInv /\ PlanInv /\ [Next]_vars => PlanInv'
<1> SUFFICES ASSUME WorkerInv, PlanInv, [Next]_vars PROVE PlanInv'
  OBVIOUS
<1>1. ReadBefore'
  BY StepReadBefore DEF PlanInv
<1> DEFINE Rest == PlansAreIssued /\ ResultOutlives /\ Spent /\ Unspent /\ InstalledOnce
<1> SUFFICES Rest'
  BY <1>1 DEF PlanInv
<1>2. CASE StorePlan
  BY <1>2, StorePlanKeeps
<1>3. ASSUME NEW c \in Call, StartApply(c) PROVE Rest'
  BY <1>3, StartApplyKeeps
<1>4. ASSUME NEW r \in RequestId, Apply(r) PROVE Rest'
  BY <1>4, JobKeeps
<1>5. CASE UNCHANGED <<now, issued, plans, progress, job, installs>>
  BY <1>5 DEF PlanInv, PlansAreIssued, ResultOutlives, Spent, Unspent, InstalledOnce, Known, Done
<1>6. CASE QueryStarts \/ QueryEnds \/ QueryStamps
  BY <1>5, <1>6 DEF QueryStarts, QueryEnds, QueryStamps, store
<1>7. ASSUME NEW c \in Call, Arrive(c) PROVE Rest'
  BY <1>5, <1>7 DEF Arrive, store
<1>8. ASSUME NEW w \in Watcher, Watch(w) PROVE Rest'
  BY <1>5, <1>8 DEF Watch, WatchStarts, WatchPolls, store
<1>9. CASE Tick
  <2>1. UNCHANGED <<issued, plans, progress, job, installs>> /\ now' = now + 1
    BY <1>9 DEF Tick, store
  <2>2. PlansAreIssued'
    BY <2>1, WorkerAssumption
       DEF WorkerAssumption, WorkerInv, TypeOK, PlanInv, PlansAreIssued, Known
  <2>3. QED
    BY <2>1, <2>2 DEF PlanInv, ResultOutlives, Spent, Unspent, InstalledOnce, Known, Done
<1>10. CASE Crash
  <2>1. UNCHANGED <<now, issued, installs>> /\ \A p \in Plan : plans'[p] = 0
    BY <1>10 DEF Crash
  <2>2. \A r \in RequestId : progress'[r].phase = "none" /\ job'[r] = "none"
    BY <1>10 DEF Crash, Without
  <2>3. PlansAreIssued'
    BY <2>1, <2>2, WorkerAssumption
       DEF WorkerAssumption, WorkerInv, TypeOK, PlansAreIssued, Known
  <2>4. QED
    BY <2>1, <2>2, <2>3
       DEF PlanInv, ResultOutlives, Spent, Unspent, InstalledOnce, Known, Done, Final
<1>11. CASE UNCHANGED vars
  BY <1>5, <1>11 DEF vars, store
<1> HIDE DEF Rest
<1>12. QED
  BY <1>2, <1>3, <1>4, <1>6, <1>7, <1>8, <1>9, <1>10, <1>11 DEF Next, Query

LEMMA PlanInvariant == Spec => [](WorkerInv /\ PlanInv)
<1>1. Init => PlanInv
  BY WorkerAssumption
     DEF WorkerAssumption, Init, Idle, Without, PlanInv, ReadBefore, PlansAreIssued, ResultOutlives,
         Spent, Unspent, InstalledOnce, Known, Done, Final
<1>2. QED
  BY <1>1, WorkerInvariant, StepPlan, PTL DEF Spec

\* However often a request is repeated, at once, later, after its result was pruned or
\* after a crash, it installs a plan once: the plan goes before the result does.
THEOREM NeverTwice == Spec => []InstalledOnce
<1>1. PlanInv => InstalledOnce
  BY DEF PlanInv
<1>2. QED
  BY <1>1, PlanInvariant, PTL

\* A result is there to be asked for, unchanged, until its hour is over or the broker dies.
THEOREM ResultsAreKept == Spec => ResultIsKept
<1> DEFINE Kept ==
      \A r \in RequestId : Done(r) =>
        \/ progress'[r] = progress[r]
        \/ progress'[r] = Without(progress[r].ver) /\ (now > progress[r].at + Retention \/ crashes' # crashes)
<1>1. WorkerInv /\ PlanInv /\ [Next]_vars => [Kept]_vars
  <2> SUFFICES ASSUME WorkerInv, PlanInv, Next PROVE Kept
    BY DEF vars
  <2> USE WorkerAssumption DEF WorkerAssumption, WorkerInv, TypeOK
  <2>1. CASE progress' = progress
    BY <2>1
  <2>2. CASE StorePlan
    <3>1. query.now <= now /\ query.now \in Nat
      BY DEF PlanInv, ReadBefore
    <3> SUFFICES ASSUME NEW r \in RequestId, Pruned(r, query.now) PROVE now > progress[r].at + Retention
      BY <2>2 DEF StorePlan
    <3>2. progress[r].at \in Nat /\ query.now > progress[r].at + Retention
      BY DEF Pruned, Reports
    <3>3. QED
      BY <3>1, <3>2
  <2>3. ASSUME NEW c \in Call, StartApply(c) PROVE Kept
    <3>1. CASE Refused(c)
      BY <2>1, <3>1 DEF Refused
    <3>2. CASE Accepted(c)
      BY <3>2 DEF Accepted, Known, Done, Final
    <3>3. QED
      BY <2>3, <3>1, <3>2, StartCases
  <2>4. ASSUME NEW r \in RequestId, Apply(r) PROVE Kept
    <3>1. CASE JobLocks(r) \/ JobEnds(r)
      BY <2>1, <3>1 DEF JobLocks, JobEnds
    <3>2. CASE JobInstalls(r) \/ JobFinishes(r)
      <4>1. ~Done(r)
        BY <3>2 DEF JobInstalls, JobFinishes, JobKeepsItsReport
      <4>2. \A q \in RequestId \ {r} : progress'[q] = progress[q]
        BY <3>2 DEF JobInstalls, JobFinishes, SetProgress
      <4>3. QED
        BY <4>1, <4>2
    <3>3. QED
      BY <2>4, <3>1, <3>2 DEF Apply
  <2>5. CASE Crash
    BY <2>5 DEF Crash
  <2>6. QED
    BY <2>1, <2>2, <2>3, <2>4, <2>5
       DEF Next, Query, QueryStarts, QueryEnds, QueryStamps, Arrive, Watch, WatchStarts, WatchPolls, Tick
<1>2. QED
  BY <1>1, PlanInvariant, PTL DEF ResultIsKept, Spec

\* A plan can be applied until it expires, whatever is calculated or refused meanwhile.
THEOREM PlansAreKept == Spec => PlanIsKept
<1> DEFINE Kept == \A p \in Plan : now < plans[p] => plans'[p] = plans[p] \/ crashes' # crashes
<1>1. WorkerInv /\ PlanInv /\ [Next]_vars => [Kept]_vars
  <2> SUFFICES ASSUME WorkerInv, PlanInv, Next PROVE Kept
    BY DEF vars
  <2> USE WorkerAssumption DEF WorkerAssumption, WorkerInv, TypeOK
  <2>1. CASE plans' = plans
    BY <2>1
  <2>2. CASE StorePlan
    <3>1. PICK p \in Plan \ issued :
            plans' = [q \in Plan |-> IF q = p THEN query.now + Lifetime
                                    ELSE IF plans[q] > query.now THEN plans[q] ELSE 0]
      BY <2>2 DEF StorePlan
    <3>2. query.now <= now /\ plans[p] = 0
      BY DEF PlanInv, ReadBefore, PlansAreIssued
    <3>3. QED
      BY <3>1, <3>2
  <2>3. ASSUME NEW c \in Call, StartApply(c) PROVE Kept
    <3>1. CASE plans' = [plans EXCEPT ![PlanOf[c]] = 0] /\ plans[PlanOf[c]] <= call[c].now
      <4>1. call[c].now <= now
        BY DEF PlanInv, ReadBefore
      <4>2. ~(now < plans[PlanOf[c]])
        BY <3>1, <4>1
      <4>3. QED
        BY <3>1, <4>2
    <3>2. QED
      BY <2>1, <2>3, <3>1, StartCases DEF Refused, Accepted
  <2>4. CASE Crash
    BY <2>4 DEF Crash
  <2>5. QED
    BY <2>1, <2>2, <2>3, <2>4
       DEF Next, Query, QueryStarts, QueryEnds, QueryStamps, Arrive, Apply, JobLocks, JobInstalls,
           JobFinishes, JobEnds, Watch, WatchStarts, WatchPolls, Tick, store
<1>2. QED
  BY <1>1, PlanInvariant, PTL DEF PlanIsKept, Spec

-----------------------------------------------------------------------------
(***************************************************************************)
(* The progress channel.                                                   *)
(***************************************************************************)
\* The watcher is not ahead of the report; what it has sent last it has sent as it was.
InStep ==
  /\ \A r \in RequestId : Known(r) => progress[r].ver > 0
  /\ \A w \in Watcher :
       /\ watch[w].sent.ver <= progress[Watches[w]].ver
       /\ Known(Watches[w]) /\ watch[w].sent.ver = progress[Watches[w]].ver
            => watch[w].sent.phase = progress[Watches[w]].phase
       /\ watch[w].at = "closed" => Final(watch[w].sent.phase)

\* A step of the worker leaves a report as it is, gives it a later version, or forgets it.
LEMMA ReportsAdvance ==
  ASSUME WorkerInv, InStep, watch' = watch,
         \A r \in RequestId :
           \/ progress'[r] = progress[r]
           \/ progress'[r].ver = progress[r].ver + 1
           \/ progress'[r].ver = progress[r].ver /\ progress'[r].phase = "none"
  PROVE  InStep'
<1> USE WorkerAssumption DEF WorkerAssumption
<1>1. \A r \in RequestId : progress[r].ver \in Nat
  BY DEF WorkerInv, TypeOK, Reports
<1>2. \A w \in Watcher : watch[w].sent.ver \in Nat /\ Watches[w] \in RequestId
  BY DEF WorkerInv, TypeOK, Sent
<1>3. ASSUME NEW r \in RequestId, Known(r)' PROVE (progress[r].ver > 0)'
  BY <1>1, <1>3 DEF InStep, Known
<1>4. ASSUME NEW w \in Watcher
      PROVE  /\ watch[w].sent.ver <= progress'[Watches[w]].ver
             /\ Known(Watches[w])' /\ watch[w].sent.ver = progress'[Watches[w]].ver
                  => watch[w].sent.phase = progress'[Watches[w]].phase
             /\ watch[w].at = "closed" => Final(watch[w].sent.phase)
  <2> DEFINE r == Watches[w]
  <2>1. CASE progress'[r] = progress[r]
    BY <2>1 DEF InStep, Known
  <2>2. CASE progress'[r].ver = progress[r].ver + 1
    BY <1>1, <1>2, <2>2 DEF InStep
  <2>3. CASE progress'[r].ver = progress[r].ver /\ progress'[r].phase = "none"
    BY <2>3 DEF InStep, Known
  <2>4. QED
    BY <1>2, <2>1, <2>2, <2>3
<1>5. QED
  BY <1>3, <1>4 DEF InStep

LEMMA StepInStep == WorkerInv /\ InStep /\ [Next]_vars => InStep'
<1> SUFFICES ASSUME WorkerInv, InStep, [Next]_vars PROVE InStep'
  OBVIOUS
<1> USE WorkerAssumption DEF WorkerAssumption, WorkerInv, TypeOK
<1>1. CASE UNCHANGED <<progress, watch>>
  BY <1>1 DEF InStep, Known
<1>2. CASE StorePlan
  BY <1>2, ReportsAdvance DEF StorePlan, Without
<1>3. ASSUME NEW c \in Call, StartApply(c) PROVE InStep'
  <2>1. watch' = watch
    BY <1>3 DEF StartApply
  <2>2. \A r \in RequestId : progress'[r] = progress[r] \/ progress'[r].ver = progress[r].ver + 1
    BY <1>3, StartCases DEF Refused, Accepted, Report
  <2>3. QED
    BY <2>1, <2>2, ReportsAdvance
<1>4. ASSUME NEW r \in RequestId, Apply(r) PROVE InStep'
  <2>1. CASE JobLocks(r) \/ JobEnds(r)
    BY <1>1, <2>1 DEF JobLocks, JobEnds
  <2>2. CASE JobInstalls(r) \/ JobFinishes(r)
    <3>1. \A q \in RequestId : progress'[q] = progress[q] \/ progress'[q].ver = progress[q].ver + 1
      BY <2>2 DEF JobInstalls, JobFinishes, SetProgress, Report
    <3>2. QED
      BY <2>2, <3>1, ReportsAdvance DEF JobInstalls, JobFinishes
  <2>3. QED
    BY <1>4, <2>1, <2>2 DEF Apply
<1>5. ASSUME NEW w \in Watcher, WatchStarts(w) PROVE InStep'
  BY <1>5 DEF WatchStarts, InStep, Known
<1>6. ASSUME NEW w \in Watcher, WatchPolls(w) PROVE InStep'
  <2> DEFINE got == progress[Watches[w]]
             end == IF ~Known(Watches[w]) THEN "failed" ELSE IF Final(got.phase) THEN "closed" ELSE "poll"
             last == IF got.ver > watch[w].sent.ver THEN [phase |-> got.phase, ver |-> got.ver]
                     ELSE watch[w].sent
  <2>1. got.ver \in Nat /\ watch[w].sent.ver \in Nat /\ Watches[w] \in RequestId
    BY DEF Reports, Sent
  <2>2. progress' = progress /\ watch' = [watch EXCEPT ![w].at = end, ![w].sent = last]
    BY <1>6 DEF WatchPolls
  <2>3. last.ver <= got.ver /\ (Known(Watches[w]) /\ last.ver = got.ver => last.phase = got.phase)
    BY <2>1 DEF InStep
  <2>4. end = "closed" => Final(last.phase)
    <3>1. CASE got.ver > watch[w].sent.ver
      BY <3>1
    <3>2. CASE ~(got.ver > watch[w].sent.ver)
      <4>1. watch[w].sent.ver <= got.ver
        BY DEF InStep
      <4>2. watch[w].sent.ver = got.ver
        BY ONLY <2>1, <3>2, <4>1
      <4>3. Known(Watches[w]) => watch[w].sent.phase = got.phase
        BY <4>2 DEF InStep
      <4>4. last = watch[w].sent
        BY <3>2
      <4>5. end = "closed" => Known(Watches[w]) /\ Final(got.phase)
        OBVIOUS
      <4>6. QED
        BY <4>3, <4>4, <4>5
    <3>3. QED
      BY <3>1, <3>2
  <2> HIDE DEF end, last
  <2>5. watch'[w].at = end /\ watch'[w].sent = last /\ \A v \in Watcher \ {w} : watch'[v] = watch[v]
    BY <2>2
  <2>6. QED
    BY <2>2, <2>3, <2>4, <2>5 DEF InStep, Known
<1>7. CASE Crash
  BY <1>7, ReportsAdvance DEF Crash, Without
<1>8. QED
  BY <1>1, <1>2, <1>3, <1>4, <1>5, <1>6, <1>7
     DEF Next, Query, QueryStarts, QueryEnds, QueryStamps, Arrive, Watch, Tick, vars

\* A progress channel that closes without an error has sent the result, also when the
\* report was forgotten and begun anew between two of its looks.
THEOREM WatchersSeeTheEnd == Spec => []WatcherHasResult
<1>1. Init => InStep
  BY WorkerAssumption DEF WorkerAssumption, Init, InStep, Without, Off, Known
<1>2. InStep => WatcherHasResult
  BY DEF InStep, WatcherHasResult
<1>3. QED
  BY <1>1, <1>2, WorkerInvariant, StepInStep, PTL DEF Spec
=============================================================================
