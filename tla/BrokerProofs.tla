---------------------------- MODULE BrokerProofs ----------------------------
(***************************************************************************)
(* Theorems about Broker, for every set of calls, request ids and units.   *)
(***************************************************************************)
EXTENDS Broker, TLAPS

\* The guard-free pieces the actions share keep the types.
LEMMA InsertType ==
  ASSUME audit \in Seq(Row), NEW kind \in {"begin", "end", "deny"}, NEW c \in Call,
         NEW outcome \in Outcome, Insert(kind, c, outcome)
  PROVE  audit' \in Seq(Row)
<1>1. AuditRow(kind, c, outcome) \in Row
  BY DEF AuditRow, Row
<1>2. QED
  BY <1>1 DEF Insert

LEMMA RespondType ==
  ASSUME phase \in [Call -> Phase], reply \in [Call -> Reply], NEW c \in Call,
         NEW status \in {200, 400, 403, 409, 500, 503}, NEW from \in Call \cup {NoCall},
         Respond(c, status, from)
  PROVE  phase' \in [Call -> Phase] /\ reply' \in [Call -> Reply]
BY DEF Respond, Phase, Reply

LEMMA UnlockType ==
  ASSUME holder \in [Unit -> Call \cup {NoCall}], NEW c \in Call, Unlock(c)
  PROVE  holder' \in [Unit -> Call \cup {NoCall}]
BY DEF Unlock

LEMMA FinishType ==
  ASSUME TypeOK, NEW c \in Call, NEW outcome \in {"success", "failed"},
         NEW status \in {200, 400, 403, 409, 500, 503}, Finish(c, outcome, status)
  PROVE  /\ phase' \in [Call -> Phase]
         /\ reply' \in [Call -> Reply]
         /\ audit' \in Seq(Row)
         /\ holder' \in [Unit -> Call \cup {NoCall}]
<1>1. audit' \in Seq(Row)
  BY InsertType DEF Finish, TypeOK, Outcome
<1>2. phase' \in [Call -> Phase] /\ reply' \in [Call -> Reply]
  BY RespondType DEF Finish, TypeOK
<1>3. holder' \in [Unit -> Call \cup {NoCall}]
  BY UnlockType DEF Finish, TypeOK
<1>4. QED
  BY <1>1, <1>2, <1>3

-----------------------------------------------------------------------------
(***************************************************************************)
(* The audit table.                                                        *)
(***************************************************************************)
\* Among the rows a requestId can be answered from there is a first one.
FirstRowExists ==
  \A r \in RequestId : HasStored(r) => \E i \in Terminal(r) : \A j \in Terminal(r) : i <= j

\* What StoredRow chooses is that first row.
LEMMA StoredRowIsFirst ==
  ASSUME audit \in Seq(Row), FirstRowExists, NEW r \in RequestId, HasStored(r)
  PROVE  /\ StoredRow(r) \in Row
         /\ \E i \in Terminal(r) : StoredRow(r) = audit[i] /\ \A j \in Terminal(r) : i <= j
<1>1. PICK i \in Terminal(r) : \A j \in Terminal(r) : i <= j
  BY DEF FirstRowExists
<1>2. Terminal(r) \subseteq DOMAIN audit /\ \A k \in DOMAIN audit : audit[k] \in Row
  BY DEF Terminal
<1>3. QED
  BY <1>1, <1>2 DEF StoredRow

\* Every step leaves the table alone or adds one row at its end.
LEMMA AuditOnlyGrows ==
  ASSUME TypeOK, [Next]_vars
  PROVE  audit' = audit \/ \E row \in Row : audit' = Append(audit, row)
<1>1. ASSUME NEW c \in Call, NEW kind \in {"begin", "end", "deny"}, NEW outcome \in Outcome,
             Insert(kind, c, outcome)
      PROVE  audit' = audit \/ \E row \in Row : audit' = Append(audit, row)
  BY <1>1 DEF Insert, AuditRow, Row
<1>2. ASSUME NEW c \in Call, NEW outcome \in {"success", "failed"}, NEW status,
             Finish(c, outcome, status)
      PROVE  audit' = audit \/ \E row \in Row : audit' = Append(audit, row)
  BY <1>1, <1>2 DEF Finish, Outcome
<1>3. ASSUME NEW c \in Call, Handle(c)
      PROVE  audit' = audit \/ \E row \in Row : audit' = Append(audit, row)
  <2>1. CASE Denied(c)
    BY <2>1, <1>1 DEF Denied, Outcome
  <2>2. CASE Begin(c)
    BY <2>2, <1>1 DEF Begin, Outcome
  <2>3. CASE ExecuteService(c)
    BY <2>3, <1>2 DEF ExecuteService
  <2>4. CASE FinishService(c)
    BY <2>4, <1>2 DEF FinishService
  <2>5. CASE ExecuteDirect(c)
    BY <2>5, <1>2 DEF ExecuteDirect
  <2>6. CASE FinishDirect(c)
    BY <2>6, <1>2 DEF FinishDirect
  <2>8. CASE StartApply(c)
    BY <2>8, <1>2 DEF StartApply
  <2>9. CASE ApplyDone(c)
    BY <2>9, <1>1 DEF ApplyDone, Outcome
  <2>10. CASE Reject(c) \/ Replay(c) \/ LookupMiss(c) \/ Allowed(c) \/ PolkitUnavailable(c)
                \/ LockUnit(c) \/ PreconditionHolds(c) \/ PreconditionFails(c)
    BY <2>10 DEF Reject, Replay, LookupMiss, Allowed, PolkitUnavailable, LockUnit,
                 PreconditionHolds, PreconditionFails
  <2>11. QED
    BY <1>3, <2>1, <2>2, <2>3, <2>4, <2>5, <2>6, <2>8, <2>9, <2>10 DEF Handle
<1>4. CASE \E c \in Call : Submit(c)
  BY <1>4 DEF Submit
<1>5. CASE \/ \E r \in RequestId : PruneProgress(r)
           \/ \E u \in Unit : RunJob(u) \/ Flip(u)
           \/ Crash \/ Idle \/ UNCHANGED vars
  BY <1>5 DEF PruneProgress, RunJob, Flip, Crash, Idle, vars
<1>6. QED
  BY <1>3, <1>4, <1>5 DEF Next

\* Adding a row keeps a first row first.
LEMMA AppendKeepsStored ==
  ASSUME audit \in Seq(Row), FirstRowExists, NEW row \in Row,
         audit' = Append(audit, row)
  PROVE  /\ FirstRowExists'
         /\ \A r \in RequestId : HasStored(r) => HasStored(r)' /\ StoredRow(r)' = StoredRow(r)
<1>1. /\ audit' \in Seq(Row)
      /\ DOMAIN audit = 1..Len(audit) /\ Len(audit) \in Nat
      /\ DOMAIN audit' = 1..(Len(audit) + 1)
      /\ \A i \in DOMAIN audit : audit'[i] = audit[i]
  OBVIOUS
<1>2. ASSUME NEW r \in RequestId
      PROVE  \/ Terminal(r)' = Terminal(r)
             \/ Terminal(r)' = Terminal(r) \cup {Len(audit) + 1}
  BY <1>1 DEF Terminal
<1>3. ASSUME NEW r \in RequestId
      PROVE  Terminal(r) \subseteq 1..Len(audit)
  BY <1>1 DEF Terminal
<1>4. FirstRowExists'
  <2>1. SUFFICES ASSUME NEW r \in RequestId, HasStored(r)'
                 PROVE  \E i \in Terminal(r)' : \A j \in Terminal(r)' : i <= j
    BY DEF FirstRowExists
  <2>2. CASE HasStored(r)
    <3>1. PICK i \in Terminal(r) : \A j \in Terminal(r) : i <= j
      BY <2>2 DEF FirstRowExists
    <3>2. QED
      BY <3>1, <1>1, <1>2, <1>3
  <2>3. CASE ~HasStored(r)
    BY <2>1, <2>3, <1>1, <1>2 DEF HasStored
  <2>4. QED
    BY <2>2, <2>3
<1>5. ASSUME NEW r \in RequestId, HasStored(r)
      PROVE  HasStored(r)' /\ StoredRow(r)' = StoredRow(r)
  <2>1. PICK i \in Terminal(r) : \A j \in Terminal(r) : i <= j
    BY <1>5 DEF FirstRowExists
  <2>2. i \in Terminal(r)' /\ \A j \in Terminal(r)' : i <= j
    BY <2>1, <1>1, <1>2, <1>3
  <2>3. (CHOOSE k \in Terminal(r) : \A j \in Terminal(r) : k <= j) = i
    BY <2>1, <1>3
  <2>4. (CHOOSE k \in Terminal(r)' : \A j \in Terminal(r)' : k <= j) = i
    BY <2>2, <1>2, <1>3, <1>1
  <2>5. QED
    BY <2>2, <2>3, <2>4, <1>1, <1>3, <2>1 DEF StoredRow, HasStored
<1>6. QED
  BY <1>4, <1>5

-----------------------------------------------------------------------------
(***************************************************************************)
(* Type correctness.  The type of the reply a replay gives rests on there  *)
(* being a first stored row, so both are proved together.                  *)
(***************************************************************************)
TypeInv == TypeOK /\ FirstRowExists

LEMMA HandleType ==
  ASSUME TypeInv, NEW c \in Call, Handle(c)
  PROVE  TypeOK'
<1> USE CallAssumption
<1>1. TypeOK /\ FirstRowExists
  BY DEF TypeInv
<1>2. CASE Reject(c)
  BY <1>1, <1>2, RespondType DEF Reject, TypeOK
<1>3. CASE Replay(c)
  <2>1. RequestOf[c] \in RequestId
    BY DEF TypeOK
  <2>2. ASSUME HasStored(RequestOf[c])
        PROVE  /\ StatusOf(StoredRow(RequestOf[c]).outcome) \in {200, 400, 403, 409, 500, 503}
               /\ StoredRow(RequestOf[c]).call \in Call \cup {NoCall}
    BY <1>1, <2>1, <2>2, StoredRowIsFirst DEF TypeOK, Row, StatusOf
  <2>3. phase' \in [Call -> Phase] /\ reply' \in [Call -> Reply]
    BY <1>1, <1>3, <2>2, RespondType DEF Replay, TypeOK
  <2>4. QED
    BY <1>1, <1>3, <2>3 DEF Replay, TypeOK
<1>4. CASE LookupMiss(c)
  BY <1>1, <1>4 DEF LookupMiss, TypeOK, Phase
<1>5. CASE Allowed(c)
  BY <1>1, <1>5 DEF Allowed, TypeOK, Phase
<1>6. CASE Denied(c)
  <2>1. audit' \in Seq(Row)
    BY <1>1, <1>6, InsertType DEF Denied, TypeOK, Outcome
  <2>2. phase' \in [Call -> Phase] /\ reply' \in [Call -> Reply]
    BY <1>1, <1>6, RespondType DEF Denied, TypeOK
  <2>3. QED
    BY <1>1, <1>6, <2>1, <2>2 DEF Denied, TypeOK
<1>7. CASE PolkitUnavailable(c)
  BY <1>1, <1>7, RespondType DEF PolkitUnavailable, TypeOK
<1>8. CASE LockUnit(c)
  BY <1>1, <1>8 DEF LockUnit, TypeOK, Phase
<1>9. CASE PreconditionHolds(c)
  BY <1>1, <1>9 DEF PreconditionHolds, TypeOK, Phase
<1>10. CASE PreconditionFails(c)
  <2>1. phase' \in [Call -> Phase] /\ reply' \in [Call -> Reply]
    BY <1>1, <1>10, RespondType DEF PreconditionFails, TypeOK
  <2>2. holder' \in [Unit -> Call \cup {NoCall}]
    BY <1>1, <1>10, UnlockType DEF PreconditionFails, TypeOK
  <2>3. QED
    BY <1>1, <1>10, <2>1, <2>2 DEF PreconditionFails, TypeOK
<1>11. CASE Begin(c)
  <2>1. audit' \in Seq(Row)
    BY <1>1, <1>11, InsertType DEF Begin, TypeOK, Outcome
  <2>2. QED
    BY <1>1, <1>11, <2>1 DEF Begin, TypeOK, Phase
<1>12. ASSUME SystemdAccepts(c), UnitOf[c] \in Unit
       PROVE  unit' \in [Unit -> [active : ActiveState, enabled : BOOLEAN]]
              /\ job' \in [Unit -> Call \cup {NoCall}]
  <2>1. CASE OpOf[c] \in {"enable", "disable"}
    <3>1. PICK b \in BOOLEAN : unit' = [unit EXCEPT ![UnitOf[c]].enabled = b]
      BY <1>12, <2>1 DEF SystemdAccepts
    <3>2. unit' \in [Unit -> [active : ActiveState, enabled : BOOLEAN]]
      BY <1>1, <1>12, <3>1 DEF TypeOK
    <3>3. QED
      BY <1>1, <1>12, <2>1, <3>2 DEF SystemdAccepts, TypeOK
  <2>2. CASE OpOf[c] \notin {"enable", "disable"}
    BY <1>1, <1>12, <2>2 DEF SystemdAccepts, TypeOK
  <2>3. QED
    BY <2>1, <2>2
<1>13. CASE ExecuteService(c)
  <2>1. UnitOf[c] \in Unit
    BY <1>13 DEF ExecuteService
  <2>2. CASE SystemdAccepts(c) /\ phase' = [phase EXCEPT ![c] = "waiting"]
               /\ UNCHANGED <<reply, audit, holder>>
    BY <1>1, <1>12, <1>13, <2>1, <2>2 DEF ExecuteService, TypeOK, Phase
  <2>3. CASE Finish(c, "failed", 500) /\ UNCHANGED <<unit, job>>
    BY <1>1, <1>13, <2>3, FinishType DEF ExecuteService, TypeOK
  <2>4. QED
    BY <1>13, <2>2, <2>3 DEF ExecuteService
<1>14. CASE FinishService(c)
  BY <1>1, <1>14, FinishType DEF FinishService, TypeOK
<1>15. CASE ExecuteDirect(c)
  <2>1. UnitOf[c] # NoUnit => UnitOf[c] \in Unit
    OBVIOUS
  <2>2. CASE /\ (UnitOf[c] # NoUnit /\ SystemdAccepts(c)) \/ UNCHANGED <<unit, job>>
             /\ phase' = [phase EXCEPT ![c] = "waiting"]
             /\ UNCHANGED <<reply, audit, holder>>
    BY <1>1, <1>12, <1>15, <2>1, <2>2 DEF ExecuteDirect, TypeOK, Phase
  <2>3. CASE (\E status \in {400, 403, 409, 500, 503} : Finish(c, "failed", status))
               /\ UNCHANGED <<unit, job>>
    BY <1>1, <1>15, <2>3, FinishType DEF ExecuteDirect, TypeOK
  <2>4. QED
    BY <1>15, <2>2, <2>3 DEF ExecuteDirect
<1>16. CASE FinishDirect(c)
  BY <1>1, <1>16, FinishType DEF FinishDirect, TypeOK
<1>19. CASE StartApply(c)
  <2>1. CASE \E status \in {409, 503} : Finish(c, "failed", status)
    BY <1>1, <1>19, <2>1, FinishType DEF StartApply, TypeOK, Progress
  <2>2. CASE Respond(c, 200, NoCall) /\ UNCHANGED <<audit, holder, progress, effects>>
    BY <1>1, <1>19, <2>2, RespondType DEF StartApply, TypeOK
  <2>3. CASE /\ progress' = [progress EXCEPT ![RequestOf[c]] = "running"]
             /\ effects' = effects \cup {c}
             /\ phase' = [phase EXCEPT ![c] = "queued"]
             /\ reply' = [reply EXCEPT ![c] = [status |-> 200, from |-> c]]
             /\ UNCHANGED <<audit, holder>>
    <3>1. [status |-> 200, from |-> c] \in Reply
      BY DEF Reply
    <3>2. QED
      BY <1>1, <1>19, <2>3, <3>1 DEF StartApply, TypeOK, Progress, Phase
  <2>4. QED
    BY <1>19, <2>1, <2>2, <2>3 DEF StartApply
<1>20. CASE ApplyDone(c)
  <2>1. audit' \in Seq(Row)
    BY <1>1, <1>20, InsertType DEF ApplyDone, TypeOK, Outcome
  <2>2. QED
    BY <1>1, <1>20, <2>1 DEF ApplyDone, TypeOK, Progress, Phase
<1>21. QED
  BY <1>2, <1>3, <1>4, <1>5, <1>6, <1>7, <1>8, <1>9, <1>10, <1>11, <1>13, <1>14, <1>15,
     <1>16, <1>19, <1>20 DEF Handle

LEMMA StepType ==
  ASSUME TypeInv, [Next]_vars
  PROVE  TypeInv'
<1> USE CallAssumption
<1>1. TypeOK /\ FirstRowExists
  BY DEF TypeInv
<1>2. TypeOK'
  <2>1. CASE \E c \in Call : Submit(c)
    BY <1>1, <2>1 DEF Submit, TypeOK, Phase
  <2>2. CASE \E c \in Call : Handle(c)
    BY <2>2, HandleType
  <2>3. CASE \E r \in RequestId : PruneProgress(r)
    BY <1>1, <2>3 DEF PruneProgress, TypeOK, Progress
  <2>4. CASE \E u \in Unit : RunJob(u)
    <3>1. PICK u \in Unit, s \in ActiveState :
             /\ unit' = [unit EXCEPT ![u].active = s]
             /\ job' = [job EXCEPT ![u] = NoCall]
             /\ UNCHANGED <<phase, reply, audit, holder, progress, effects>>
      BY <2>4 DEF RunJob
    <3>2. QED
      BY <1>1, <3>1 DEF TypeOK
  <2>5. CASE \E u \in Unit : Flip(u)
    BY <1>1, <2>5 DEF Flip, TypeOK
  <2>6. CASE Crash
    BY <1>1, <2>6 DEF Crash, TypeOK, Phase, Progress
  <2>7. CASE Idle \/ UNCHANGED vars
    BY <1>1, <2>7 DEF Idle, vars, TypeOK
  <2>8. QED
    BY <2>1, <2>2, <2>3, <2>4, <2>5, <2>6, <2>7 DEF Next
<1>3. FirstRowExists'
  <2>1. CASE audit' = audit
    BY <1>1, <2>1 DEF FirstRowExists, HasStored, Terminal
  <2>2. CASE \E row \in Row : audit' = Append(audit, row)
    BY <1>1, <2>2, AppendKeepsStored DEF TypeOK
  <2>3. QED
    BY <1>1, <2>1, <2>2, AuditOnlyGrows
<1>4. QED
  BY <1>2, <1>3 DEF TypeInv

LEMMA InitType == Init => TypeInv
<1> SUFFICES ASSUME Init PROVE TypeInv
  OBVIOUS
<1>1. TypeOK
  <2>1. NoReply \in Reply /\ {FALSE} \subseteq BOOLEAN
    BY DEF NoReply, Reply
  <2>2. unit \in [Unit -> [active : ActiveState, enabled : BOOLEAN]]
    BY DEF Init
  <2>3. audit \in Seq(Row)
    BY DEF Init
  <2>4. QED
    BY <2>1, <2>2, <2>3 DEF Init, TypeOK, Phase, Progress
<1>2. FirstRowExists
  BY DEF Init, FirstRowExists, HasStored, Terminal
<1>3. QED
  BY <1>1, <1>2 DEF TypeInv

LEMMA TypeInvariant == Spec => []TypeInv
<1>1. QED
  BY InitType, StepType, PTL DEF Spec

\* No step of any call, crash or outside change takes a variable out of its
\* range: in particular every reply names a call there is, replays included.
THEOREM TypeCorrect == Spec => []TypeOK
<1>1. TypeInv => TypeOK
  BY DEF TypeInv
<1>2. QED
  BY <1>1, TypeInvariant, PTL

\* The answer stored for a requestId never changes once it is there, however
\* the calls interleave and whether or not the broker crashes or loses rows
\* (StoredResult reads the first end or deny row; rows are only ever added).
THEOREM StoredResultStays == Spec => StoredResultIsFinal
<1>1. TypeInv /\ [Next]_vars
        => [\A r \in RequestId : HasStored(r) => HasStored(r)' /\ StoredRow(r)' = StoredRow(r)]_vars
  <2> SUFFICES ASSUME TypeInv, [Next]_vars
               PROVE  \A r \in RequestId :
                        HasStored(r) => HasStored(r)' /\ StoredRow(r)' = StoredRow(r)
    OBVIOUS
  <2>1. CASE audit' = audit
    BY <2>1 DEF HasStored, StoredRow, Terminal
  <2>2. CASE \E row \in Row : audit' = Append(audit, row)
    BY <2>2, AppendKeepsStored DEF TypeInv, TypeOK
  <2>3. QED
    BY <2>1, <2>2, AuditOnlyGrows DEF TypeInv
<1>2. QED
  BY <1>1, TypeInvariant, PTL DEF Spec, StoredResultIsFinal

-----------------------------------------------------------------------------
(***************************************************************************)
(* The unit locks.                                                         *)
(***************************************************************************)
\* A step of c that leaves the locks alone and c on the same side of its lock.
LEMMA LockUntouched ==
  ASSUME TypeOK, LockHeldWhileCritical, NEW c \in Call, holder' = holder,
         Critical(c)' <=> Critical(c), \A d \in Call \ {c} : phase'[d] = phase[d]
  PROVE  LockHeldWhileCritical'
<1>1. \A d \in Call : Critical(d)' <=> Critical(d)
  BY DEF Critical
<1>2. \A u \in Unit : holder[u] # NoCall =>
        holder[u] \in Call /\ Critical(holder[u]) /\ UnitOf[holder[u]] = u
  BY DEF LockHeldWhileCritical, TypeOK
<1>3. QED
  BY <1>1, <1>2 DEF LockHeldWhileCritical

\* A step of c that ends c and gives back what it holds.
LEMMA LockReleased ==
  ASSUME TypeOK, LockHeldWhileCritical, NEW c \in Call, Unlock(c),
         phase' = [phase EXCEPT ![c] = "done"]
  PROVE  LockHeldWhileCritical'
<1>1. ~Critical(c)' /\ \A d \in Call \ {c} : Critical(d)' <=> Critical(d)
  BY DEF Critical, TypeOK
<1>2. \A u \in Unit : holder[u] # NoCall =>
        holder[u] \in Call /\ Critical(holder[u]) /\ UnitOf[holder[u]] = u
  BY DEF LockHeldWhileCritical, TypeOK
<1>3. \A u \in Unit : /\ holder[u] = c => holder'[u] = NoCall
                      /\ holder[u] # c => holder'[u] = holder[u]
  BY DEF Unlock
<1>4. \A u \in Unit : \A d \in Call : Critical(d) /\ UnitOf[d] = u => holder[u] = d
  BY DEF LockHeldWhileCritical
<1>5. ASSUME NEW u \in Unit
      PROVE  (holder[u] # NoCall => Critical(holder[u]) /\ UnitOf[holder[u]] = u)'
  <2>1. SUFFICES ASSUME holder'[u] # NoCall
                 PROVE  (Critical(holder[u]) /\ UnitOf[holder[u]] = u)'
    OBVIOUS
  <2>2. holder[u] # c /\ holder'[u] = holder[u]
    BY <1>3, <2>1
  <2>3. PICK d \in Call : d = holder[u] /\ d # c /\ Critical(d) /\ UnitOf[d] = u
    BY <1>2, <2>1, <2>2
  <2>4. Critical(d)' /\ holder'[u] = d
    BY <1>1, <2>2, <2>3
  <2>5. QED
    BY <2>3, <2>4 DEF Critical
<1>6. \A u \in Unit : \A d \in Call : Critical(d)' /\ UnitOf[d] = u => holder'[u] = d
  BY <1>1, <1>3, <1>4
<1>7. QED
  BY <1>5, <1>6 DEF LockHeldWhileCritical

LEMMA HandleLock ==
  ASSUME TypeOK, LockHeldWhileCritical, NEW c \in Call, Handle(c)
  PROVE  LockHeldWhileCritical'
<1> USE CallAssumption
<1>1. ASSUME NEW outcome, NEW status, Finish(c, outcome, status)
      PROVE  LockHeldWhileCritical'
  BY <1>1, LockReleased DEF Finish, Respond
<1>2. CASE Reject(c) \/ Replay(c) \/ LookupMiss(c) \/ Allowed(c) \/ Denied(c)
              \/ PolkitUnavailable(c)
  <2>1. ~Critical(c) /\ ~Critical(c)' /\ holder' = holder
    BY <1>2 DEF Reject, Replay, LookupMiss, Allowed, Denied, PolkitUnavailable, Respond,
                Critical, TypeOK
  <2>2. \A d \in Call \ {c} : phase'[d] = phase[d]
    BY <1>2 DEF Reject, Replay, LookupMiss, Allowed, Denied, PolkitUnavailable, Respond, TypeOK
  <2>3. QED
    BY <2>1, <2>2, LockUntouched
<1>3. CASE LockUnit(c)
  <2>1. /\ holder' = [holder EXCEPT ![UnitOf[c]] = c]
        /\ holder[UnitOf[c]] = NoCall
        /\ UnitOf[c] \in Unit
        /\ ~Critical(c) /\ Critical(c)'
    BY <1>3 DEF LockUnit, Critical, TypeOK
  <2>2. \A d \in Call \ {c} : Critical(d)' <=> Critical(d)
    BY <1>3 DEF LockUnit, Critical, TypeOK
  <2>3. \A u \in Unit : holder[u] # NoCall =>
          holder[u] \in Call /\ Critical(holder[u]) /\ UnitOf[holder[u]] = u
    BY DEF LockHeldWhileCritical, TypeOK
  <2>4. \A u \in Unit : \A d \in Call : Critical(d) /\ UnitOf[d] = u => holder[u] = d
    BY DEF LockHeldWhileCritical
  <2>5. \A u \in Unit : holder'[u] = IF u = UnitOf[c] THEN c ELSE holder[u]
    BY <2>1 DEF TypeOK
  <2>6. ASSUME NEW u \in Unit
        PROVE  (holder[u] # NoCall => Critical(holder[u]) /\ UnitOf[holder[u]] = u)'
    <3>1. SUFFICES ASSUME holder'[u] # NoCall
                   PROVE  (Critical(holder[u]) /\ UnitOf[holder[u]] = u)'
      OBVIOUS
    <3>2. PICK d \in Call : d = holder'[u] /\ UnitOf[d] = u /\ (d = c \/ Critical(d))
      BY <2>1, <2>3, <2>5, <3>1
    <3>3. Critical(d)'
      BY <2>1, <2>2, <3>2
    <3>4. QED
      BY <3>2, <3>3 DEF Critical
  <2>7. \A u \in Unit : \A d \in Call : Critical(d)' /\ UnitOf[d] = u => holder'[u] = d
    BY <2>1, <2>2, <2>4, <2>5
  <2>8. QED
    BY <2>6, <2>7 DEF LockHeldWhileCritical
<1>4. CASE PreconditionHolds(c) \/ Begin(c)
  <2>1. (Critical(c)' <=> Critical(c)) /\ holder' = holder
    BY <1>4 DEF PreconditionHolds, Begin, ReadyToBegin, Critical, TypeOK
  <2>2. \A d \in Call \ {c} : phase'[d] = phase[d]
    BY <1>4 DEF PreconditionHolds, Begin, TypeOK
  <2>3. QED
    BY <2>1, <2>2, LockUntouched
<1>5. CASE PreconditionFails(c)
  BY <1>5, LockReleased DEF PreconditionFails, Respond
<1>6. ASSUME phase[c] = "begun", phase' = [phase EXCEPT ![c] = "waiting"], holder' = holder
      PROVE  LockHeldWhileCritical'
  <2>1. Critical(c)' <=> Critical(c)
    BY <1>6 DEF Critical, TypeOK
  <2>2. QED
    BY <1>6, <2>1, LockUntouched DEF TypeOK
<1>7. CASE ExecuteService(c)
  BY <1>7, <1>1, <1>6 DEF ExecuteService
<1>8. CASE ExecuteDirect(c)
  BY <1>8, <1>1, <1>6 DEF ExecuteDirect
<1>10. CASE FinishService(c) \/ FinishDirect(c)
  BY <1>10, <1>1 DEF FinishService, FinishDirect
<1>11. CASE StartApply(c)
  <2>1. CASE \E status \in {409, 503} : Finish(c, "failed", status)
    BY <2>1, <1>1
  <2>2. CASE ~\E status \in {409, 503} : Finish(c, "failed", status)
    <3>1. ~Critical(c) /\ ~Critical(c)' /\ holder' = holder
      BY <1>11, <2>2 DEF StartApply, Respond, Critical, TypeOK
    <3>2. \A d \in Call \ {c} : phase'[d] = phase[d]
      BY <1>11, <2>2 DEF StartApply, Respond, TypeOK
    <3>3. QED
      BY <3>1, <3>2, LockUntouched
  <2>3. QED
    BY <2>1, <2>2
<1>12. CASE ApplyDone(c)
  <2>1. ~Critical(c) /\ ~Critical(c)' /\ holder' = holder
    BY <1>12 DEF ApplyDone, Critical, TypeOK
  <2>2. \A d \in Call \ {c} : phase'[d] = phase[d]
    BY <1>12 DEF ApplyDone, TypeOK
  <2>3. QED
    BY <2>1, <2>2, LockUntouched
<1>13. QED
  BY <1>2, <1>3, <1>4, <1>5, <1>7, <1>8, <1>10, <1>11, <1>12 DEF Handle

LEMMA StepLock ==
  ASSUME TypeOK, LockHeldWhileCritical, [Next]_vars
  PROVE  LockHeldWhileCritical'
<1> USE CallAssumption
<1>1. ASSUME NEW c \in Call, Submit(c)
      PROVE  LockHeldWhileCritical'
  <2>1. ~Critical(c) /\ ~Critical(c)' /\ holder' = holder
    BY <1>1 DEF Submit, Critical, TypeOK
  <2>2. \A d \in Call \ {c} : phase'[d] = phase[d]
    BY <1>1 DEF Submit, TypeOK
  <2>3. QED
    BY <2>1, <2>2, LockUntouched
<1>2. CASE \E c \in Call : Handle(c)
  BY <1>2, HandleLock
<1>3. CASE Crash
  <2>1. \A u \in Unit : holder'[u] = NoCall
    BY <1>3 DEF Crash
  <2>2. \A c \in Call : ~Critical(c)'
    BY <1>3 DEF Crash, InFlight, Critical
  <2>3. QED
    BY <2>1, <2>2 DEF LockHeldWhileCritical
<1>4. CASE \/ \E r \in RequestId : PruneProgress(r)
           \/ \E u \in Unit : RunJob(u) \/ Flip(u)
           \/ Idle \/ UNCHANGED vars
  BY <1>4 DEF PruneProgress, RunJob, Flip, Idle, vars, LockHeldWhileCritical, Critical
<1>5. QED
  BY <1>1, <1>2, <1>3, <1>4 DEF Next

\* A unit lock is held by exactly the service action that is between its
\* precondition check and its audit end row: no early return leaks the lock.
THEOREM LockIsHeldWhileCritical == Spec => []LockHeldWhileCritical
<1>1. Init => LockHeldWhileCritical
  BY DEF Init, LockHeldWhileCritical, Critical
<1>2. TypeInv /\ LockHeldWhileCritical /\ [Next]_vars => LockHeldWhileCritical'
  BY StepLock DEF TypeInv
<1>3. QED
  BY <1>1, <1>2, TypeInvariant, PTL DEF Spec

\* Two service actions on one unit never both hold a checked precondition.
THEOREM UnitsAreSerialised == Spec => []OneServiceActionPerUnit
<1>1. LockHeldWhileCritical => OneServiceActionPerUnit
  BY CallAssumption DEF LockHeldWhileCritical, OneServiceActionPerUnit, Critical
<1>2. QED
  BY <1>1, LockIsHeldWhileCritical, PTL

-----------------------------------------------------------------------------
(***************************************************************************)
(* At most one execution per requestId, for a client that waits for an     *)
(* answer before it repeats a request and never reuses an id for another   *)
(* action, as long as the audit table takes the rows.                      *)
(***************************************************************************)
PatientClient ==
  /\ ~MayOverlap /\ ~AuditMayFail
  /\ \A c, d \in Call : RequestOf[c] = RequestOf[d] => KindOf[c] = KindOf[d]

PastLookup(c) == InFlight(c) /\ phase[c] # "received"

\* No two calls of one request are in flight.
Solo ==
  \A c, d \in Call : c # d /\ RequestOf[c] = RequestOf[d] => ~(InFlight(c) /\ InFlight(d))

\* What ran is still running, with the worker, on record, or lost in a crash.
Settled ==
  \A c \in effects :
    /\ phase[c] \in {"waiting", "queued", "done", "lost"}
    /\ phase[c] = "done" => HasStored(RequestOf[c])

\* The worker has a progress record for everything handed to it.
QueuedRuns ==
  \A c \in Call : phase[c] = "queued" =>
    c \in effects /\ KindOf[c] = "apply" /\ progress[RequestOf[c]] = "running"

\* What the lookup found absent is still absent.
Fresh ==
  \A c \in Call :
    /\ PastLookup(c) => ~HasStored(RequestOf[c])
    /\ PastLookup(c) /\ KindOf[c] = "apply" => progress[RequestOf[c]] = "none"

OnceInv == TypeInv /\ Solo /\ Settled /\ QueuedRuns /\ Fresh /\ ExecutedOnce

\* What a step of one call may do to the parts of OnceInv.
OneCallMoves(c) ==
  LET r == RequestOf[c] IN
  /\ \A d \in Call \ {c} : phase'[d] = phase[d]
  /\ effects \subseteq effects' /\ effects' \subseteq effects \cup {c}
  /\ c \in effects' \ effects => PastLookup(c)
  /\ \A q \in RequestId \ {r} : (HasStored(q)' <=> HasStored(q)) /\ progress'[q] = progress[q]
  /\ HasStored(r) => HasStored(r)'
  /\ \/ PastLookup(c) \/ phase[c] = "queued"
     \/ (HasStored(r)' <=> HasStored(r)) /\ progress'[r] = progress[r]
  /\ InFlight(c)' => InFlight(c)
  /\ PastLookup(c)' => ~HasStored(r)' /\ (KindOf[c] = "apply" => progress'[r] = "none")
  /\ KindOf[c] # "apply" => progress'[r] = progress[r]
  /\ c \in effects' => /\ phase'[c] \in {"waiting", "queued", "done", "lost"}
                       /\ phase'[c] = "done" => HasStored(r)'
  /\ phase'[c] = "queued" => c \in effects' /\ KindOf[c] = "apply" /\ progress'[r] = "running"
  /\ phase[c] # "lost"

LEMMA OneCallKeepsOnce ==
  ASSUME PatientClient, OnceInv, NEW c \in Call, OneCallMoves(c)
  PROVE  Solo' /\ Settled' /\ QueuedRuns' /\ Fresh' /\ ExecutedOnce'
<1> USE CallAssumption
<1> DEFINE r == RequestOf[c]
<1>1. /\ \A d \in Call \ {c} : phase'[d] = phase[d]
      /\ effects' \subseteq effects \cup {c}
      /\ effects \subseteq Call /\ r \in RequestId
      /\ \A q \in RequestId \ {r} : (HasStored(q)' <=> HasStored(q)) /\ progress'[q] = progress[q]
      /\ HasStored(r) => HasStored(r)'
  BY DEF OneCallMoves, OnceInv, TypeInv, TypeOK
\* While c is past its lookup or queued, no other call of its request is past its own.
<1>2. ASSUME NEW d \in Call \ {c}, RequestOf[d] = r, PastLookup(d)
      PROVE  (HasStored(r)' <=> HasStored(r)) /\ (KindOf[c] = "apply" => progress'[r] = progress[r])
  <2>1. ~PastLookup(c)
    BY <1>2 DEF OnceInv, Solo, PastLookup
  <2>2. phase[c] # "queued"
    BY <1>2 DEF OnceInv, QueuedRuns, Fresh, PatientClient
  <2>3. QED
    BY <2>1, <2>2 DEF OneCallMoves
<1>3. Solo'
  BY <1>1 DEF OneCallMoves, OnceInv, Solo, InFlight
<1>4. Settled'
  <2>1. ASSUME NEW d \in effects', d # c
        PROVE  /\ phase'[d] \in {"waiting", "queued", "done", "lost"}
               /\ phase'[d] = "done" => HasStored(RequestOf[d])'
    <3>1. d \in effects /\ d \in Call /\ RequestOf[d] \in RequestId
      BY <1>1, <2>1
    <3>2. HasStored(RequestOf[d]) => HasStored(RequestOf[d])'
      BY <1>1, <3>1
    <3>3. QED
      BY <1>1, <2>1, <3>1, <3>2 DEF OnceInv, Settled
  <2>2. QED
    BY <2>1 DEF Settled, OneCallMoves
<1>5. QueuedRuns'
  <2>1. ASSUME NEW d \in Call, d # c, phase'[d] = "queued"
        PROVE  d \in effects' /\ KindOf[d] = "apply" /\ progress'[RequestOf[d]] = "running"
    <3>1. d \in effects /\ KindOf[d] = "apply" /\ progress[RequestOf[d]] = "running"
          /\ phase[d] = "queued"
      BY <1>1, <2>1 DEF OnceInv, QueuedRuns
    <3>2. CASE RequestOf[d] # r
      BY <1>1, <3>1, <3>2 DEF OneCallMoves
    <3>3. CASE RequestOf[d] = r
      <4>1. KindOf[c] = "apply"
        BY <3>1, <3>3 DEF PatientClient
      <4>2. ~PastLookup(c)
        BY <3>1, <3>3, <4>1 DEF OnceInv, Fresh
      <4>3. phase[c] # "queued"
        BY <2>1, <3>1, <3>3 DEF OnceInv, QueuedRuns, ExecutedOnce
      <4>4. QED
        BY <3>1, <3>3, <4>2, <4>3 DEF OneCallMoves
    <3>4. QED
      BY <3>2, <3>3
  <2>2. QED
    BY <2>1 DEF QueuedRuns, OneCallMoves
<1>6. Fresh'
  <2>1. ASSUME NEW d \in Call, d # c, PastLookup(d)'
        PROVE  ~HasStored(RequestOf[d])' /\ (KindOf[d] = "apply" => progress'[RequestOf[d]] = "none")
    <3>1. PastLookup(d) /\ RequestOf[d] \in RequestId
      BY <1>1, <2>1 DEF PastLookup, InFlight
    <3>2. ~HasStored(RequestOf[d]) /\ (KindOf[d] = "apply" => progress[RequestOf[d]] = "none")
      BY <3>1 DEF OnceInv, Fresh
    <3>3. CASE RequestOf[d] # r
      BY <1>1, <3>1, <3>2, <3>3
    <3>4. CASE RequestOf[d] = r
      <4>1. KindOf[d] = KindOf[c]
        BY <3>4 DEF PatientClient
      <4>2. QED
        BY <1>2, <2>1, <3>1, <3>2, <3>4, <4>1
    <3>5. QED
      BY <3>3, <3>4
  <2>2. QED
    BY <2>1 DEF Fresh, OneCallMoves
<1>7. ExecutedOnce'
  <2>1. SUFFICES ASSUME NEW d \in effects', NEW e \in effects', d # e,
                        RequestOf[d] = RequestOf[e]
                 PROVE  phase'[d] = "lost" \/ phase'[e] = "lost"
    BY DEF ExecutedOnce
  <2>2. CASE d \in effects /\ e \in effects
    <3>1. phase[d] = "lost" \/ phase[e] = "lost"
      BY <2>1, <2>2 DEF OnceInv, ExecutedOnce
    <3>2. QED
      BY <1>1, <2>2, <3>1 DEF OneCallMoves
  \* A new execution is that of c, and what ran before it for r is lost.
  <2>3. ASSUME NEW f \in effects, f # c, RequestOf[f] = r, PastLookup(c)
        PROVE  phase'[f] = "lost"
    <3>1. phase[f] \in {"waiting", "queued", "done", "lost"} /\ f \in Call
      BY <1>1, <2>3 DEF OnceInv, Settled
    <3>2. phase[f] # "waiting"
      BY <2>3, <3>1 DEF OnceInv, Solo, PastLookup, InFlight
    <3>3. phase[f] # "queued"
      BY <2>3, <3>1 DEF OnceInv, QueuedRuns, Fresh, PatientClient
    <3>4. phase[f] # "done"
      BY <2>3 DEF OnceInv, Settled, Fresh
    <3>5. QED
      BY <1>1, <2>3, <3>1, <3>2, <3>3, <3>4
  <2>4. CASE d \notin effects \/ e \notin effects
    BY <1>1, <2>1, <2>3, <2>4 DEF OneCallMoves
  <2>5. QED
    BY <2>2, <2>4
<1>8. QED
  BY <1>3, <1>4, <1>5, <1>6, <1>7

\* Which requests have an answer on record after a step.
LEMMA StoredUnchanged ==
  ASSUME audit' = audit
  PROVE  \A r \in RequestId : HasStored(r)' <=> HasStored(r)
BY DEF HasStored, Terminal

LEMMA StoredAfterInsert ==
  ASSUME TypeOK, ~AuditMayFail, NEW c \in Call, NEW kind \in {"begin", "end", "deny"},
         NEW outcome \in Outcome, Insert(kind, c, outcome)
  PROVE  \A r \in RequestId :
           HasStored(r)' <=> HasStored(r) \/ (kind # "begin" /\ r = RequestOf[c])
<1> DEFINE row == AuditRow(kind, c, outcome)
<1>1. audit' = Append(audit, row) /\ audit \in Seq(Row) /\ row \in Row
  BY DEF Insert, TypeOK, AuditRow, Row
<1>2. /\ DOMAIN audit' = DOMAIN audit \cup {Len(audit) + 1}
      /\ \A i \in DOMAIN audit : audit'[i] = audit[i]
      /\ audit'[Len(audit) + 1] = row
      /\ Len(audit) + 1 \notin DOMAIN audit
  BY <1>1
<1>3. row.kind = kind /\ row.call = c
  BY DEF AuditRow
<1>4. QED
  BY <1>2, <1>3 DEF HasStored, Terminal

LEMMA HandleOnce ==
  ASSUME PatientClient, OnceInv, NEW c \in Call, Handle(c)
  PROVE  OneCallMoves(c)
<1> USE CallAssumption
<1> DEFINE r == RequestOf[c]
<1>1. /\ TypeOK /\ ~AuditMayFail /\ r \in RequestId
      /\ phase \in [Call -> Phase] /\ progress \in [RequestId -> Progress]
  BY DEF OnceInv, TypeInv, TypeOK, PatientClient
\* c is past its lookup and in effects only while it waits.
<1>2. /\ PastLookup(c) => ~HasStored(r) /\ (KindOf[c] = "apply" => progress[r] = "none")
      /\ c \in effects => phase[c] \in {"waiting", "queued", "done", "lost"}
  BY DEF OnceInv, Fresh, Settled
\* The common ending of an executor.
<1>3. ASSUME NEW outcome \in {"success", "failed"}, NEW status, PastLookup(c),
             Finish(c, outcome, status), UNCHANGED progress,
             effects' \in {effects, effects \cup {c}}
      PROVE  OneCallMoves(c)
  <2>1. \A q \in RequestId : HasStored(q)' <=> HasStored(q) \/ q = r
    BY <1>1, <1>3, StoredAfterInsert DEF Finish, Outcome
  <2>2. phase' = [phase EXCEPT ![c] = "done"]
    BY <1>3 DEF Finish, Respond
  <2>3. QED
    BY <1>1, <1>3, <2>1, <2>2 DEF OneCallMoves, PastLookup, InFlight
\* A step that ends c or moves it on, and records and executes nothing.
<1>4. ASSUME NEW p \in {"done", "authorizing", "authorized", "locked", "checked"},
             InFlight(c), phase[c] # "waiting", phase' = [phase EXCEPT ![c] = p],
             p # "done" => ~HasStored(r) /\ (KindOf[c] = "apply" => progress[r] = "none"),
             UNCHANGED <<audit, progress, effects>>
      PROVE  OneCallMoves(c)
  <2>1. \A q \in RequestId : HasStored(q)' <=> HasStored(q)
    BY <1>4, StoredUnchanged
  <2>2. c \notin effects
    BY <1>2, <1>4 DEF InFlight
  <2>3. QED
    BY <1>1, <1>4, <2>1, <2>2 DEF OneCallMoves, PastLookup, InFlight
<1>5. CASE Reject(c) \/ Replay(c)
  BY <1>4, <1>5 DEF Reject, Replay, Respond, InFlight
<1>6. CASE LookupMiss(c)
  BY <1>4, <1>6 DEF LookupMiss, InFlight
<1>7. CASE Allowed(c) \/ LockUnit(c) \/ PreconditionHolds(c)
  BY <1>2, <1>4, <1>7 DEF Allowed, LockUnit, PreconditionHolds, PastLookup, InFlight
<1>8. CASE PolkitUnavailable(c) \/ PreconditionFails(c)
  BY <1>4, <1>8 DEF PolkitUnavailable, PreconditionFails, Respond, InFlight
<1>9. CASE Denied(c)
  <2>1. \A q \in RequestId : HasStored(q)' <=> HasStored(q) \/ q = r
    BY <1>1, <1>9, StoredAfterInsert DEF Denied, Outcome
  <2>2. QED
    BY <1>1, <1>2, <1>9, <2>1 DEF Denied, Respond, OneCallMoves, PastLookup, InFlight
<1>10. CASE Begin(c)
  <2>1. \A q \in RequestId : HasStored(q)' <=> HasStored(q)
    BY <1>1, <1>10, StoredAfterInsert DEF Begin, Outcome
  <2>2. PastLookup(c) /\ phase[c] # "waiting"
    BY <1>10 DEF Begin, ReadyToBegin, PastLookup, InFlight
  <2>3. QED
    BY <1>1, <1>2, <1>10, <2>1, <2>2 DEF Begin, OneCallMoves, PastLookup, InFlight
\* The executor is called and the call waits for it.
<1>11. ASSUME phase[c] = "begun", phase' = [phase EXCEPT ![c] = "waiting"],
              effects' = effects \cup {c}, UNCHANGED <<audit, progress>>
       PROVE  OneCallMoves(c)
  <2>1. \A q \in RequestId : HasStored(q)' <=> HasStored(q)
    BY <1>11, StoredUnchanged
  <2>2. QED
    BY <1>1, <1>2, <1>11, <2>1 DEF OneCallMoves, PastLookup, InFlight
<1>12. CASE ExecuteService(c)
  BY <1>3, <1>11, <1>12 DEF ExecuteService, PastLookup, InFlight
<1>13. CASE ExecuteDirect(c)
  BY <1>3, <1>11, <1>13 DEF ExecuteDirect, PastLookup, InFlight
<1>15. CASE FinishService(c) \/ FinishDirect(c)
  BY <1>3, <1>15 DEF FinishService, FinishDirect, PastLookup, InFlight
<1>16. CASE StartApply(c)
  <2>1. PastLookup(c) /\ progress[r] = "none" /\ KindOf[c] = "apply"
    BY <1>2, <1>16 DEF StartApply, PastLookup, InFlight
  <2>2. CASE \E status \in {409, 503} : Finish(c, "failed", status)
    <3>1. UNCHANGED <<progress, effects>>
      BY <1>16, <2>2, <1>1 DEF StartApply, Finish, Respond, Phase
    <3>2. QED
      BY <1>3, <2>1, <2>2, <3>1
  <2>3. CASE /\ progress' = [progress EXCEPT ![r] = "running"]
             /\ effects' = effects \cup {c}
             /\ phase' = [phase EXCEPT ![c] = "queued"]
             /\ UNCHANGED audit
    <3>1. \A q \in RequestId : HasStored(q)' <=> HasStored(q)
      BY <2>3, StoredUnchanged
    <3>2. QED
      BY <1>1, <2>1, <2>3, <3>1 DEF OneCallMoves, PastLookup, InFlight
  <2>4. QED
    BY <1>16, <2>1, <2>2, <2>3 DEF StartApply
<1>17. CASE ApplyDone(c)
  <2>1. \A q \in RequestId : HasStored(q)' <=> HasStored(q) \/ q = r
    BY <1>1, <1>17, StoredAfterInsert DEF ApplyDone, Outcome
  <2>2. KindOf[c] = "apply"
    BY <1>17 DEF ApplyDone, OnceInv, QueuedRuns
  <2>3. QED
    BY <1>1, <1>17, <2>1, <2>2 DEF ApplyDone, OneCallMoves, PastLookup, InFlight
<1>18. QED
  BY <1>5, <1>6, <1>7, <1>8, <1>9, <1>10, <1>12, <1>13, <1>15, <1>16, <1>17 DEF Handle

LEMMA StepOnce ==
  ASSUME PatientClient, OnceInv, [Next]_vars
  PROVE  OnceInv'
<1> USE CallAssumption
<1>1. TypeInv' /\ TypeOK
  BY StepType DEF OnceInv, TypeInv
<1>2. ASSUME UNCHANGED <<phase, audit, effects>>,
             \A r \in RequestId : progress[r] = "running" => progress'[r] = "running",
             \A c \in Call : PastLookup(c) => progress'[RequestOf[c]] = progress[RequestOf[c]]
      PROVE  OnceInv'
  <2>1. \A r \in RequestId : HasStored(r)' <=> HasStored(r)
    BY <1>2, StoredUnchanged
  <2>2. \A c \in effects : RequestOf[c] \in RequestId
    BY <1>1 DEF TypeOK
  <2>3. QED
    BY <1>1, <1>2, <2>1, <2>2
       DEF OnceInv, Solo, Settled, QueuedRuns, Fresh, ExecutedOnce, PastLookup, InFlight
<1>3. ASSUME NEW c \in Call, Submit(c)
      PROVE  OnceInv'
  <2>1. \A r \in RequestId : HasStored(r)' <=> HasStored(r)
    BY <1>3, StoredUnchanged DEF Submit
  <2>2. /\ phase[c] = "idle" /\ phase' = [phase EXCEPT ![c] = "received"]
        /\ \A d \in Call : RequestOf[d] = RequestOf[c] => ~InFlight(d)
        /\ UNCHANGED <<progress, effects>>
    BY <1>3 DEF Submit, PatientClient
  <2>3. c \notin effects
    BY <2>2 DEF OnceInv, Settled
  <2>4. Solo'
    BY <1>1, <2>2 DEF OnceInv, Solo, InFlight, TypeOK
  <2>5. Settled'
    BY <1>1, <2>1, <2>2, <2>3 DEF OnceInv, Settled, TypeOK
  <2>6. QueuedRuns' /\ ExecutedOnce'
    BY <1>1, <2>2, <2>3 DEF OnceInv, QueuedRuns, ExecutedOnce, TypeOK
  <2>7. Fresh'
    BY <1>1, <2>1, <2>2 DEF OnceInv, Fresh, PastLookup, InFlight, TypeOK
  <2>8. QED
    BY <1>1, <2>4, <2>5, <2>6, <2>7 DEF OnceInv
<1>4. ASSUME NEW c \in Call, Handle(c)
      PROVE  OnceInv'
  BY <1>1, <1>4, HandleOnce, OneCallKeepsOnce DEF OnceInv
<1>5. CASE \E r \in RequestId : PruneProgress(r)
  <2>1. PICK q \in RequestId : PruneProgress(q)
    BY <1>5
  <2>2. QED
    BY <1>1, <1>2, <2>1 DEF PruneProgress, PastLookup, TypeOK
<1>6. CASE Crash
  <2>1. \A r \in RequestId : HasStored(r)' <=> HasStored(r)
    BY <1>6, StoredUnchanged DEF Crash
  <2>2. \A c \in Call : ~InFlight(c)' /\ phase'[c] # "queued"
    BY <1>6 DEF Crash, InFlight
  <2>3. \A c \in Call : /\ phase[c] \in {"done", "lost"} => phase'[c] = phase[c]
                        /\ phase[c] \in {"waiting", "queued"} => phase'[c] = "lost"
    BY <1>6 DEF Crash, InFlight
  <2>4. Settled' /\ ExecutedOnce'
    BY <1>1, <1>6, <2>1, <2>3 DEF Crash, OnceInv, Settled, ExecutedOnce, TypeOK
  <2>5. Solo' /\ QueuedRuns' /\ Fresh'
    BY <2>2 DEF Solo, QueuedRuns, Fresh, PastLookup
  <2>6. QED
    BY <1>1, <2>4, <2>5 DEF OnceInv
<1>7. CASE \/ \E u \in Unit : RunJob(u) \/ Flip(u)
           \/ Idle \/ UNCHANGED vars
  BY <1>1, <1>2, <1>7 DEF RunJob, Flip, Idle, vars
<1>8. QED
  BY <1>3, <1>4, <1>5, <1>6, <1>7 DEF Next

\* For a client that repeats a request only after an answer, a requestId is
\* executed by one call, and by a second one only when the broker crashed under
\* the first before its end row was written.  The invariant behind it: what ran
\* is waiting, queued with a progress record, on record, or lost; and while a
\* call is past its lookup nothing it looked for has appeared.
THEOREM AtMostOneExecution == PatientClient => (Spec => []ExecutedOnce)
<1>1. Init => OnceInv
  <2>1. Init => Solo /\ Settled /\ QueuedRuns /\ Fresh /\ ExecutedOnce
    BY DEF Init, Solo, Settled, QueuedRuns, Fresh, ExecutedOnce, PastLookup, InFlight
  <2>2. QED
    BY <2>1, InitType DEF OnceInv
<1>2. PatientClient /\ OnceInv /\ [Next]_vars => OnceInv'
  BY StepOnce
<1>3. OnceInv => ExecutedOnce
  BY DEF OnceInv
<1>4. PatientClient => [](PatientClient)
  <2>1. PatientClient => PatientClient'
    BY DEF PatientClient
  <2>2. QED
    BY <2>1, PTL
<1>5. QED
  BY <1>1, <1>2, <1>3, <1>4, PTL DEF Spec

-----------------------------------------------------------------------------
(***************************************************************************)
(* The audit table against what was done, as long as it takes the rows.    *)
(* Every call writes along one path: nothing, then a begin row, then an    *)
(* end row; or a single deny row.                                          *)
(***************************************************************************)
Unstarted == {"idle", "received", "authorizing", "authorized", "locked", "checked"}
Started == {"begun", "waiting", "queued"}

Wrote(kind, c) == \E i \in DOMAIN audit : audit[i].kind = kind /\ audit[i].call = c

\* How far a call has come tells which rows it has written.
RowsMatch ==
  \A c \in Call :
    /\ phase[c] \in Unstarted => ~Wrote("begin", c) /\ ~Wrote("end", c) /\ ~Wrote("deny", c)
    /\ phase[c] \in Started => Wrote("begin", c) /\ ~Wrote("end", c) /\ ~Wrote("deny", c)

\* What a step of c may write, and where it may write it.
Writes(c) ==
  /\ \A d \in Call \ {c} : phase'[d] = phase[d]
  /\ effects' = effects \/ (effects' = effects \cup {c} /\ phase[c] \in Started)
  /\ \/ /\ audit' = audit
        /\ phase'[c] \in Unstarted => phase[c] \in Unstarted
        /\ phase'[c] \in Started => phase[c] \in Started
        /\ phase'[c] = "done" => \/ phase[c] \in Unstarted
                                 \/ /\ phase[c] = "begun" /\ KindOf[c] = "apply"
                                    /\ progress[RequestOf[c]] # "none"
     \/ /\ audit' = Append(audit, AuditRow("begin", c, "pending"))
        /\ phase[c] \in Unstarted /\ phase'[c] = "begun"
     \/ /\ audit' = Append(audit, AuditRow("deny", c, "denied"))
        /\ phase[c] \in Unstarted /\ phase'[c] = "done"
     \/ /\ \E outcome \in {"success", "failed"} : audit' = Append(audit, AuditRow("end", c, outcome))
        /\ phase[c] \in Started /\ phase'[c] = "done"

LEMMA HandleWrites ==
  ASSUME TypeOK, ~AuditMayFail, NEW c \in Call, Handle(c)
  PROVE  Writes(c)
<1> USE DEF Unstarted, Started
<1>1. phase \in [Call -> Phase]
  BY DEF TypeOK
<1>2. ASSUME NEW p \in Phase, phase' = [phase EXCEPT ![c] = p], UNCHANGED <<audit, effects>>,
             phase[c] \in Unstarted, p \in Unstarted \cup {"done"}
      PROVE  Writes(c)
  BY <1>1, <1>2 DEF Writes
<1>3. ASSUME NEW outcome \in {"success", "failed"}, NEW status, Finish(c, outcome, status),
             phase[c] \in Started, effects' \in {effects, effects \cup {c}}
      PROVE  Writes(c)
  BY <1>1, <1>3 DEF Finish, Insert, Respond, Writes
<1>4. ASSUME phase[c] = "begun", phase' = [phase EXCEPT ![c] = "waiting"],
             effects' = effects \cup {c}, UNCHANGED audit
      PROVE  Writes(c)
  BY <1>1, <1>4 DEF Writes
<1>5. CASE Reject(c) \/ Replay(c) \/ LookupMiss(c) \/ Allowed(c) \/ PolkitUnavailable(c)
  BY <1>2, <1>5 DEF Reject, Replay, LookupMiss, Allowed, PolkitUnavailable, Respond, Phase
<1>6. CASE LockUnit(c) \/ PreconditionHolds(c) \/ PreconditionFails(c)
  BY <1>2, <1>6 DEF LockUnit, PreconditionHolds, PreconditionFails, Respond, Phase
<1>7. CASE Denied(c)
  BY <1>1, <1>7 DEF Denied, Insert, Respond, Writes
<1>8. CASE Begin(c)
  BY <1>1, <1>8 DEF Begin, ReadyToBegin, Insert, Writes
<1>9. CASE ExecuteService(c)
  BY <1>3, <1>4, <1>9 DEF ExecuteService
<1>10. CASE ExecuteDirect(c)
  BY <1>3, <1>4, <1>10 DEF ExecuteDirect
<1>11. CASE FinishService(c) \/ FinishDirect(c)
  BY <1>3, <1>11 DEF FinishService, FinishDirect
<1>12. CASE StartApply(c)
  <2>1. CASE \E status \in {409, 503} : Finish(c, "failed", status)
    <3>1. effects' \in {effects, effects \cup {c}}
      BY <1>12 DEF StartApply
    <3>2. QED
      BY <1>3, <1>12, <2>1, <3>1 DEF StartApply
  <2>2. CASE /\ progress[RequestOf[c]] # "none"
             /\ Respond(c, 200, NoCall) /\ UNCHANGED <<audit, effects>>
    BY <1>1, <1>12, <2>2 DEF StartApply, Respond, Writes
  <2>3. CASE /\ effects' = effects \cup {c}
             /\ phase' = [phase EXCEPT ![c] = "queued"]
             /\ UNCHANGED audit
    BY <1>1, <1>12, <2>3 DEF StartApply, Writes
  <2>4. QED
    BY <1>12, <2>1, <2>2, <2>3 DEF StartApply
<1>13. CASE ApplyDone(c)
  BY <1>1, <1>13 DEF ApplyDone, Insert, Writes
<1>14. QED
  BY <1>5, <1>6, <1>7, <1>8, <1>9, <1>10, <1>11, <1>12, <1>13 DEF Handle

\* The table after a row has been added.
LEMMA WroteAfterAppend ==
  ASSUME audit \in Seq(Row), NEW k \in {"begin", "end", "deny"}, NEW c \in Call,
         NEW outcome \in Outcome, audit' = Append(audit, AuditRow(k, c, outcome))
  PROVE  /\ \A kind, d : Wrote(kind, d)' <=> Wrote(kind, d) \/ (kind = k /\ d = c)
         /\ Len(audit) \in Nat
         /\ DOMAIN audit = 1..Len(audit) /\ DOMAIN audit' = 1..(Len(audit) + 1)
         /\ \A i \in DOMAIN audit : audit'[i] = audit[i]
         /\ audit'[Len(audit) + 1].kind = k /\ audit'[Len(audit) + 1].call = c
<1> DEFINE row == AuditRow(k, c, outcome)
<1>1. row \in Row /\ row.kind = k /\ row.call = c
  BY DEF AuditRow, Row
<1>2. /\ Len(audit) \in Nat
      /\ DOMAIN audit = 1..Len(audit) /\ DOMAIN audit' = 1..(Len(audit) + 1)
      /\ \A i \in DOMAIN audit : audit'[i] = audit[i]
      /\ audit'[Len(audit) + 1] = row
  BY <1>1
<1>3. QED
  BY <1>1, <1>2 DEF Wrote

RowsInv == TypeInv /\ RowsMatch /\ AuditCoversEffects

LEMMA WritesKeepRows ==
  ASSUME RowsInv, NEW c \in Call, Writes(c)
  PROVE  RowsMatch' /\ AuditCoversEffects'
<1> USE DEF Unstarted, Started
<1>1. /\ audit \in Seq(Row) /\ phase \in [Call -> Phase] /\ effects \subseteq Call
      /\ RowsMatch /\ AuditCoversEffects
      /\ \A d \in Call \ {c} : phase'[d] = phase[d]
  BY DEF RowsInv, TypeInv, TypeOK, Writes
<1>2. CASE audit' = audit
  <2>1. \A kind, d : Wrote(kind, d)' <=> Wrote(kind, d)
    BY <1>2 DEF Wrote
  <2>2. RowsMatch'
    <3>1. ASSUME NEW d \in Call, phase'[d] \in Unstarted \cup Started
          PROVE  /\ phase'[d] \in Unstarted => phase[d] \in Unstarted
                 /\ phase'[d] \in Started => phase[d] \in Started
      <4>1. CASE d # c
        BY <1>1, <4>1
      <4>2. CASE d = c
        <5>1. audit' # Append(audit, AuditRow("begin", c, "pending"))
          <6>1. AuditRow("begin", c, "pending") \in Row
            BY DEF AuditRow, Row, Outcome
          <6>2. QED
            BY <1>1, <1>2, <6>1
        <5>2. QED
          BY <3>1, <4>2, <5>1 DEF Writes
      <4>3. QED
        BY <4>1, <4>2
    <3>2. QED
      BY <1>1, <2>1, <3>1 DEF RowsMatch
  <2>3. \A d \in effects' : Wrote("begin", d)
    BY <1>1 DEF Writes, RowsMatch, AuditCoversEffects, Wrote
  <2>4. AuditCoversEffects'
    BY <1>1, <1>2, <2>3 DEF AuditCoversEffects, Wrote
  <2>5. QED
    BY <2>2, <2>4
<1>3. ASSUME NEW k \in {"begin", "end", "deny"}, NEW outcome \in Outcome,
             audit' = Append(audit, AuditRow(k, c, outcome)),
             phase'[c] = (IF k = "begin" THEN "begun" ELSE "done"),
             k = "end" => phase[c] \in Started,
             k # "end" => phase[c] \in Unstarted
      PROVE  RowsMatch' /\ AuditCoversEffects'
  <2> DEFINE n == Len(audit)
  <2>1. /\ \A kind, d : Wrote(kind, d)' <=> Wrote(kind, d) \/ (kind = k /\ d = c)
        /\ n \in Nat
        /\ DOMAIN audit = 1..n /\ DOMAIN audit' = 1..(n + 1)
        /\ \A i \in DOMAIN audit : audit'[i] = audit[i]
        /\ audit'[n + 1].kind = k /\ audit'[n + 1].call = c
    BY <1>1, <1>3, WroteAfterAppend
  <2>2. RowsMatch'
    BY <1>1, <1>3, <2>1 DEF RowsMatch
  <2>3. \A d \in effects' : Wrote("begin", d)'
    BY <1>1, <2>1 DEF Writes, RowsMatch, AuditCoversEffects, Wrote
  \* The rows c already has: a begin row if this is an end row, none otherwise.
  <2>4. \A i \in DOMAIN audit : audit[i].call = c => k = "end" /\ audit[i].kind = "begin"
    <3>1. \A i \in DOMAIN audit : audit[i] \in Row
      BY <1>1
    <3>2. \A i \in DOMAIN audit : audit[i].kind \in {"begin", "end", "deny"}
      BY <3>1 DEF Row
    <3>3. QED
      BY <1>1, <1>3, <3>2 DEF RowsMatch, Wrote
  <2>5. k = "end" => \E i \in DOMAIN audit : audit[i].kind = "begin" /\ audit[i].call = c
    BY <1>1, <1>3 DEF RowsMatch, Wrote
  <2>6. ASSUME NEW i \in DOMAIN audit', NEW j \in DOMAIN audit', i # j,
               audit'[i].call = audit'[j].call
        PROVE  {audit'[i].kind, audit'[j].kind} = {"begin", "end"}
    <3>1. CASE i # n + 1 /\ j # n + 1
      <4>1. i \in DOMAIN audit /\ j \in DOMAIN audit
        BY <2>1, <3>1
      <4>2. audit'[i] = audit[i] /\ audit'[j] = audit[j]
        BY <2>1, <4>1
      <4>3. audit[i].call = audit[j].call
        BY <2>6, <4>2
      <4>4. {audit[i].kind, audit[j].kind} = {"begin", "end"}
        BY <1>1, <2>6, <4>1, <4>3 DEF AuditCoversEffects
      <4>5. QED
        BY <4>2, <4>4
    <3>2. CASE i = n + 1
      <4>1. j \in DOMAIN audit /\ audit[j].call = c
        BY <2>1, <2>6, <3>2
      <4>2. audit'[i].kind = "end" /\ audit'[j].kind = "begin"
        BY <2>1, <2>4, <3>2, <4>1
      <4>3. QED
        BY <4>2
    <3>3. CASE j = n + 1
      <4>1. i \in DOMAIN audit /\ audit[i].call = c
        BY <2>1, <2>6, <3>3
      <4>2. audit'[j].kind = "end" /\ audit'[i].kind = "begin"
        BY <2>1, <2>4, <3>3, <4>1
      <4>3. QED
        BY <4>2
    <3>4. QED
      BY <3>1, <3>2, <3>3
  <2>7. ASSUME NEW i \in DOMAIN audit', audit'[i].kind = "end"
        PROVE  \E j \in 1..(i - 1) : audit'[j].kind = "begin" /\ audit'[j].call = audit'[i].call
    <3>1. CASE i # n + 1
      <4>1. i \in DOMAIN audit /\ audit[i].kind = "end"
        BY <2>1, <2>7, <3>1
      <4>2. PICK j \in 1..(i - 1) : audit[j].kind = "begin" /\ audit[j].call = audit[i].call
        BY <1>1, <4>1 DEF AuditCoversEffects
      <4>3. j \in DOMAIN audit
        BY <2>1, <4>1
      <4>4. QED
        BY <2>1, <4>1, <4>2, <4>3
    <3>2. CASE i = n + 1
      <4>1. PICK j \in DOMAIN audit : audit[j].kind = "begin" /\ audit[j].call = c
        BY <2>1, <2>5, <2>7, <3>2
      <4>2. j \in 1..(i - 1)
        BY <2>1, <3>2
      <4>3. QED
        BY <2>1, <3>2, <4>1, <4>2
    <3>3. QED
      BY <3>1, <3>2
  <2>8. AuditCoversEffects'
    BY <2>3, <2>6, <2>7 DEF AuditCoversEffects, Wrote
  <2>9. QED
    BY <2>2, <2>8
<1>4. QED
  BY <1>2, <1>3 DEF Writes, Outcome
LEMMA InitRows == Init => RowsInv
<1> SUFFICES ASSUME Init PROVE RowsInv
  OBVIOUS
<1>1. DOMAIN audit = {} /\ effects = {} /\ \A c \in Call : phase[c] = "idle"
  BY DEF Init
<1>2. RowsMatch
  BY <1>1 DEF RowsMatch, Wrote, Started
<1>3. AuditCoversEffects
  BY <1>1 DEF AuditCoversEffects
<1>4. QED
  BY <1>2, <1>3, InitType DEF RowsInv

\* A step that writes and executes nothing and takes no call over the begin row.
LEMMA RowsUntouched ==
  ASSUME RowsInv, UNCHANGED <<audit, effects>>,
         \A c \in Call : /\ phase'[c] \in Unstarted => phase[c] \in Unstarted
                         /\ phase'[c] \in Started => phase[c] \in Started
  PROVE  RowsMatch' /\ AuditCoversEffects'
<1>1. RowsMatch /\ AuditCoversEffects /\ audit' = audit
  BY DEF RowsInv
<1>2. RowsMatch'
  BY <1>1 DEF RowsMatch, Wrote, Unstarted, Started
<1>3. AuditCoversEffects'
  <2>1. audit' = audit /\ effects' = effects /\ AuditCoversEffects
    BY DEF RowsInv
  <2>2. ASSUME NEW i \in DOMAIN audit', NEW j \in DOMAIN audit', i # j,
               audit'[i].call = audit'[j].call
        PROVE  {audit'[i].kind, audit'[j].kind} = {"begin", "end"}
    <3>1. {audit[i].kind, audit[j].kind} = {"begin", "end"}
      BY <2>1, <2>2 DEF AuditCoversEffects
    <3>2. QED
      BY <2>1, <3>1
  <2>3. /\ \A c \in effects' : \E i \in DOMAIN audit' : audit'[i].kind = "begin" /\ audit'[i].call = c
        /\ \A i \in DOMAIN audit' : audit'[i].kind = "end" =>
             \E j \in 1..(i - 1) : audit'[j].kind = "begin" /\ audit'[j].call = audit'[i].call
    BY <2>1 DEF AuditCoversEffects
  <2>4. QED
    BY <2>2, <2>3, Zenon DEF AuditCoversEffects
<1>4. QED
  BY <1>2, <1>3

LEMMA StepRows ==
  ASSUME ~AuditMayFail, RowsInv, [Next]_vars
  PROVE  RowsInv'
<1>1. TypeInv /\ TypeOK /\ TypeInv' /\ phase \in [Call -> Phase]
  BY StepType DEF RowsInv, TypeInv, TypeOK
<1>2. CASE \E c \in Call : Handle(c)
  BY <1>1, <1>2, HandleWrites, WritesKeepRows DEF RowsInv
<1>3. CASE \E c \in Call : Submit(c)
  BY <1>1, <1>3, RowsUntouched DEF Submit, Unstarted, Started, RowsInv
<1>4. CASE Crash
  <2>1. \A c \in Call : phase'[c] \in {phase[c], "lost"}
    BY <1>4 DEF Crash
  <2>2. QED
    BY <1>1, <1>4, <2>1, RowsUntouched DEF Crash, Unstarted, Started, RowsInv
<1>5. CASE \/ \E r \in RequestId : PruneProgress(r)
           \/ \E u \in Unit : RunJob(u) \/ Flip(u)
           \/ Idle \/ UNCHANGED vars
  <2>1. UNCHANGED <<phase, audit, effects>>
    BY <1>5 DEF PruneProgress, RunJob, Flip, Idle, vars
  <2>2. QED
    BY <1>1, <2>1, RowsUntouched DEF RowsInv
<1>6. QED
  BY <1>2, <1>3, <1>4, <1>5 DEF Next

\* As long as the audit table takes the rows, nothing is executed without a begin
\* row before it, and the rows of a call are a begin row and then an end row, or
\* one deny row: whatever overlaps, is repeated or crashes.
THEOREM NothingGoesUnrecorded == ~AuditMayFail => (Spec => []AuditCoversEffects)
<1>1. ~AuditMayFail /\ RowsInv /\ [Next]_vars => RowsInv'
  BY StepRows
<1>2. RowsInv => AuditCoversEffects
  BY DEF RowsInv
<1>3. ~AuditMayFail => [](~AuditMayFail)
  <2>1. ~AuditMayFail => (~AuditMayFail)'
    OBVIOUS
  <2>2. QED
    BY <2>1, PTL
<1>4. QED
  BY <1>1, <1>2, <1>3, InitRows, PTL DEF Spec

-----------------------------------------------------------------------------
(***************************************************************************)
(* Open begin rows are the evidence of an action that a crash interrupted. *)
(* With overlapping applies they are not: a duplicate that StartApply      *)
(* turns away has written one.  So this rests on the invariant of          *)
(* AtMostOneExecution.                                                     *)
(***************************************************************************)
\* A call that was begun and is done has its end row.
EndedIfDone == \A c \in Call : phase[c] = "done" /\ Wrote("begin", c) => Wrote("end", c)

EvidenceInv == OnceInv /\ RowsInv /\ EndedIfDone

LEMMA StepEvidence ==
  ASSUME PatientClient, EvidenceInv, [Next]_vars
  PROVE  EndedIfDone'
<1>1. /\ TypeOK /\ audit \in Seq(Row) /\ ~AuditMayFail
      /\ OnceInv /\ RowsInv /\ RowsMatch /\ EndedIfDone
  BY DEF EvidenceInv, RowsInv, TypeInv, TypeOK, PatientClient
<1>2. ASSUME NEW c \in Call, Handle(c)
      PROVE  EndedIfDone'
  <2>1. Writes(c)
    BY <1>1, <1>2, HandleWrites
  <2>2. CASE audit' = audit
    <3>1. \A kind, d : Wrote(kind, d)' <=> Wrote(kind, d)
      BY <2>2 DEF Wrote
    <3>2. ASSUME phase'[c] = "done"
          PROVE  phase[c] \in Unstarted
      <4>1. ~(phase[c] = "begun" /\ KindOf[c] = "apply" /\ progress[RequestOf[c]] # "none")
        BY <1>1 DEF OnceInv, Fresh, PastLookup, InFlight
      <4>2. \A k \in {"begin", "end", "deny"}, outcome \in Outcome :
               audit' # Append(audit, AuditRow(k, c, outcome))
        <5>1. \A k \in {"begin", "end", "deny"}, outcome \in Outcome :
                 AuditRow(k, c, outcome) \in Row
          BY DEF AuditRow, Row
        <5>2. \A row \in Row : audit # Append(audit, row)
          BY <1>1
        <5>3. QED
          BY <2>2, <5>1, <5>2
      <4>3. QED
        BY <2>1, <3>2, <4>1, <4>2 DEF Writes, Outcome
    <3>3. phase'[c] = "done" => ~Wrote("begin", c)
      BY <1>1, <3>2 DEF RowsMatch
    <3>4. QED
      BY <1>1, <2>1, <3>1, <3>3 DEF EndedIfDone, Writes
  <2>3. ASSUME NEW k \in {"begin", "end", "deny"}, NEW outcome \in Outcome,
               audit' = Append(audit, AuditRow(k, c, outcome)),
               k = "begin" => phase'[c] = "begun",
               k = "deny" => phase[c] \in Unstarted
        PROVE  EndedIfDone'
    <3>1. \A kind, d : Wrote(kind, d)' <=> Wrote(kind, d) \/ (kind = k /\ d = c)
      BY <1>1, <2>3, WroteAfterAppend
    <3>2. k = "deny" => ~Wrote("begin", c)
      BY <1>1, <2>3 DEF RowsMatch
    <3>3. QED
      BY <1>1, <2>1, <2>3, <3>1, <3>2 DEF EndedIfDone, Writes
  <2>4. QED
    BY <2>1, <2>2, <2>3 DEF Writes, Outcome
<1>3. ASSUME UNCHANGED audit, \A c \in Call : phase'[c] = "done" => phase[c] = "done"
      PROVE  EndedIfDone'
  BY <1>1, <1>3 DEF EndedIfDone, Wrote
<1>4. CASE \E c \in Call : Submit(c)
  BY <1>1, <1>3, <1>4 DEF Submit, TypeOK
<1>5. CASE Crash
  BY <1>3, <1>5 DEF Crash, InFlight
<1>6. CASE \/ \E r \in RequestId : PruneProgress(r)
           \/ \E u \in Unit : RunJob(u) \/ Flip(u)
           \/ Idle \/ UNCHANGED vars
  BY <1>3, <1>6 DEF PruneProgress, RunJob, Flip, Idle, vars
<1>7. QED
  BY <1>2, <1>4, <1>5, <1>6 DEF Next

\* For a patient client a begin row without an end row is exactly what recovery takes
\* it for: its action is still under way, or a crash cut it short.
THEOREM OpenMeansUnfinished == PatientClient => (Spec => []OpenRowsAreEvidence)
<1>1. Init => EvidenceInv
  <2>1. Init => OnceInv
    <3>1. Init => Solo /\ Settled /\ QueuedRuns /\ Fresh /\ ExecutedOnce
      BY DEF Init, Solo, Settled, QueuedRuns, Fresh, ExecutedOnce, PastLookup, InFlight
    <3>2. QED
      BY <3>1, InitType DEF OnceInv
  <2>2. Init => EndedIfDone
    BY DEF Init, EndedIfDone
  <2>3. QED
    BY <2>1, <2>2, InitRows DEF EvidenceInv
<1>2. PatientClient /\ EvidenceInv /\ [Next]_vars => EvidenceInv'
  BY StepEvidence, StepOnce, StepRows DEF EvidenceInv, PatientClient
<1>3. EvidenceInv => OpenRowsAreEvidence
  <2>1. SUFFICES ASSUME EvidenceInv, NEW i \in DOMAIN audit, OpenRow(i)
                 PROVE  phase[audit[i].call] # "done"
    BY DEF OpenRowsAreEvidence
  <2>2. audit[i] \in Row
    BY <2>1 DEF EvidenceInv, OnceInv, TypeInv, TypeOK
  <2>3. audit[i].call \in Call /\ Wrote("begin", audit[i].call) /\ ~Wrote("end", audit[i].call)
    BY <2>1, <2>2 DEF Row, OpenRow, Wrote
  <2>4. QED
    BY <2>1, <2>3 DEF EvidenceInv, EndedIfDone
<1>4. PatientClient => [](PatientClient)
  <2>1. PatientClient => PatientClient'
    BY DEF PatientClient
  <2>2. QED
    BY <2>1, PTL
<1>5. QED
  BY <1>1, <1>2, <1>3, <1>4, PTL DEF Spec

-----------------------------------------------------------------------------
(***************************************************************************)
(* A package apply is never carried out twice.  The lookup alone does not  *)
(* see to that: the end row comes late or, when its INSERT fails, never.   *)
(* The progress map covers the time from the start of the apply on, and a  *)
(* record is only forgotten when nobody is under way who has missed it.    *)
(***************************************************************************)
Applied(c) == c \in effects /\ KindOf[c] = "apply"

\* One apply of a request is with the worker at a time.
OneRunning ==
  \A c, d \in Call :
    phase[c] = "queued" /\ phase[d] = "queued" /\ RequestOf[c] = RequestOf[d] => c = d

AppliesMatch ==
  \A c \in Call :
    /\ Applied(c) => phase[c] \in {"queued", "done", "lost"}
    /\ Wrote("end", c) => phase[c] = "done"

\* Once an apply is on record as done, no other call of its request can start one.
NoOther(c) ==
  \A d \in Call \ {c} : RequestOf[d] = RequestOf[c] /\ KindOf[d] = "apply" =>
    /\ phase[d] # "queued"
    /\ PastLookup(d) => progress[RequestOf[c]] # "none"
    /\ ~(Applied(d) /\ Wrote("end", d))

ApplyInv ==
  /\ TypeInv /\ QueuedRuns /\ OneRunning /\ AppliesMatch
  /\ \A c \in Call : Applied(c) /\ Wrote("end", c) => NoOther(c)

\* What a step of one call does to the parts of ApplyInv.
ApplyMoves(c) ==
  LET r == RequestOf[c] IN
  /\ \A d \in Call \ {c} : phase'[d] = phase[d]
  /\ \A q \in RequestId \ {r} : progress'[q] = progress[q]
  /\ \A d \in Call \ {c} : Wrote("end", d)' <=> Wrote("end", d)
  /\ Wrote("end", c)' => Wrote("end", c) \/ phase'[c] = "done"
  /\ phase[c] \notin {"done", "lost"}
  /\ PastLookup(c)' => PastLookup(c) \/ ~HasStored(r)
  /\ \/ /\ phase[c] # "queued" /\ phase'[c] # "queued"
        /\ progress' = progress
        /\ effects' = effects \/ (effects' = effects \cup {c} /\ KindOf[c] # "apply")
     \/ /\ phase[c] = "begun" /\ phase'[c] = "queued" /\ KindOf[c] = "apply"
        /\ progress[r] = "none" /\ progress'[r] = "running"
        /\ effects' = effects \cup {c}
     \/ /\ phase[c] = "queued" /\ phase'[c] = "done"
        /\ progress'[r] \in {"success", "failed"}
        /\ effects' = effects

LEMMA EndRowsAfter ==
  ASSUME TypeOK, NEW c \in Call, NEW kind \in {"begin", "end", "deny"}, NEW outcome \in Outcome,
         audit' = audit \/ Insert(kind, c, outcome)
  PROVE  /\ \A d \in Call \ {c} : Wrote("end", d)' <=> Wrote("end", d)
         /\ kind # "end" => (Wrote("end", c)' <=> Wrote("end", c))
<1>1. CASE audit' = audit
  BY <1>1 DEF Wrote
<1>2. CASE audit' = Append(audit, AuditRow(kind, c, outcome))
  BY <1>2, WroteAfterAppend DEF TypeOK
<1>3. QED
  BY <1>1, <1>2 DEF Insert

LEMMA HandleApplies ==
  ASSUME ApplyInv, NEW c \in Call, Handle(c)
  PROVE  ApplyMoves(c)
<1> USE CallAssumption
<1> DEFINE r == RequestOf[c]
<1>1. /\ TypeOK /\ r \in RequestId /\ QueuedRuns
      /\ phase \in [Call -> Phase] /\ progress \in [RequestId -> Progress]
  BY DEF ApplyInv, TypeInv, TypeOK
<1>2. ASSUME NEW p \in Phase, phase' = [phase EXCEPT ![c] = p], UNCHANGED <<audit, progress, effects>>,
             InFlight(c), p # "queued", p = "authorizing" => ~HasStored(r),
             phase[c] = "received" => p \in {"authorizing", "done"}
      PROVE  ApplyMoves(c)
  <2>1. \A d \in Call : Wrote("end", d)' <=> Wrote("end", d)
    BY <1>2 DEF Wrote
  <2>2. QED
    BY <1>1, <1>2, <2>1 DEF ApplyMoves, PastLookup, InFlight
<1>3. ASSUME NEW outcome \in {"success", "failed"}, NEW status, Finish(c, outcome, status),
             phase[c] \in {"begun", "waiting"}, UNCHANGED progress,
             \/ effects' = effects
             \/ effects' = effects \cup {c} /\ KindOf[c] # "apply"
      PROVE  ApplyMoves(c)
  <2>1. \A d \in Call \ {c} : Wrote("end", d)' <=> Wrote("end", d)
    BY <1>1, <1>3, EndRowsAfter DEF Finish, Outcome
  <2>2. QED
    BY <1>1, <1>3, <2>1 DEF ApplyMoves, Finish, Respond, PastLookup, InFlight
<1>4. ASSUME phase[c] = "begun", phase' = [phase EXCEPT ![c] = "waiting"],
             effects' = effects \cup {c}, KindOf[c] # "apply", UNCHANGED <<audit, progress>>
      PROVE  ApplyMoves(c)
  <2>1. \A d \in Call : Wrote("end", d)' <=> Wrote("end", d)
    BY <1>4 DEF Wrote
  <2>2. QED
    BY <1>1, <1>4, <2>1 DEF ApplyMoves, PastLookup, InFlight
<1>5. CASE Reject(c) \/ Replay(c) \/ LookupMiss(c) \/ Allowed(c) \/ PolkitUnavailable(c)
  BY <1>1, <1>2, <1>5
     DEF Reject, Replay, LookupMiss, Allowed, PolkitUnavailable, Respond, Phase, InFlight
<1>6. CASE LockUnit(c) \/ PreconditionHolds(c) \/ PreconditionFails(c)
  BY <1>1, <1>2, <1>6 DEF LockUnit, PreconditionHolds, PreconditionFails, Respond, Phase, InFlight
<1>7. CASE Denied(c)
  <2>1. \A d \in Call : Wrote("end", d)' <=> Wrote("end", d)
    BY <1>1, <1>7, EndRowsAfter DEF Denied, Outcome
  <2>2. QED
    BY <1>1, <1>7, <2>1 DEF Denied, Respond, ApplyMoves, PastLookup, InFlight
<1>8. CASE Begin(c)
  <2>1. \A d \in Call : Wrote("end", d)' <=> Wrote("end", d)
    BY <1>1, <1>8, EndRowsAfter DEF Begin, Outcome
  <2>2. QED
    BY <1>1, <1>8, <2>1 DEF Begin, ReadyToBegin, ApplyMoves, PastLookup, InFlight
<1>9. CASE ExecuteService(c)
  BY <1>3, <1>4, <1>9 DEF ExecuteService
<1>10. CASE ExecuteDirect(c)
  BY <1>3, <1>4, <1>10 DEF ExecuteDirect
<1>11. CASE FinishService(c) \/ FinishDirect(c)
  BY <1>3, <1>11 DEF FinishService, FinishDirect
<1>12. CASE StartApply(c)
  <2>1. CASE \E status \in {409, 503} : Finish(c, "failed", status)
    <3>1. UNCHANGED <<progress, effects>>
      BY <1>1, <1>12, <2>1 DEF StartApply, Finish, Respond, Phase
    <3>2. QED
      BY <1>3, <1>12, <2>1, <3>1 DEF StartApply
  <2>2. CASE Respond(c, 200, NoCall) /\ UNCHANGED <<audit, progress, effects>>
    BY <1>1, <1>2, <1>12, <2>2 DEF StartApply, Respond, Phase, InFlight
  <2>3. CASE /\ progress[r] = "none"
             /\ progress' = [progress EXCEPT ![r] = "running"]
             /\ effects' = effects \cup {c}
             /\ phase' = [phase EXCEPT ![c] = "queued"]
             /\ UNCHANGED audit
    <3>1. \A d \in Call : Wrote("end", d)' <=> Wrote("end", d)
      BY <2>3 DEF Wrote
    <3>2. QED
      BY <1>1, <1>12, <2>3, <3>1 DEF StartApply, ApplyMoves, PastLookup, InFlight
  <2>4. QED
    BY <1>12, <2>1, <2>2, <2>3 DEF StartApply
<1>13. CASE ApplyDone(c)
  <2>1. \A d \in Call \ {c} : Wrote("end", d)' <=> Wrote("end", d)
    BY <1>1, <1>13, EndRowsAfter DEF ApplyDone, Outcome
  <2>2. QED
    BY <1>1, <1>13, <2>1 DEF ApplyDone, ApplyMoves, PastLookup, InFlight
<1>14. QED
  BY <1>5, <1>6, <1>7, <1>8, <1>9, <1>10, <1>11, <1>12, <1>13 DEF Handle
LEMMA ApplyMovesKeep ==
  ASSUME ApplyInv, NEW c \in Call, ApplyMoves(c)
  PROVE  /\ QueuedRuns' /\ OneRunning' /\ AppliesMatch'
         /\ \A e \in Call : Applied(e)' /\ Wrote("end", e)' => NoOther(e)'
<1> USE CallAssumption
<1> DEFINE r == RequestOf[c]
<1>1. /\ TypeOK /\ r \in RequestId /\ effects \subseteq Call
      /\ QueuedRuns /\ OneRunning /\ AppliesMatch
      /\ \A d \in Call : RequestOf[d] \in RequestId
  BY DEF ApplyInv, TypeInv, TypeOK
<1>2. /\ \A d \in Call \ {c} : phase'[d] = phase[d]
      /\ \A q \in RequestId \ {r} : progress'[q] = progress[q]
      /\ \A d \in Call \ {c} : Wrote("end", d)' <=> Wrote("end", d)
      /\ Wrote("end", c)' => Wrote("end", c) \/ phase'[c] = "done"
      /\ phase[c] \notin {"done", "lost"}
      /\ \A d \in Call \ {c} : Applied(d)' <=> Applied(d)
      /\ \A d \in Call \ {c} : PastLookup(d)' <=> PastLookup(d)
  BY DEF ApplyMoves, Applied, PastLookup, InFlight
\* Only an apply that has been with the worker is on record as applied.
<1>3. Applied(c)' /\ Wrote("end", c)' => phase[c] = "queued" /\ progress'[r] \in {"success", "failed"}
  BY <1>1, <1>2 DEF ApplyMoves, Applied, AppliesMatch
<1>4. QueuedRuns' /\ OneRunning'
  BY <1>1, <1>2 DEF ApplyMoves, QueuedRuns, OneRunning
<1>5. AppliesMatch'
  BY <1>1, <1>2 DEF ApplyMoves, AppliesMatch, Applied
<1>6. ASSUME NEW e \in Call, Applied(e)', Wrote("end", e)'
      PROVE  NoOther(e)'
  <2>1. CASE e = c
    <3>1. ASSUME NEW d \in Call \ {c}, RequestOf[d] = r, KindOf[d] = "apply"
          PROVE  ~(Applied(d) /\ Wrote("end", d)) /\ phase[d] # "queued"
      BY <1>1, <1>3, <1>6, <2>1, <3>1 DEF ApplyInv, NoOther, OneRunning, QueuedRuns
    <3>2. QED
      BY <1>2, <1>3, <1>6, <2>1, <3>1 DEF NoOther
  <2>2. CASE e # c
    <3>1. NoOther(e) /\ Applied(e) /\ Wrote("end", e)
      BY <1>2, <1>6, <2>2 DEF ApplyInv
    <3>2. CASE RequestOf[e] # r
      <4>1. progress'[RequestOf[e]] = progress[RequestOf[e]]
        BY <1>1, <1>2, <3>2
      <4>2. QED
        BY <1>2, <2>2, <3>1, <3>2, <4>1 DEF NoOther
    <3>3. CASE RequestOf[e] = r /\ KindOf[c] # "apply"
      <4>1. progress'[r] = progress[r]
        BY <1>1, <3>3 DEF ApplyMoves, QueuedRuns
      <4>2. QED
        BY <1>2, <2>2, <3>1, <3>3, <4>1 DEF NoOther
    <3>4. CASE RequestOf[e] = r /\ KindOf[c] = "apply"
      <4>1. /\ phase[c] # "queued" /\ PastLookup(c) => progress[r] # "none"
        BY <2>2, <3>1, <3>4 DEF NoOther
      <4>2. HasStored(r)
        BY <3>1, <3>4 DEF HasStored, Terminal, Wrote
      <4>3. phase[c] # "begun" \/ progress[r] # "none"
        BY <4>1 DEF PastLookup, InFlight
      <4>4. phase[c] # "queued"
        BY <2>2, <3>1, <3>4 DEF NoOther
      <4>5. phase'[c] # "queued" /\ progress' = progress
        BY <4>3, <4>4 DEF ApplyMoves
      <4>6. PastLookup(c)' => progress'[r] # "none"
        BY <2>2, <3>1, <3>4, <4>2, <4>5 DEF ApplyMoves, NoOther
      <4>7. ~(Applied(c)' /\ Wrote("end", c)')
        BY <1>3, <4>4
      <4>8. QED
        BY <1>2, <2>2, <3>1, <3>4, <4>5, <4>6, <4>7 DEF NoOther
    <3>5. QED
      BY <3>2, <3>3, <3>4
  <2>3. QED
    BY <2>1, <2>2
<1>7. QED
  BY <1>4, <1>5, <1>6

LEMMA StepApplies ==
  ASSUME ApplyInv, [Next]_vars
  PROVE  ApplyInv'
<1> USE CallAssumption
<1>1. TypeInv' /\ TypeOK
  BY StepType DEF ApplyInv, TypeInv
<1>2. CASE \E c \in Call : Handle(c)
  BY <1>1, <1>2, HandleApplies, ApplyMovesKeep DEF ApplyInv
\* The other steps write no row and execute nothing.
<1>3. ASSUME UNCHANGED <<audit, effects>>,
             \A c \in Call : phase'[c] \in {phase[c], "received", "lost"},
             \A c \in Call : phase'[c] = "received" => phase[c] \in {"idle", "received"},
             \A c \in Call : phase[c] = "done" => phase'[c] = "done",
             \A c \in Call : phase'[c] = "queued" \/ PastLookup(c)' =>
               progress'[RequestOf[c]] = progress[RequestOf[c]]
      PROVE  ApplyInv'
  <2>1. QueuedRuns /\ OneRunning /\ AppliesMatch
    BY DEF ApplyInv
  <2>2. \A c \in Call : (Wrote("end", c)' <=> Wrote("end", c)) /\ (Applied(c)' <=> Applied(c))
    BY <1>3 DEF Wrote, Applied
  <2>3. \A c \in Call : (PastLookup(c)' => PastLookup(c)) /\ (phase'[c] = "queued" => phase[c] = "queued")
    BY <1>3 DEF PastLookup, InFlight
  <2>4. QueuedRuns' /\ OneRunning'
    BY <1>3, <2>1, <2>3 DEF QueuedRuns, OneRunning
  <2>5. AppliesMatch'
    BY <1>3, <2>1, <2>2 DEF AppliesMatch
  <2>6. \A e \in Call : Applied(e)' /\ Wrote("end", e)' => NoOther(e)'
    BY <1>3, <2>2, <2>3 DEF ApplyInv, NoOther
  <2>7. QED
    BY <1>1, <2>4, <2>5, <2>6 DEF ApplyInv
<1>4. CASE \E c \in Call : Submit(c)
  BY <1>1, <1>3, <1>4 DEF Submit, PastLookup, InFlight, TypeOK
<1>5. CASE \E q \in RequestId : PruneProgress(q)
  <2>1. PICK q \in RequestId : PruneProgress(q)
    BY <1>5
  <2>2. \A c \in Call : PastLookup(c) \/ phase[c] = "queued" => RequestOf[c] # q
    BY <2>1 DEF PruneProgress, PastLookup, ApplyInv, QueuedRuns
  <2>3. \A c \in Call : RequestOf[c] # q => progress'[RequestOf[c]] = progress[RequestOf[c]]
    BY <1>1, <2>1 DEF PruneProgress, TypeOK
  <2>4. QED
    BY <1>1, <1>3, <2>1, <2>2, <2>3 DEF PruneProgress, PastLookup, InFlight
<1>6. CASE Crash
  <2>1. \A c \in Call : /\ phase'[c] \in {phase[c], "lost"}
                        /\ ~InFlight(c)' /\ phase'[c] # "queued"
                        /\ phase[c] = "done" => phase'[c] = "done"
                        /\ phase'[c] = "received" => phase[c] = "received"
    BY <1>6 DEF Crash, InFlight
  <2>2. QED
    BY <1>3, <1>6, <2>1 DEF Crash, PastLookup
<1>7. CASE \/ \E u \in Unit : RunJob(u) \/ Flip(u)
           \/ Idle \/ UNCHANGED vars
  BY <1>3, <1>7 DEF RunJob, Flip, Idle, vars
<1>8. QED
  BY <1>2, <1>4, <1>5, <1>6, <1>7 DEF Next

\* A package apply is on record as carried out for one call at most, however often its
\* request is repeated, with answers overtaken, INSERTs failing and the broker dying
\* at any step.
THEOREM AppliesRunOnce == Spec => []AppliedOnce
<1>1. Init => ApplyInv
  <2>1. Init => QueuedRuns /\ OneRunning
    BY DEF Init, QueuedRuns, OneRunning
  <2>2. Init => \A c \in Call : ~Applied(c) /\ ~Wrote("end", c)
    BY DEF Init, Applied, Wrote
  <2>3. QED
    BY <2>1, <2>2, InitType DEF ApplyInv, AppliesMatch
<1>2. ApplyInv /\ [Next]_vars => ApplyInv'
  BY StepApplies
<1>3. ApplyInv => AppliedOnce
  <2>1. SUFFICES ASSUME ApplyInv, NEW i \in DOMAIN audit, NEW j \in DOMAIN audit,
                        audit[i].kind = "end", audit[j].kind = "end",
                        {audit[i].call, audit[j].call} \subseteq effects,
                        KindOf[audit[i].call] = "apply", KindOf[audit[j].call] = "apply",
                        RequestOf[audit[i].call] = RequestOf[audit[j].call]
                 PROVE  audit[i].call = audit[j].call
    BY DEF AppliedOnce
  <2>2. audit[i].call \in Call /\ audit[j].call \in Call
    BY <2>1 DEF ApplyInv, TypeInv, TypeOK
  <2>3. /\ Applied(audit[i].call) /\ Wrote("end", audit[i].call)
        /\ Applied(audit[j].call) /\ Wrote("end", audit[j].call)
    BY <2>1 DEF Applied, Wrote
  <2>4. QED
    BY <2>1, <2>2, <2>3 DEF ApplyInv, NoOther
<1>4. QED
  BY <1>1, <1>2, <1>3, PTL DEF Spec

-----------------------------------------------------------------------------
(***************************************************************************)
(* Whose result a request is answered with.  The answer to an apply is     *)
(* given before there is a result, and a crash makes the client's next     *)
(* attempt a new one: so either there is no crash or there is no apply.    *)
(***************************************************************************)
AnswersAreResults == ~MayCrash \/ \A c \in Call : KindOf[c] # "apply"

\* Every result that was reported is the one on record, or will be.
Attributed ==
  \A c \in Call :
    LET from == reply[c].from r == RequestOf[c] IN
    from # NoCall => \/ HasStored(r) /\ StoredRow(r).call = from
                     \/ phase[c] = "queued" /\ from = c

\* Nothing is on record while the worker still has the apply.
QueuedIsOpen == \A c \in Call : phase[c] = "queued" => ~HasStored(RequestOf[c])

ReplyInv == OnceInv /\ Attributed /\ QueuedIsOpen

\* What a step of c answers, and what it writes.
Answers(c) ==
  LET r == RequestOf[c] IN
  /\ \A d \in Call \ {c} : phase'[d] = phase[d] /\ reply'[d] = reply[d]
  /\ \/ /\ audit' = audit
        /\ \/ reply'[c] = reply[c] /\ phase[c] # "queued" /\ phase'[c] # "queued"
           \/ reply'[c].from = NoCall /\ phase'[c] # "queued"
           \/ HasStored(r) /\ reply'[c].from = StoredRow(r).call /\ phase'[c] # "queued"
           \/ phase'[c] = "queued" /\ reply'[c].from = c /\ PastLookup(c)
     \/ \E row \in Row :
          /\ audit' = Append(audit, row) /\ row.call = c /\ row.kind = "begin"
          /\ reply'[c] = reply[c] /\ phase[c] # "queued" /\ phase'[c] # "queued"
     \/ \E row \in Row :
          /\ audit' = Append(audit, row) /\ row.call = c /\ row.kind # "begin"
          /\ phase'[c] = "done" /\ (PastLookup(c) \/ phase[c] = "queued")
          /\ reply'[c].from = c \/ (reply'[c] = reply[c] /\ phase[c] = "queued")

LEMMA HandleAnswers ==
  ASSUME TypeInv, ~AuditMayFail, NEW c \in Call, Handle(c)
  PROVE  Answers(c)
<1> DEFINE r == RequestOf[c]
<1>1. /\ TypeOK /\ phase \in [Call -> Phase] /\ reply \in [Call -> Reply]
  BY DEF TypeInv, TypeOK
<1>2. ASSUME NEW p \in Phase, phase' = [phase EXCEPT ![c] = p], UNCHANGED <<audit, reply>>,
             p # "queued", phase[c] # "queued"
      PROVE  Answers(c)
  BY <1>1, <1>2 DEF Answers
<1>3. ASSUME NEW status, Respond(c, status, NoCall), UNCHANGED audit
      PROVE  Answers(c)
  BY <1>1, <1>3 DEF Answers, Respond
<1>4. ASSUME NEW outcome \in {"success", "failed", "denied"}, NEW kind \in {"end", "deny"}, NEW status,
             Insert(kind, c, outcome), Respond(c, status, c), PastLookup(c)
      PROVE  Answers(c)
  <2>1. AuditRow(kind, c, outcome) \in Row /\ audit' = Append(audit, AuditRow(kind, c, outcome))
    BY <1>4 DEF AuditRow, Row, Outcome, Insert
  <2>2. AuditRow(kind, c, outcome).call = c /\ AuditRow(kind, c, outcome).kind # "begin"
    BY DEF AuditRow
  <2>3. QED
    BY <1>1, <1>4, <2>1, <2>2 DEF Answers, Respond
<1>5. ASSUME NEW outcome \in {"success", "failed"}, NEW status, Finish(c, outcome, status), PastLookup(c)
      PROVE  Answers(c)
  BY <1>4, <1>5 DEF Finish
<1>6. CASE Reject(c)
  BY <1>3, <1>6 DEF Reject
<1>7. CASE Replay(c)
  <2>1. CASE HasStored(r) /\ Respond(c, StatusOf(StoredRow(r).outcome), StoredRow(r).call)
    BY <1>1, <1>7, <2>1 DEF Replay, Respond, Answers
  <2>2. CASE Respond(c, 200, NoCall)
    BY <1>3, <1>7, <2>2 DEF Replay
  <2>3. QED
    BY <1>7, <2>1, <2>2 DEF Replay
<1>8. CASE LookupMiss(c) \/ Allowed(c) \/ LockUnit(c) \/ PreconditionHolds(c)
  BY <1>2, <1>8 DEF LookupMiss, Allowed, LockUnit, PreconditionHolds, Phase
<1>9. CASE PolkitUnavailable(c) \/ PreconditionFails(c)
  BY <1>3, <1>9 DEF PolkitUnavailable, PreconditionFails
<1>10. CASE Denied(c)
  BY <1>4, <1>10 DEF Denied, PastLookup, InFlight
<1>11. CASE Begin(c)
  <2>1. AuditRow("begin", c, "pending") \in Row /\ audit' = Append(audit, AuditRow("begin", c, "pending"))
    BY <1>11 DEF AuditRow, Row, Outcome, Begin, Insert
  <2>2. AuditRow("begin", c, "pending").call = c /\ AuditRow("begin", c, "pending").kind = "begin"
    BY DEF AuditRow
  <2>3. QED
    BY <1>1, <1>11, <2>1, <2>2 DEF Answers, Begin, ReadyToBegin
<1>12. CASE ExecuteService(c)
  BY <1>2, <1>5, <1>12 DEF ExecuteService, Phase, PastLookup, InFlight
<1>13. CASE ExecuteDirect(c)
  BY <1>2, <1>5, <1>13 DEF ExecuteDirect, Phase, PastLookup, InFlight
<1>14. CASE FinishService(c) \/ FinishDirect(c)
  BY <1>5, <1>14 DEF FinishService, FinishDirect, PastLookup, InFlight
<1>15. CASE StartApply(c)
  <2>1. PastLookup(c)
    BY <1>15 DEF StartApply, PastLookup, InFlight
  <2>2. CASE \E status \in {409, 503} : Finish(c, "failed", status)
    BY <1>5, <2>1, <2>2
  <2>3. CASE Respond(c, 200, NoCall) /\ UNCHANGED audit
    BY <1>3, <2>3
  <2>4. CASE /\ phase' = [phase EXCEPT ![c] = "queued"]
             /\ reply' = [reply EXCEPT ![c] = [status |-> 200, from |-> c]]
             /\ UNCHANGED audit
    BY <1>1, <2>1, <2>4 DEF Answers
  <2>5. QED
    BY <1>15, <2>2, <2>3, <2>4 DEF StartApply
<1>16. CASE ApplyDone(c)
  <2>1. PICK outcome \in {"success", "failed"} : Insert("end", c, outcome)
    BY <1>16 DEF ApplyDone
  <2>2. AuditRow("end", c, outcome) \in Row /\ audit' = Append(audit, AuditRow("end", c, outcome))
    BY <2>1 DEF AuditRow, Row, Outcome, Insert
  <2>3. AuditRow("end", c, outcome).call = c /\ AuditRow("end", c, outcome).kind # "begin"
    BY DEF AuditRow
  <2>4. QED
    BY <1>1, <1>16, <2>2, <2>3 DEF Answers, ApplyDone
<1>17. QED
  BY <1>6, <1>7, <1>8, <1>9, <1>10, <1>11, <1>12, <1>13, <1>14, <1>15, <1>16 DEF Handle

\* The first row for a request is what it is answered with from then on.
LEMMA FirstAnswer ==
  ASSUME audit \in Seq(Row), NEW row \in Row, audit' = Append(audit, row), row.kind # "begin",
         ~HasStored(RequestOf[row.call])
  PROVE  HasStored(RequestOf[row.call])' /\ StoredRow(RequestOf[row.call])' = row
<1> DEFINE r == RequestOf[row.call]
<1>1. /\ Len(audit) \in Nat
      /\ DOMAIN audit = 1..Len(audit) /\ DOMAIN audit' = 1..(Len(audit) + 1)
      /\ \A i \in DOMAIN audit : audit'[i] = audit[i]
      /\ audit'[Len(audit) + 1] = row
  OBVIOUS
<1>2. Terminal(r)' = {Len(audit) + 1}
  BY <1>1 DEF HasStored, Terminal
<1>3. (CHOOSE i \in Terminal(r)' : \A j \in Terminal(r)' : i <= j) = Len(audit) + 1
  BY <1>1, <1>2
<1>4. QED
  BY <1>1, <1>2, <1>3 DEF HasStored, StoredRow
\* Rows of other requests and begin rows answer nothing.
LEMMA NoNewAnswer ==
  ASSUME audit \in Seq(Row), NEW row \in Row, audit' = Append(audit, row), NEW r \in RequestId,
         row.kind = "begin" \/ RequestOf[row.call] # r
  PROVE  HasStored(r)' <=> HasStored(r)
<1>1. /\ Len(audit) \in Nat
      /\ DOMAIN audit = 1..Len(audit) /\ DOMAIN audit' = 1..(Len(audit) + 1)
      /\ \A i \in DOMAIN audit : audit'[i] = audit[i]
      /\ audit'[Len(audit) + 1] = row
  OBVIOUS
<1>2. QED
  BY <1>1 DEF HasStored, Terminal

LEMMA AnswersKeep ==
  ASSUME PatientClient, OnceInv, QueuedIsOpen, NEW c \in Call, Answers(c)
  PROVE  QueuedIsOpen' /\ (Attributed => Attributed')
<1> USE CallAssumption
<1> DEFINE r == RequestOf[c]
<1>1. /\ TypeOK /\ audit \in Seq(Row) /\ FirstRowExists
      /\ \A d \in Call : RequestOf[d] \in RequestId
      /\ \A d \in Call \ {c} : phase'[d] = phase[d] /\ reply'[d] = reply[d]
  BY DEF OnceInv, TypeInv, TypeOK, Answers
<1>2. PastLookup(c) \/ phase[c] = "queued" => ~HasStored(r)
  BY <1>1 DEF OnceInv, Fresh, QueuedIsOpen
\* Whoever is past the lookup or queued is the only such call of its request.
<1>3. ASSUME NEW d \in Call \ {c}, RequestOf[d] = r, phase[d] = "queued",
             PastLookup(c) \/ phase[c] = "queued"
      PROVE  FALSE
  <2>1. d \in effects /\ KindOf[d] = "apply" /\ progress[r] = "running"
    BY <1>1, <1>3 DEF OnceInv, QueuedRuns
  <2>2. KindOf[c] = "apply"
    BY <1>3, <2>1 DEF PatientClient
  <2>3. phase[c] = "queued" => c \in effects
    BY <1>1 DEF OnceInv, QueuedRuns
  <2>4. QED
    BY <1>1, <1>3, <2>1, <2>2, <2>3 DEF OnceInv, Fresh, ExecutedOnce
<1>4. CASE audit' = audit
  <2>1. \A q \in RequestId : (HasStored(q)' <=> HasStored(q)) /\ StoredRow(q)' = StoredRow(q)
    BY <1>4 DEF HasStored, StoredRow, Terminal
  <2>2. \/ reply'[c] = reply[c] /\ phase[c] # "queued" /\ phase'[c] # "queued"
        \/ reply'[c].from = NoCall /\ phase'[c] # "queued"
        \/ HasStored(r) /\ reply'[c].from = StoredRow(r).call /\ phase'[c] # "queued"
        \/ phase'[c] = "queued" /\ reply'[c].from = c /\ PastLookup(c)
    <3>1. \A row \in Row : audit # Append(audit, row)
      BY <1>1
    <3>2. QED
      BY <1>4, <3>1 DEF Answers
  <2>3. Attributed => Attributed'
    BY <1>1, <2>1, <2>2 DEF Attributed
  <2>4. QueuedIsOpen'
    BY <1>1, <1>2, <2>1, <2>2 DEF QueuedIsOpen
  <2>5. QED
    BY <2>3, <2>4
<1>5. ASSUME NEW row \in Row, audit' = Append(audit, row), row.call = c, row.kind = "begin",
             reply'[c] = reply[c], phase[c] # "queued", phase'[c] # "queued"
      PROVE  QueuedIsOpen' /\ (Attributed => Attributed')
  <2>1. \A q \in RequestId : HasStored(q)' <=> HasStored(q)
    BY <1>1, <1>5, NoNewAnswer
  <2>2. \A q \in RequestId : HasStored(q) => StoredRow(q)' = StoredRow(q)
    BY <1>1, <1>5, AppendKeepsStored
  <2>3. QED
    BY <1>1, <1>5, <2>1, <2>2 DEF Attributed, QueuedIsOpen
<1>6. ASSUME NEW row \in Row, audit' = Append(audit, row), row.call = c, row.kind # "begin",
             phase'[c] = "done", PastLookup(c) \/ phase[c] = "queued",
             reply'[c].from = c \/ (reply'[c] = reply[c] /\ phase[c] = "queued")
      PROVE  QueuedIsOpen' /\ (Attributed => Attributed')
  <2>1. HasStored(r)' /\ StoredRow(r)' = row
    BY <1>1, <1>2, <1>6, FirstAnswer
  <2>2. \A q \in RequestId : HasStored(q) => HasStored(q)' /\ StoredRow(q)' = StoredRow(q)
    BY <1>1, <1>6, AppendKeepsStored
  <2>3. \A q \in RequestId \ {r} : HasStored(q)' <=> HasStored(q)
    BY <1>1, <1>6, NoNewAnswer
  <2>4. Attributed => reply'[c].from \in {c, NoCall}
    BY <1>1, <1>2, <1>6 DEF Attributed
  <2>5. ASSUME Attributed, NEW d \in Call \ {c}, reply'[d].from # NoCall
        PROVE  \/ HasStored(RequestOf[d])' /\ StoredRow(RequestOf[d])'.call = reply'[d].from
               \/ phase'[d] = "queued" /\ reply'[d].from = d
    BY <1>1, <2>2, <2>5 DEF Attributed
  <2>6. Attributed => Attributed'
    BY <1>6, <2>1, <2>4, <2>5 DEF Attributed
  <2>7. QueuedIsOpen'
    BY <1>1, <1>3, <1>6, <2>3 DEF QueuedIsOpen
  <2>8. QED
    BY <2>6, <2>7
<1>7. QED
  BY <1>4, <1>5, <1>6 DEF Answers

LEMMA StepReplies ==
  ASSUME PatientClient, AnswersAreResults, ReplyInv, [Next]_vars
  PROVE  ReplyInv'
<1>1. OnceInv' /\ TypeInv /\ TypeOK
  BY StepOnce DEF ReplyInv, OnceInv, TypeInv
<1>2. CASE \E c \in Call : Handle(c)
  BY <1>1, <1>2, HandleAnswers, AnswersKeep DEF ReplyInv, PatientClient
<1>3. ASSUME UNCHANGED <<audit, reply>>,
             \A c \in Call : phase[c] = "queued" <=> phase'[c] = "queued"
      PROVE  ReplyInv'
  <2>1. \A q : (HasStored(q)' <=> HasStored(q)) /\ StoredRow(q)' = StoredRow(q)
    BY <1>3 DEF HasStored, StoredRow, Terminal
  <2>2. QED
    BY <1>1, <1>3, <2>1 DEF ReplyInv, Attributed, QueuedIsOpen
<1>4. CASE \E c \in Call : Submit(c)
  BY <1>1, <1>3, <1>4 DEF Submit, TypeOK
<1>5. CASE Crash
  <2>1. \A c \in Call : phase[c] # "queued"
    BY <1>5 DEF Crash, AnswersAreResults, ReplyInv, OnceInv, QueuedRuns
  <2>2. QED
    BY <1>3, <1>5, <2>1 DEF Crash
<1>6. CASE \/ \E r \in RequestId : PruneProgress(r)
           \/ \E u \in Unit : RunJob(u) \/ Flip(u)
           \/ Idle \/ UNCHANGED vars
  BY <1>3, <1>6 DEF PruneProgress, RunJob, Flip, Idle, vars
<1>7. QED
  BY <1>2, <1>4, <1>5, <1>6 DEF Next

\* A patient client that repeats a request is told the result of the execution it
\* already asked for: all answers that report a result report the same call's.
THEOREM OneResultPerRequest == PatientClient /\ AnswersAreResults => (Spec => []RepliesAgree)
<1>1. Init => ReplyInv
  <2>1. Init => Solo /\ Settled /\ QueuedRuns /\ Fresh /\ ExecutedOnce
    BY DEF Init, Solo, Settled, QueuedRuns, Fresh, ExecutedOnce, PastLookup, InFlight
  <2>2. Init => Attributed /\ QueuedIsOpen
    BY DEF Init, NoReply, Attributed, QueuedIsOpen
  <2>3. QED
    BY <2>1, <2>2, InitType DEF ReplyInv, OnceInv
<1>2. PatientClient /\ AnswersAreResults /\ ReplyInv /\ [Next]_vars => ReplyInv'
  BY StepReplies
<1>3. ReplyInv => RepliesAgree
  <2>1. SUFFICES ASSUME ReplyInv, NEW c \in Call, NEW d \in Call, RequestOf[c] = RequestOf[d],
                        reply[c].from # NoCall, reply[d].from # NoCall
                 PROVE  reply[c].from = reply[d].from
    BY DEF RepliesAgree
  <2>2. \A e \in {c, d} :
          \/ HasStored(RequestOf[c]) /\ StoredRow(RequestOf[c]).call = reply[e].from
          \/ phase[e] = "queued" /\ reply[e].from = e /\ ~HasStored(RequestOf[c]) /\ e \in effects
    BY <2>1 DEF ReplyInv, Attributed, QueuedIsOpen, OnceInv, QueuedRuns
  <2>3. QED
    BY <2>1, <2>2 DEF ReplyInv, OnceInv, ExecutedOnce
<1>4. PatientClient /\ AnswersAreResults => [](PatientClient /\ AnswersAreResults)
  <2>1. PatientClient /\ AnswersAreResults => (PatientClient /\ AnswersAreResults)'
    BY DEF PatientClient, AnswersAreResults
  <2>2. QED
    BY <2>1, PTL
<1>5. QED
  BY <1>1, <1>2, <1>3, <1>4, PTL DEF Spec

-----------------------------------------------------------------------------
(***************************************************************************)
(* The refinement.  What the actions do to the three abstract variables is *)
(* said by Moves, request by request; each of its alternatives is a step   *)
(* of IdempotentAction or leaves the abstract state alone.                 *)
(***************************************************************************)
\* What waits for an executor has called it.
WaitingRan == \A c \in Call : phase[c] = "waiting" => c \in effects

RefInv == OnceInv /\ QueuedIsOpen /\ WaitingRan

LostCalls == {c \in Call : phase[c] = "lost"}
RanFor(r) == {c \in effects : RequestOf[c] = r}
VerdictOn(r) == IF HasStored(r) THEN StoredRow(r).outcome ELSE "none"

\* The row of the step is the verdict on its request.
Decides(c, outcome) ==
  /\ VerdictOn(RequestOf[c]) = "none" /\ VerdictOn(RequestOf[c])' = outcome
  /\ \A q \in RequestId \ {RequestOf[c]} : VerdictOn(q)' = VerdictOn(q)

Moves(c) ==
  LET r == RequestOf[c] IN
  /\ LostCalls' = LostCalls
  /\ \/ effects' = effects /\ \A q \in RequestId : VerdictOn(q)' = VerdictOn(q)
     \/ /\ effects' = effects \cup {c} /\ VerdictOn(r) = "none" /\ RanFor(r) \subseteq LostCalls
        /\ (\A q \in RequestId : VerdictOn(q)' = VerdictOn(q)) \/ Decides(c, "failed")
     \/ /\ effects' = effects /\ Decides(c, "denied") /\ RanFor(r) \subseteq LostCalls
     \/ effects' = effects /\ Decides(c, "failed")
     \/ effects' = effects /\ Decides(c, "success") /\ ~(RanFor(r) \subseteq LostCalls)

LEMMA VerdictKept ==
  ASSUME audit' = audit
  PROVE  \A r \in RequestId : VerdictOn(r)' = VerdictOn(r)
BY DEF VerdictOn, HasStored, StoredRow, Terminal

LEMMA VerdictGiven ==
  ASSUME OnceInv, ~AuditMayFail, NEW c \in Call, NEW kind \in {"begin", "end", "deny"},
         NEW outcome \in Outcome, Insert(kind, c, outcome)
  PROVE  /\ kind = "begin" => \A q \in RequestId : VerdictOn(q)' = VerdictOn(q)
         /\ kind # "begin" /\ ~HasStored(RequestOf[c]) => Decides(c, outcome)
<1> USE CallAssumption
<1> DEFINE row == AuditRow(kind, c, outcome)
<1>1. /\ audit \in Seq(Row) /\ FirstRowExists
      /\ row \in Row /\ row.call = c /\ row.kind = kind /\ row.outcome = outcome
      /\ audit' = Append(audit, row)
  BY DEF OnceInv, TypeInv, TypeOK, AuditRow, Row, Insert
<1>2. \A q \in RequestId : HasStored(q) => HasStored(q)' /\ StoredRow(q)' = StoredRow(q)
  BY <1>1, AppendKeepsStored
<1>3. \A q \in RequestId : kind = "begin" \/ RequestOf[c] # q => (HasStored(q)' <=> HasStored(q))
  BY <1>1, NoNewAnswer
<1>4. \A q \in RequestId : kind = "begin" \/ RequestOf[c] # q => VerdictOn(q)' = VerdictOn(q)
  BY <1>2, <1>3 DEF VerdictOn
<1>5. kind # "begin" /\ ~HasStored(RequestOf[c]) => VerdictOn(RequestOf[c])' = outcome
  BY <1>1, FirstAnswer DEF VerdictOn
<1>6. ~HasStored(RequestOf[c]) => VerdictOn(RequestOf[c]) = "none"
  BY DEF VerdictOn
<1>7. QED
  BY <1>4, <1>5, <1>6 DEF Decides

LEMMA HandleRefines ==
  ASSUME PatientClient, RefInv, NEW c \in Call, Handle(c)
  PROVE  Moves(c) /\ WaitingRan'
<1> USE CallAssumption
<1> DEFINE r == RequestOf[c]
<1>1. /\ TypeOK /\ ~AuditMayFail /\ r \in RequestId /\ effects \subseteq Call
      /\ phase \in [Call -> Phase] /\ OnceInv /\ QueuedIsOpen /\ WaitingRan
  BY DEF RefInv, OnceInv, TypeInv, TypeOK, PatientClient
<1>2. PastLookup(c) \/ phase[c] = "queued" => ~HasStored(r) /\ VerdictOn(r) = "none"
  BY <1>1 DEF OnceInv, Fresh, QueuedIsOpen, VerdictOn
\* What ran before for the request of a call past its lookup was lost.
<1>3. ASSUME PastLookup(c), c \notin effects
      PROVE  RanFor(r) \subseteq LostCalls
  <2>1. SUFFICES ASSUME NEW d \in effects, RequestOf[d] = r PROVE phase[d] = "lost" /\ d \in Call
    BY DEF RanFor, LostCalls
  <2>2. d \in Call /\ d # c /\ phase[d] \in {"waiting", "queued", "done", "lost"}
    BY <1>1, <1>3, <2>1 DEF OnceInv, Settled
  <2>3. phase[d] # "waiting"
    BY <1>1, <1>3, <2>1, <2>2 DEF OnceInv, Solo, PastLookup, InFlight
  <2>4. phase[d] # "queued"
    BY <1>1, <1>3, <2>1, <2>2 DEF OnceInv, QueuedRuns, Fresh, PatientClient
  <2>5. phase[d] # "done"
    BY <1>1, <1>3, <2>1 DEF OnceInv, Settled, Fresh
  <2>6. QED
    BY <2>2, <2>3, <2>4, <2>5
<1>4. ASSUME NEW p \in Phase, phase' = [phase EXCEPT ![c] = p], p # "lost", phase[c] # "lost"
      PROVE  LostCalls' = LostCalls
  BY <1>1, <1>4 DEF LostCalls
<1>5. ASSUME NEW p \in Phase, phase' = [phase EXCEPT ![c] = p], p \notin {"lost", "waiting"},
             phase[c] # "lost", UNCHANGED <<audit, effects>>
      PROVE  Moves(c) /\ WaitingRan'
  BY <1>1, <1>4, <1>5, VerdictKept DEF Moves, WaitingRan
<1>6. ASSUME phase[c] = "begun", phase' = [phase EXCEPT ![c] = "waiting"],
             effects' = effects \cup {c}, UNCHANGED audit
      PROVE  Moves(c) /\ WaitingRan'
  <2>1. PastLookup(c) /\ c \notin effects
    BY <1>1, <1>6 DEF PastLookup, InFlight, OnceInv, Settled
  <2>2. LostCalls' = LostCalls
    BY <1>4, <1>6 DEF Phase
  <2>3. WaitingRan'
    BY <1>1, <1>6 DEF WaitingRan
  <2>4. QED
    BY <1>2, <1>3, <1>6, <2>1, <2>2, <2>3, VerdictKept DEF Moves
<1>7. ASSUME NEW outcome \in {"success", "failed"}, NEW status, Finish(c, outcome, status),
             phase[c] \in {"begun", "waiting"},
             \/ effects' = effects /\ (outcome = "success" => phase[c] = "waiting")
             \/ effects' = effects \cup {c} /\ phase[c] = "begun" /\ outcome = "failed"
      PROVE  Moves(c) /\ WaitingRan'
  <2>1. PastLookup(c)
    BY <1>7 DEF PastLookup, InFlight
  <2>2. Decides(c, outcome)
    BY <1>1, <1>2, <1>7, <2>1, VerdictGiven DEF Finish, Outcome
  <2>3. phase' = [phase EXCEPT ![c] = "done"] /\ LostCalls' = LostCalls
    BY <1>4, <1>7 DEF Finish, Respond, Phase
  <2>4. WaitingRan'
    BY <1>1, <1>7, <2>3 DEF WaitingRan
  <2>5. phase[c] = "waiting" => c \in RanFor(r) /\ c \notin LostCalls
    BY <1>1 DEF WaitingRan, RanFor, LostCalls
  <2>6. phase[c] = "begun" => c \notin effects
    BY <1>1 DEF OnceInv, Settled
  <2>7. QED
    BY <1>2, <1>3, <1>7, <2>1, <2>2, <2>3, <2>4, <2>5, <2>6 DEF Moves
<1>8. CASE Reject(c) \/ Replay(c) \/ LookupMiss(c) \/ Allowed(c) \/ PolkitUnavailable(c)
  BY <1>5, <1>8 DEF Reject, Replay, LookupMiss, Allowed, PolkitUnavailable, Respond, Phase
<1>9. CASE LockUnit(c) \/ PreconditionHolds(c) \/ PreconditionFails(c)
  BY <1>5, <1>9 DEF LockUnit, PreconditionHolds, PreconditionFails, Respond, Phase
<1>10. CASE Denied(c)
  <2>1. PastLookup(c) /\ c \notin effects
    BY <1>1, <1>10 DEF Denied, PastLookup, InFlight, OnceInv, Settled
  <2>2. Decides(c, "denied")
    BY <1>1, <1>2, <1>10, <2>1, VerdictGiven DEF Denied, Outcome
  <2>3. phase' = [phase EXCEPT ![c] = "done"] /\ LostCalls' = LostCalls
    BY <1>4, <1>10 DEF Denied, Respond, Phase
  <2>4. QED
    BY <1>1, <1>3, <1>10, <2>1, <2>2, <2>3 DEF Denied, Moves, WaitingRan
<1>11. CASE Begin(c)
  <2>1. \A q \in RequestId : VerdictOn(q)' = VerdictOn(q)
    BY <1>1, <1>11, VerdictGiven DEF Begin, Outcome
  <2>2. LostCalls' = LostCalls
    BY <1>4, <1>11 DEF Begin, ReadyToBegin, Phase
  <2>3. QED
    BY <1>1, <1>11, <2>1, <2>2 DEF Begin, Moves, WaitingRan
<1>12. CASE ExecuteService(c)
  BY <1>6, <1>7, <1>12 DEF ExecuteService
<1>13. CASE ExecuteDirect(c)
  BY <1>6, <1>7, <1>13 DEF ExecuteDirect
<1>14. CASE FinishService(c) \/ FinishDirect(c)
  BY <1>7, <1>14 DEF FinishService, FinishDirect
<1>15. CASE StartApply(c)
  <2>1. PastLookup(c) /\ c \notin effects
    BY <1>1, <1>15 DEF StartApply, PastLookup, InFlight, OnceInv, Settled
  <2>2. CASE \E status \in {409, 503} : Finish(c, "failed", status)
    <3>1. effects' = effects
      BY <1>1, <1>15, <2>2 DEF StartApply, Finish, Respond, Phase
    <3>2. QED
      BY <1>7, <1>15, <2>2, <3>1 DEF StartApply
  <2>3. CASE Respond(c, 200, NoCall) /\ UNCHANGED <<audit, effects>>
    BY <1>5, <1>15, <2>3 DEF StartApply, Respond, Phase
  <2>4. CASE /\ effects' = effects \cup {c}
             /\ phase' = [phase EXCEPT ![c] = "queued"] /\ UNCHANGED audit
    <3>1. LostCalls' = LostCalls
      BY <1>4, <1>15, <2>4 DEF StartApply, Phase
    <3>2. QED
      BY <1>1, <1>2, <1>3, <2>1, <2>4, <3>1, VerdictKept DEF Moves, WaitingRan
  <2>5. QED
    BY <1>15, <2>2, <2>3, <2>4 DEF StartApply
<1>16. CASE ApplyDone(c)
  <2>1. PICK outcome \in {"success", "failed"} : Insert("end", c, outcome)
    BY <1>16 DEF ApplyDone
  <2>2. phase[c] = "queued" /\ c \in effects
    BY <1>1, <1>16 DEF ApplyDone, OnceInv, QueuedRuns
  <2>3. Decides(c, outcome)
    BY <1>1, <1>2, <2>1, <2>2, VerdictGiven DEF Outcome
  <2>4. LostCalls' = LostCalls
    BY <1>4, <1>16 DEF ApplyDone, Phase
  <2>5. c \in RanFor(r) /\ c \notin LostCalls
    BY <2>2 DEF RanFor, LostCalls
  <2>6. QED
    BY <1>1, <1>16, <2>3, <2>4, <2>5 DEF ApplyDone, Moves, WaitingRan
<1>17. QED
  BY <1>8, <1>9, <1>10, <1>11, <1>12, <1>13, <1>14, <1>15, <1>16 DEF Handle
\* A move of one call is a step of the abstract service.
LEMMA MovesAreSteps ==
  ASSUME TypeOK, NEW c \in Call, Moves(c), effects' \subseteq Call
  PROVE  [Abstract!ANext]_(Abstract!avars)
<1> USE CallAssumption
<1> DEFINE r == RequestOf[c]
           executedBy == [q \in RequestId |-> {d \in effects : RequestOf[d] = q}]
           verdict == [q \in RequestId |-> IF HasStored(q) THEN StoredRow(q).outcome ELSE "none"]
           lost == {d \in Call : phase[d] = "lost"}
<1>1. r \in RequestId /\ lost' = lost /\ lost = LostCalls
  BY DEF TypeOK, Moves, LostCalls
<1>2. \A q \in RequestId : executedBy[q] = RanFor(q) /\ verdict[q] = VerdictOn(q)
  BY DEF RanFor, VerdictOn
<1>3. \A q \in RequestId : verdict'[q] = VerdictOn(q)'
  BY DEF VerdictOn
<1>4. effects' = effects => executedBy' = executedBy
  OBVIOUS
<1>5. effects' = effects \cup {c} => executedBy' = [executedBy EXCEPT ![r] = @ \cup {c}]
  <2>1. SUFFICES ASSUME effects' = effects \cup {c}
                 PROVE  executedBy' = [executedBy EXCEPT ![r] = @ \cup {c}]
    OBVIOUS
  <2>2. executedBy'[r] = executedBy[r] \cup {c}
    BY <1>1, <2>1
  <2>3. \A q \in RequestId \ {r} : executedBy'[q] = executedBy[q]
    BY <2>1
  <2>4. /\ executedBy = [q \in RequestId |-> executedBy[q]]
        /\ executedBy' = [q \in RequestId |-> executedBy'[q]]
    OBVIOUS
  <2> HIDE DEF executedBy
  <2>5. QED
    BY <2>2, <2>3, <2>4
<1>6. (\A q \in RequestId : VerdictOn(q)' = VerdictOn(q)) => verdict' = verdict
  BY <1>2, <1>3
<1>7. ASSUME NEW outcome, Decides(c, outcome)
      PROVE  verdict[r] = "none" /\ verdict' = [verdict EXCEPT ![r] = outcome]
  <2>1. verdict[r] = "none" /\ verdict'[r] = outcome
    BY <1>1, <1>2, <1>3, <1>7 DEF Decides
  <2>2. \A q \in RequestId \ {r} : verdict'[q] = verdict[q]
    BY <1>2, <1>3, <1>7 DEF Decides
  <2>3. QED
    BY <2>1, <2>2
<1> HIDE DEF executedBy, verdict, lost
<1>8. CASE effects' = effects /\ \A q \in RequestId : VerdictOn(q)' = VerdictOn(q)
  BY <1>1, <1>4, <1>6, <1>8 DEF Abstract!avars, executedBy, verdict, lost
<1>9. CASE /\ effects' = effects \cup {c} /\ VerdictOn(r) = "none" /\ RanFor(r) \subseteq LostCalls
           /\ \A q \in RequestId : VerdictOn(q)' = VerdictOn(q)
  <2>1. Abstract!Execute(r, c)
    BY <1>1, <1>2, <1>5, <1>6, <1>9 DEF Abstract!Execute, executedBy, verdict, lost
  <2>2. QED
    BY <1>1, <2>1 DEF Abstract!ANext
<1>10. CASE /\ effects' = effects \cup {c} /\ VerdictOn(r) = "none" /\ RanFor(r) \subseteq LostCalls
            /\ Decides(c, "failed")
  <2>1. Abstract!ExecuteAndFail(r, c)
    BY <1>1, <1>2, <1>5, <1>7, <1>10 DEF Abstract!ExecuteAndFail, executedBy, verdict, lost
  <2>2. QED
    BY <1>1, <2>1 DEF Abstract!ANext
<1>11. ASSUME NEW v \in {"success", "failed", "denied"}, effects' = effects, Decides(c, v),
              v = "denied" => RanFor(r) \subseteq LostCalls,
              v = "success" => ~(RanFor(r) \subseteq LostCalls)
       PROVE  [Abstract!ANext]_(Abstract!avars)
  <2>1. Abstract!Decide(r, v)
    BY <1>1, <1>2, <1>4, <1>7, <1>11 DEF Abstract!Decide, executedBy, verdict, lost
  <2>2. QED
    BY <1>1, <2>1 DEF Abstract!ANext
<1>12. QED
  BY <1>8, <1>9, <1>10, <1>11 DEF Moves

LEMMA StepRefines ==
  ASSUME PatientClient, RefInv, [Next]_vars
  PROVE  RefInv' /\ [Abstract!ANext]_(Abstract!avars)
<1>1. OnceInv' /\ OnceInv /\ TypeOK /\ (effects \subseteq Call)' /\ QueuedIsOpen /\ WaitingRan
  BY StepOnce DEF RefInv, OnceInv, TypeInv, TypeOK
<1>2. CASE \E c \in Call : Handle(c)
  <2>1. PICK c \in Call : Handle(c)
    BY <1>2
  <2>2. Moves(c) /\ WaitingRan'
    BY <2>1, HandleRefines
  <2>3. QueuedIsOpen'
    BY <1>1, <2>1, HandleAnswers, AnswersKeep DEF OnceInv, PatientClient
  <2>4. QED
    BY <1>1, <2>2, <2>3, MovesAreSteps DEF RefInv
\* The other steps give no verdict and execute nothing; a crash loses calls.
<1>3. ASSUME UNCHANGED <<audit, effects>>, \A c \in Call : phase[c] = "lost" => phase'[c] = "lost",
             \A c \in Call : phase'[c] \in {"queued", "waiting"} => phase[c] = phase'[c]
      PROVE  RefInv' /\ [Abstract!ANext]_(Abstract!avars)
  <2>1. \A r \in RequestId : (HasStored(r)' <=> HasStored(r)) /\ StoredRow(r)' = StoredRow(r)
    BY <1>3 DEF HasStored, StoredRow, Terminal
  <2>2. QueuedIsOpen' /\ WaitingRan'
    BY <1>1, <1>3, <2>1, CallAssumption DEF QueuedIsOpen, WaitingRan, TypeOK
  <2>3. Abstract!Lose
    BY <1>3, <2>1 DEF Abstract!Lose
  <2>4. QED
    BY <1>1, <2>2, <2>3 DEF RefInv, Abstract!ANext
<1>4. CASE \E c \in Call : Submit(c)
  BY <1>1, <1>3, <1>4 DEF Submit, TypeOK
<1>5. CASE Crash
  BY <1>1, <1>3, <1>5 DEF Crash, InFlight
<1>6. CASE \/ \E r \in RequestId : PruneProgress(r)
           \/ \E u \in Unit : RunJob(u) \/ Flip(u)
           \/ Idle \/ UNCHANGED vars
  BY <1>3, <1>6 DEF PruneProgress, RunJob, Flip, Idle, vars
<1>7. QED
  BY <1>2, <1>4, <1>5, <1>6 DEF Next

\* The broker implements the idempotent service for a patient client, as long as the
\* audit table takes the rows: every step of the pipeline, every end of a package apply
\* and every crash is a step the abstract specification allows, or none at all.
THEOREM IsIdempotent == PatientClient => (Spec => ImplementsIdempotentAction)
<1> SUFFICES ASSUME PatientClient PROVE Spec => ImplementsIdempotentAction
  OBVIOUS
<1>1. Init => RefInv
  <2>1. Init => Solo /\ Settled /\ QueuedRuns /\ Fresh /\ ExecutedOnce
    BY DEF Init, Solo, Settled, QueuedRuns, Fresh, ExecutedOnce, PastLookup, InFlight
  <2>2. Init => QueuedIsOpen /\ WaitingRan
    BY DEF Init, QueuedIsOpen, WaitingRan
  <2>3. QED
    BY <2>1, <2>2, InitType DEF RefInv, OnceInv
<1>2. Init => Abstract!AInit
  BY DEF Init, Abstract!AInit, HasStored, Terminal
<1>3. RefInv /\ [Next]_vars => RefInv' /\ [Abstract!ANext]_(Abstract!avars)
  BY StepRefines
<1>4. QED
  BY <1>1, <1>2, <1>3, PTL DEF Spec, ImplementsIdempotentAction, Abstract!ASpec
=============================================================================
