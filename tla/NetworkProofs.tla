--------------------------- MODULE NetworkProofs ---------------------------
(***************************************************************************)
(* Theorems about NetworkController, for every set of calls and changes.   *)
(***************************************************************************)
EXTENDS NetworkController, TLAPS

\* Who owns what.  A running trial is that of a call already answered, and the
\* configuration in force is that call's candidate.
TrialOwned ==
  try = NoTry \/ (try.of \in Call /\ phase[try.of] = "done" /\ disk = Candidate(try.of))

\* Whoever is inside the mutex is where the pending change allows it to be.
MutexOwned ==
  /\ mu.at = "free" => mu.by = NoCall
  /\ mu.at # "free" => mu.by \in Call
  /\ mu.at \in {"rollback", "create", "opened"} => phase[mu.by] = "sent"
  /\ mu.at \in {"create", "opened"} => pending = NoPending
  /\ mu.at \in {"confirm", "expire"} => pending.call = mu.by
  /\ mu.at \in {"rollback", "expire"} => over

\* Only the pending change's own trial runs beside it.
PendingOwned ==
  /\ \/ pending = NoPending
     \/ /\ pending.call \in Call /\ phase[pending.call] = "done"
        /\ try.of \in {pending.call, NoCall}
  /\ over => pending # NoPending

\* A timer belongs to an answered call, and the pending one's fires after its
\* window only.
TimerOwned ==
  \A c \in Call :
    /\ timer[c] # "none" => phase[c] = "done"
    /\ timer[c] = "fired" /\ pending.call = c => over

Owned == TrialOwned /\ MutexOwned /\ PendingOwned /\ TimerOwned

-----------------------------------------------------------------------------
(***************************************************************************)
(* Types.                                                                  *)
(***************************************************************************)
LEMMA CandidateType ==
  ASSUME TypeOK, NEW c \in Call
  PROVE  Candidate(c) \in Configuration
BY NetworkAssumption DEF NetworkAssumption, TypeOK, Candidate, Configuration

\* Netplan's side of the state, whichever of the backend's calls is made.
LEMMA NetplanType ==
  ASSUME TypeOK, NEW c \in Call, Cancel(c) \/ Try(c) \/ Commit(c)
  PROVE  /\ disk' \in Configuration
         /\ try' \in [of : Call \cup {NoCall}, base : Configuration, due : BOOLEAN]
<1>1. NoTry \in [of : Call \cup {NoCall}, base : Configuration, due : BOOLEAN]
  BY DEF NoTry, Configuration
<1>2. CASE Cancel(c)
  BY <1>1, <1>2 DEF TypeOK, Cancel
<1>3. CASE Try(c)
  BY <1>3, CandidateType DEF TypeOK, Try
<1>4. CASE Commit(c)
  BY <1>1, <1>4, CandidateType DEF Commit
<1>5. QED
  BY <1>2, <1>3, <1>4

LEMMA InitType == Init => TypeOK
<1> SUFFICES ASSUME Init PROVE TypeOK
  OBVIOUS
<1>1. {} \in Configuration
  BY DEF Configuration
<1>2. /\ try \in [of : Call \cup {NoCall}, base : Configuration, due : BOOLEAN]
      /\ pending \in [call : Call \cup {NoCall}, prev : Configuration]
      /\ mu \in [by : Call \cup {NoCall}, at : Place]
  BY <1>1 DEF Init, NoTry, NoPending, Free, Place
<1>3. /\ timer \in [Call -> {"none", "armed", "fired"}]
      /\ phase \in [Call -> {"idle", "sent", "done"}]
      /\ expected \in [Call -> Configuration]
  BY <1>1 DEF Init
<1>4. QED
  BY <1>2, <1>3 DEF Init, TypeOK

LEMMA ApplyTypeOK ==
  ASSUME TypeOK, NEW c \in Call, Apply(c)
  PROVE  TypeOK'
<1>0. /\ NoPending \in [call : Call \cup {NoCall}, prev : Configuration]
      /\ Free \in [by : Call \cup {NoCall}, at : Place]
      /\ \A at \in Place : [by |-> c, at |-> at] \in [by : Call \cup {NoCall}, at : Place]
  BY DEF NoPending, Configuration, Free, Place
<1>1. CASE ApplyBusy(c)
  BY <1>1 DEF ApplyBusy, TypeOK
<1>2. CASE ApplyRollback(c)
  <2>1. pending.call \in Call \/ pending.call = NoCall
    BY DEF TypeOK
  <2>2. CASE pending.call \in Call
    BY <1>0, <1>2, <2>2, NetplanType DEF ApplyRollback, TypeOK, Place
  <2>3. CASE pending.call = NoCall
    <3>1. NoTry \in [of : Call \cup {NoCall}, base : Configuration, due : BOOLEAN]
      BY DEF NoTry, Configuration
    <3>2. /\ disk' \in Configuration
          /\ try' \in [of : Call \cup {NoCall}, base : Configuration, due : BOOLEAN]
      BY <1>2, <2>3, <3>1 DEF ApplyRollback, Cancel, TypeOK
    <3>3. QED
      BY <1>0, <1>2, <3>2 DEF ApplyRollback, TypeOK, Place
  <2>4. QED
    BY <2>1, <2>2, <2>3
<1>3. CASE ApplyVerified(c)
  <2>1. \A p \in Call : timer' = [timer EXCEPT ![p] = IF @ = "armed" THEN "none" ELSE @]
                        => timer' \in [Call -> {"none", "armed", "fired"}]
    BY DEF TypeOK
  <2>2. timer' \in [Call -> {"none", "armed", "fired"}]
    BY <1>3 DEF ApplyVerified, Stop, TypeOK
  <2>3. QED
    BY <1>0, <1>3, <2>2 DEF ApplyVerified, TypeOK, Place
<1>4. CASE ApplyUnverified(c) \/ ApplyStale(c) \/ ApplyTryFails(c)
  BY <1>0, <1>4 DEF ApplyUnverified, ApplyStale, ApplyTryFails, Leave, TypeOK
<1>5. CASE ApplyCreate(c)
  BY <1>0, <1>5 DEF ApplyCreate, TypeOK, Place
<1>6. CASE ApplyTry(c)
  <2>1. [call |-> c, prev |-> expected[c]] \in [call : Call \cup {NoCall}, prev : Configuration]
    BY DEF TypeOK
  <2>2. QED
    BY <1>0, <1>6, <2>1, NetplanType DEF ApplyTry, Leave, TypeOK
<1>7. CASE ApplyTryLost(c)
  BY <1>0, <1>7, NetplanType DEF ApplyTryLost, Leave, TypeOK
<1>8. QED
  BY <1>1, <1>2, <1>3, <1>4, <1>5, <1>6, <1>7 DEF Apply

LEMMA StepType == TypeOK /\ [Next]_vars => TypeOK'
<1>0. /\ NoPending \in [call : Call \cup {NoCall}, prev : Configuration]
      /\ NoTry \in [of : Call \cup {NoCall}, base : Configuration, due : BOOLEAN]
      /\ Free \in [by : Call \cup {NoCall}, at : Place]
      /\ \A c \in Call : \A at \in Place : [by |-> c, at |-> at] \in [by : Call \cup {NoCall}, at : Place]
  BY DEF NoPending, NoTry, Configuration, Free, Place
<1> SUFFICES ASSUME TypeOK, [Next]_vars PROVE TypeOK'
  OBVIOUS
<1>1. ASSUME NEW c \in Call, Send(c) PROVE TypeOK'
  BY <1>1 DEF Send, TypeOK
<1>2. ASSUME NEW c \in Call, Apply(c) PROVE TypeOK'
  BY <1>2, ApplyTypeOK
<1>3. ASSUME NEW c \in Call, ConfirmChecked(c) PROVE TypeOK'
  BY <1>0, <1>3 DEF ConfirmChecked, TypeOK, Place
<1>4. ASSUME NEW c \in Call, Answer(c) PROVE TypeOK'
  <2>1. CASE Confirmed(c)
    <3>1. timer' \in [Call -> {"none", "armed", "fired"}]
      BY <2>1 DEF Confirmed, Stop, TypeOK
    <3>2. QED
      BY <1>0, <2>1, <3>1, NetplanType, CandidateType DEF Confirmed, TypeOK
  <2>2. CASE ConfirmFails(c)
    BY <1>0, <2>2 DEF ConfirmFails, TypeOK
  <2>3. CASE ConfirmLost(c)
    BY <1>0, <2>3, NetplanType DEF ConfirmLost, TypeOK
  <2>4. QED
    BY <1>4, <2>1, <2>2, <2>3 DEF Answer
<1>5. ASSUME NEW c \in Call, Fire(c) PROVE TypeOK'
  BY <1>5 DEF Fire, TypeOK
<1>6. ASSUME NEW c \in Call, Expire(c) PROVE TypeOK'
  <2>1. CASE ExpireStale(c)
    BY <2>1 DEF ExpireStale, TypeOK
  <2>2. CASE ExpireCancel(c)
    BY <1>0, <2>2, NetplanType DEF ExpireCancel, TypeOK, Place
  <2>3. CASE ExpireVerified(c)
    BY <1>0, <2>3 DEF ExpireVerified, TypeOK
  <2>4. CASE ExpireRetry(c)
    BY <1>0, <2>4 DEF ExpireRetry, TypeOK
  <2>5. QED
    BY <1>6, <2>1, <2>2, <2>3, <2>4 DEF Expire
<1>7. CASE NetplanElapses \/ NetplanReverts \/ WindowEnds
  <2>1. CASE NetplanElapses
    <3>1. try' \in [of : Call \cup {NoCall}, base : Configuration, due : BOOLEAN]
      BY <2>1 DEF NetplanElapses, TypeOK
    <3>2. QED
      BY <2>1, <3>1 DEF NetplanElapses, TypeOK
  <2>2. CASE NetplanReverts
    <3>1. try.base \in Configuration
      BY DEF TypeOK
    <3>2. QED
      BY <1>0, <2>2, <3>1 DEF NetplanReverts, TypeOK
  <2>3. CASE WindowEnds
    BY <2>3 DEF WindowEnds, TypeOK
  <2>4. QED
    BY <1>7, <2>1, <2>2, <2>3
<1>8. CASE Crash
  BY <1>0, <1>8 DEF Crash, TypeOK
<1>9. CASE Idle \/ UNCHANGED vars
  BY <1>9 DEF Idle, vars, TypeOK
<1>10. QED
  BY <1>1, <1>2, <1>3, <1>4, <1>5, <1>6, <1>7, <1>8, <1>9 DEF Next

\* Every reachable state is well-typed, whatever fails, gets lost or crashes
\* (all of Apply, Confirm, expire and Netplan's timer).
THEOREM TypeCorrect == Spec => []TypeOK
<1>1. QED
  BY InitType, StepType, PTL DEF Spec

-----------------------------------------------------------------------------
(***************************************************************************)
(* Ownership.                                                              *)
(***************************************************************************)
LEMMA InitOwned == Init => Owned
BY DEF Init, Owned, TrialOwned, MutexOwned, PendingOwned, TimerOwned, Free

LEMMA ApplyOwned ==
  ASSUME TypeOK, Owned, NEW c \in Call, Apply(c)
  PROVE  Owned'
<1>0. NoCall \notin Call
  BY NetworkAssumption DEF NetworkAssumption
<1> USE DEF Owned, TrialOwned, MutexOwned, PendingOwned, TimerOwned, TypeOK, Free, NoTry, NoPending, Candidate
<1>1. CASE ApplyBusy(c)
  BY <1>0, <1>1 DEF ApplyBusy
<1>2. CASE ApplyRollback(c)
  BY <1>0, <1>2 DEF ApplyRollback, Cancel
<1>3. CASE ApplyVerified(c)
  BY <1>0, <1>3 DEF ApplyVerified, Stop
<1>4. CASE ApplyUnverified(c)
  BY <1>0, <1>4 DEF ApplyUnverified, Leave
<1>5. CASE ApplyStale(c)
  BY <1>0, <1>5 DEF ApplyStale, ReadyToCreate, Leave
<1>6. CASE ApplyTryFails(c)
  BY <1>0, <1>6 DEF ApplyTryFails, Leave
<1>7. CASE ApplyCreate(c)
  BY <1>0, <1>7 DEF ApplyCreate, ReadyToCreate
<1>8. CASE ApplyTry(c)
  BY <1>0, <1>8 DEF ApplyTry, Try, Leave
<1>9. CASE ApplyTryLost(c)
  BY <1>0, <1>9 DEF ApplyTryLost, Try, Leave
<1>10. QED
  BY <1>1, <1>2, <1>3, <1>4, <1>5, <1>6, <1>7, <1>8, <1>9 DEF Apply

LEMMA StepOwned == TypeOK /\ Owned /\ [Next]_vars => Owned'
<1> SUFFICES ASSUME TypeOK, Owned, [Next]_vars PROVE Owned'
  OBVIOUS
<1>0. NoCall \notin Call
  BY NetworkAssumption DEF NetworkAssumption
<1>1. ASSUME NEW c \in Call, Apply(c) PROVE Owned'
  BY <1>1, ApplyOwned
<1> USE DEF Owned, TrialOwned, MutexOwned, PendingOwned, TimerOwned, TypeOK, Free, NoTry, NoPending, Candidate
<1>2. ASSUME NEW c \in Call, Send(c) PROVE Owned'
  BY <1>0, <1>2 DEF Send
<1>3. ASSUME NEW c \in Call, ConfirmChecked(c) PROVE Owned'
  BY <1>0, <1>3 DEF ConfirmChecked
<1>4. ASSUME NEW c \in Call, Confirmed(c) PROVE Owned'
  BY <1>0, <1>4 DEF Confirmed, Commit, Stop
<1>5. ASSUME NEW c \in Call, ConfirmFails(c) PROVE Owned'
  BY <1>0, <1>5 DEF ConfirmFails
<1>6. ASSUME NEW c \in Call, ConfirmLost(c) PROVE Owned'
  BY <1>0, <1>6 DEF ConfirmLost, Commit
<1>7. ASSUME NEW c \in Call, Fire(c) PROVE Owned'
  BY <1>0, <1>7 DEF Fire
<1>8. ASSUME NEW c \in Call, ExpireStale(c) PROVE Owned'
  BY <1>0, <1>8 DEF ExpireStale
<1>9. ASSUME NEW c \in Call, ExpireCancel(c) PROVE Owned'
  BY <1>0, <1>9 DEF ExpireCancel, Cancel
<1>10. ASSUME NEW c \in Call, ExpireVerified(c) PROVE Owned'
  BY <1>0, <1>10 DEF ExpireVerified
<1>11. ASSUME NEW c \in Call, ExpireRetry(c) PROVE Owned'
  BY <1>0, <1>11 DEF ExpireRetry
<1>12. CASE NetplanElapses
  BY <1>0, <1>12 DEF NetplanElapses
<1>13. CASE NetplanReverts
  BY <1>0, <1>13 DEF NetplanReverts
<1>14. CASE WindowEnds
  BY <1>0, <1>14 DEF WindowEnds
<1>15. CASE Crash
  BY <1>0, <1>15 DEF Crash
<1>16. CASE Idle \/ UNCHANGED vars
  BY <1>16 DEF Idle, vars
<1>17. QED
  BY <1>1, <1>2, <1>3, <1>4, <1>5, <1>6, <1>7, <1>8, <1>9, <1>10, <1>11, <1>12, <1>13,
     <1>14, <1>15, <1>16 DEF Next, Answer, Expire

LEMMA OwnedInvariant == Spec => [](TypeOK /\ Owned)
<1>1. Init => TypeOK /\ Owned
  BY InitType, InitOwned
<1>2. (TypeOK /\ Owned) /\ [Next]_vars => (TypeOK /\ Owned)'
  BY StepType, StepOwned
<1>3. QED
  BY <1>1, <1>2, PTL DEF Spec

-----------------------------------------------------------------------------
(***************************************************************************)
(* What is in force.                                                       *)
(***************************************************************************)
\* Netplan may lose the answer to a Try, but not the one to an Apply.
ReliableApply == "apply" \notin MayLose

\* Every step is one of the dead-man switch's, and leaves a configuration that
\* is the agreed one or falls back to it.
LEMMA StepSwitches ==
  ASSUME ReliableApply, TypeOK, Owned, UnconfirmedNeverStays, [Next]_vars
  PROVE  UnconfirmedNeverStays' /\ [Switch!DNext]_<<disk, agreed>>
<1>0. NoCall \notin Call
  BY NetworkAssumption DEF NetworkAssumption
<1>1. \A c \in Call : Candidate(c) \in Configuration
  BY CandidateType
<1>2. ASSUME NEW p \in Call, Cancel(p), UNCHANGED agreed
      PROVE  UnconfirmedNeverStays' /\ [Switch!DNext]_<<disk, agreed>>
  <2>1. CASE UNCHANGED <<disk, try>>
    BY <1>2, <2>1 DEF UnconfirmedNeverStays
  <2>2. CASE try.of = p /\ disk' = try.base /\ try' = NoTry
    <3>1. disk' = agreed /\ agreed' = agreed /\ try'.of = NoCall
      BY <1>0, <1>2, <2>2 DEF UnconfirmedNeverStays, NoTry
    <3>2. QED
      BY <3>1 DEF UnconfirmedNeverStays, Switch!DNext, Switch!Revert
  <2>3. QED
    BY <1>2, <2>1, <2>2 DEF Cancel
<1>3. ASSUME NEW c \in Call, Try(c), UNCHANGED agreed
      PROVE  UnconfirmedNeverStays' /\ [Switch!DNext]_<<disk, agreed>>
  BY <1>0, <1>1, <1>3 DEF Try, UnconfirmedNeverStays, Switch!DNext, Switch!Begin
<1>4. ASSUME UNCHANGED <<disk, try, agreed>>
      PROVE  UnconfirmedNeverStays' /\ [Switch!DNext]_<<disk, agreed>>
  BY <1>4 DEF UnconfirmedNeverStays
<1>5. ASSUME NEW c \in Call, Apply(c)
      PROVE  UnconfirmedNeverStays' /\ [Switch!DNext]_<<disk, agreed>>
  <2>1. CASE ApplyRollback(c)
    BY <1>2, <2>1 DEF ApplyRollback, Owned, PendingOwned
  <2>2. CASE ApplyTry(c) \/ ApplyTryLost(c)
    BY <1>3, <2>2 DEF ApplyTry, ApplyTryLost
  <2>3. CASE \/ ApplyBusy(c) \/ ApplyVerified(c) \/ ApplyUnverified(c)
             \/ ApplyCreate(c) \/ ApplyStale(c) \/ ApplyTryFails(c)
    BY <1>4, <2>3 DEF ApplyBusy, ApplyVerified, ApplyUnverified, ApplyCreate, ApplyStale, ApplyTryFails
  <2>4. QED
    BY <1>5, <2>1, <2>2, <2>3 DEF Apply
<1>6. ASSUME NEW c \in Call, Confirmed(c)
      PROVE  UnconfirmedNeverStays' /\ [Switch!DNext]_<<disk, agreed>>
  <2>1. UnconfirmedNeverStays'
    BY <1>0, <1>6 DEF Confirmed, Commit, UnconfirmedNeverStays, NoTry
  <2>2. CASE try = NoTry
    <3>1. disk = agreed
      BY <2>2 DEF UnconfirmedNeverStays, NoTry
    <3>2. QED
      BY <1>1, <1>6, <2>1, <3>1 DEF Confirmed, Commit, Switch!DNext, Switch!KeepLate
  <2>3. CASE try # NoTry
    <3>1. try.of = c /\ disk = Candidate(c)
      BY <1>0, <1>6, <2>3
         DEF Confirmed, Owned, TrialOwned, MutexOwned, PendingOwned, NoPending
    <3>2. QED
      BY <1>6, <2>1, <3>1 DEF Confirmed, Commit, Switch!DNext, Switch!Keep
  <2>4. QED
    BY <2>2, <2>3
<1>7. ASSUME NEW c \in Call, Answer(c)
      PROVE  UnconfirmedNeverStays' /\ [Switch!DNext]_<<disk, agreed>>
  BY <1>4, <1>6, <1>7 DEF Answer, ConfirmFails, ConfirmLost, ReliableApply
<1>8. ASSUME NEW c \in Call, Expire(c)
      PROVE  UnconfirmedNeverStays' /\ [Switch!DNext]_<<disk, agreed>>
  BY <1>2, <1>4, <1>8 DEF Expire, ExpireStale, ExpireCancel, ExpireVerified, ExpireRetry
<1>9. CASE NetplanElapses
  BY <1>9 DEF NetplanElapses, UnconfirmedNeverStays, TypeOK
<1>10. CASE NetplanReverts
  <2>1. try.of # NoCall
    BY <1>0, <1>10 DEF NetplanReverts, Owned, TrialOwned, NoTry
  <2>2. disk' = agreed /\ agreed' = agreed /\ try'.of = NoCall
    BY <1>10, <2>1 DEF NetplanReverts, UnconfirmedNeverStays, NoTry
  <2>3. QED
    BY <2>2 DEF UnconfirmedNeverStays, Switch!DNext, Switch!Revert
<1>11. CASE WindowEnds \/ Crash \/ Idle \/ UNCHANGED vars
  BY <1>4, <1>11 DEF WindowEnds, Crash, Idle, vars
<1>12. ASSUME NEW c \in Call, Send(c) \/ ConfirmChecked(c) \/ Fire(c)
       PROVE  UnconfirmedNeverStays' /\ [Switch!DNext]_<<disk, agreed>>
  BY <1>4, <1>12 DEF Send, ConfirmChecked, Fire
<1>13. QED
  BY <1>5, <1>7, <1>8, <1>9, <1>10, <1>11, <1>12 DEF Next

\* With no trial running the configuration is the one last confirmed, and a
\* running trial falls back to it: whatever Apply, Confirm, expire, Netplan's
\* timer and a crash do to each other.
THEOREM NothingUnconfirmedStays == ReliableApply => (Spec => []UnconfirmedNeverStays)
<1> SUFFICES ASSUME ReliableApply PROVE Spec => []UnconfirmedNeverStays
  OBVIOUS
<1>1. Init => UnconfirmedNeverStays
  BY DEF Init, UnconfirmedNeverStays, NoTry
<1>2. TypeOK /\ Owned /\ UnconfirmedNeverStays /\ [Next]_vars => UnconfirmedNeverStays'
  BY StepSwitches
<1>3. QED
  BY <1>1, <1>2, OwnedInvariant, PTL DEF Spec

\* The controller and Netplan implement the abstract dead-man switch (safety).
THEOREM IsADeadManSwitch == ReliableApply => (Spec => ImplementsDeadManSwitch)
<1> SUFFICES ASSUME ReliableApply PROVE Spec => ImplementsDeadManSwitch
  OBVIOUS
<1>1. Init => Switch!DInit
  BY DEF Init, Switch!DInit
<1>2. TypeOK /\ Owned /\ UnconfirmedNeverStays /\ [Next]_vars => [Switch!DNext]_(Switch!dvars)
  BY StepSwitches DEF Switch!dvars
<1>3. Spec => []UnconfirmedNeverStays
  BY NothingUnconfirmedStays
<1>4. QED
  BY <1>1, <1>2, <1>3, OwnedInvariant, PTL
     DEF Spec, ImplementsDeadManSwitch, Switch!DSpec

-----------------------------------------------------------------------------
(***************************************************************************)
(* The rollback target.                                                    *)
(***************************************************************************)
\* One life of the broker, with no trial it does not know of.
OneLifetime == ~MayCrash /\ "try" \notin MayLose

\* UnconfirmedNeverStays, but for a pending change that Netplan has committed.
Resting ==
  /\ try.of = NoCall /\ pending = NoPending => disk = agreed
  /\ try.of # NoCall => try.base = agreed

\* A trial the controller does not count as pending makes no difference.
TrialIsPending ==
  /\ try # NoTry => pending.call = try.of \/ disk = agreed
  /\ mu.at = "opened" => expected[mu.by] = agreed

TargetInv == TypeOK /\ Owned /\ Resting /\ TrialIsPending /\ RollbackTargetIsAgreed

LEMMA ApplyTarget ==
  ASSUME OneLifetime, TargetInv, NEW c \in Call, Apply(c)
  PROVE  Resting' /\ TrialIsPending' /\ RollbackTargetIsAgreed'
<1>0. NoCall \notin Call
  BY NetworkAssumption DEF NetworkAssumption
<1> USE DEF TargetInv, Resting, TrialIsPending, RollbackTargetIsAgreed, TypeOK
<1>1. CASE ApplyBusy(c)
  BY <1>1 DEF ApplyBusy
<1>2. CASE ApplyRollback(c)
  BY <1>0, <1>2 DEF ApplyRollback, Cancel, NoTry, Owned, MutexOwned
<1>3. CASE ApplyVerified(c)
  BY <1>0, <1>3 DEF ApplyVerified, NoPending, Owned, MutexOwned, PendingOwned
<1>4. CASE ApplyUnverified(c) \/ ApplyStale(c) \/ ApplyTryFails(c)
  BY <1>4 DEF ApplyUnverified, ApplyStale, ApplyTryFails, Leave, Free
<1>5. CASE ApplyCreate(c)
  <2>1. pending = NoPending
    BY <1>5 DEF ApplyCreate, ReadyToCreate, Owned, MutexOwned
  <2>2. disk = agreed
    BY <1>0, <2>1 DEF Owned, TrialOwned, NoTry, NoPending
  <2>3. QED
    BY <1>5, <2>2 DEF ApplyCreate
<1>6. CASE ApplyTry(c)
  BY <1>0, <1>6 DEF ApplyTry, Try, Leave, Free, NoTry, Owned, MutexOwned
<1>7. CASE ApplyTryLost(c)
  BY <1>7 DEF ApplyTryLost, OneLifetime
<1>8. QED
  BY <1>1, <1>2, <1>3, <1>4, <1>5, <1>6, <1>7 DEF Apply

LEMMA StepTarget ==
  ASSUME OneLifetime, TargetInv, [Next]_vars
  PROVE  TargetInv'
<1>0. NoCall \notin Call
  BY NetworkAssumption DEF NetworkAssumption
<1>1. TypeOK' /\ Owned'
  BY StepType, StepOwned DEF TargetInv
<1>2. SUFFICES Resting' /\ TrialIsPending' /\ RollbackTargetIsAgreed'
  BY <1>1 DEF TargetInv
<1>3. ASSUME NEW c \in Call, Apply(c) PROVE Resting' /\ TrialIsPending' /\ RollbackTargetIsAgreed'
  BY <1>3, ApplyTarget
<1> USE DEF TargetInv, Resting, TrialIsPending, RollbackTargetIsAgreed, TypeOK
<1>4. ASSUME NEW c \in Call, Send(c) PROVE Resting' /\ TrialIsPending' /\ RollbackTargetIsAgreed'
  BY <1>4 DEF Send, Owned, MutexOwned
<1>5. ASSUME NEW c \in Call, ConfirmChecked(c) \/ ConfirmFails(c)
      PROVE  Resting' /\ TrialIsPending' /\ RollbackTargetIsAgreed'
  BY <1>5 DEF ConfirmChecked, ConfirmFails, Free
<1>6. ASSUME NEW c \in Call, Confirmed(c) PROVE Resting' /\ TrialIsPending' /\ RollbackTargetIsAgreed'
  BY <1>0, <1>6 DEF Confirmed, Commit, Free, NoTry, NoPending
<1>7. ASSUME NEW c \in Call, ConfirmLost(c) PROVE Resting' /\ TrialIsPending' /\ RollbackTargetIsAgreed'
  BY <1>0, <1>7 DEF ConfirmLost, Commit, Free, NoTry, NoPending, Owned, MutexOwned, PendingOwned
<1>8. ASSUME NEW c \in Call, Fire(c) \/ ExpireStale(c) \/ ExpireRetry(c)
      PROVE  Resting' /\ TrialIsPending' /\ RollbackTargetIsAgreed'
  BY <1>8 DEF Fire, ExpireStale, ExpireRetry, Free
<1>9. ASSUME NEW c \in Call, ExpireCancel(c) PROVE Resting' /\ TrialIsPending' /\ RollbackTargetIsAgreed'
  BY <1>0, <1>9 DEF ExpireCancel, Cancel, NoTry, NoPending
<1>10. ASSUME NEW c \in Call, ExpireVerified(c) PROVE Resting' /\ TrialIsPending' /\ RollbackTargetIsAgreed'
  BY <1>0, <1>10 DEF ExpireVerified, Free, NoPending, Owned, MutexOwned
<1>11. CASE NetplanElapses
  BY <1>0, <1>11 DEF NetplanElapses, NoTry
<1>12. CASE NetplanReverts
  BY <1>0, <1>12 DEF NetplanReverts, NoTry, Owned, TrialOwned
<1>13. CASE WindowEnds \/ Idle \/ UNCHANGED vars
  BY <1>13 DEF WindowEnds, Idle, vars
<1>14. CASE Crash
  BY <1>14 DEF Crash, OneLifetime
<1>15. QED
  BY <1>3, <1>4, <1>5, <1>6, <1>7, <1>8, <1>9, <1>10, <1>11, <1>12, <1>13, <1>14
     DEF Next, Answer, Expire

LEMMA TargetInvariant == OneLifetime => (Spec => []TargetInv)
<1> SUFFICES ASSUME OneLifetime PROVE Spec => []TargetInv
  OBVIOUS
<1>1. ASSUME Init PROVE TargetInv
  <2>1. TypeOK /\ Owned
    BY <1>1, InitType, InitOwned
  <2>2. QED
    BY <1>1, <2>1 DEF Init, TargetInv, Resting, TrialIsPending,
                      RollbackTargetIsAgreed, NoTry, Free
<1>2. TargetInv /\ [Next]_vars => TargetInv'
  BY StepTarget
<1>3. QED
  BY <1>1, <1>2, PTL DEF Spec

\* A pending change is rolled back to, and verified against, the confirmed
\* configuration: PreviousRevision in Apply is never that of somebody's trial.
THEOREM RollsBackToAgreed == OneLifetime => (Spec => []RollbackTargetIsAgreed)
<1> SUFFICES ASSUME OneLifetime PROVE Spec => []RollbackTargetIsAgreed
  OBVIOUS
<1>1. TargetInv => RollbackTargetIsAgreed
  BY DEF TargetInv
<1>2. Spec => []TargetInv
  BY TargetInvariant
<1>3. QED
  BY <1>1, <1>2, PTL

\* When a pending change goes, its window is over or it was confirmed; and unless
\* it was confirmed, the previous configuration is back.
LEMMA StepForgets ==
  ASSUME OneLifetime, TargetInv, [Next]_vars, pending # NoPending, pending' # pending
  PROVE  /\ over \/ agreed' = Candidate(pending.call)
         /\ agreed' = agreed => disk' = pending.prev
<1> USE DEF TargetInv, Owned, MutexOwned
<1>1. ASSUME NEW c \in Call, ApplyVerified(c) \/ ExpireVerified(c)
      PROVE  over /\ disk' = pending.prev
  BY <1>1 DEF ApplyVerified, ExpireVerified
<1>2. ASSUME NEW c \in Call, Confirmed(c)
      PROVE  /\ agreed' = Candidate(pending.call)
             /\ agreed' = agreed => disk' = pending.prev
  BY <1>2 DEF Confirmed, Commit, RollbackTargetIsAgreed
<1>3. ASSUME NEW c \in Call, ApplyTry(c) PROVE FALSE
  BY <1>3 DEF ApplyTry
<1>4. ~Crash
  BY DEF Crash, OneLifetime
<1>5. ASSUME NEW c \in Call,
             \/ ApplyBusy(c) \/ ApplyRollback(c) \/ ApplyUnverified(c) \/ ApplyCreate(c)
             \/ ApplyStale(c) \/ ApplyTryFails(c) \/ ApplyTryLost(c)
      PROVE  FALSE
  BY <1>5 DEF ApplyBusy, ApplyRollback, ApplyUnverified, ApplyCreate, ApplyStale,
              ApplyTryFails, ApplyTryLost
<1>6. ASSUME NEW c \in Call,
             \/ Send(c) \/ ConfirmChecked(c) \/ ConfirmFails(c) \/ ConfirmLost(c)
             \/ Fire(c) \/ ExpireStale(c) \/ ExpireCancel(c) \/ ExpireRetry(c)
      PROVE  FALSE
  BY <1>6 DEF Send, ConfirmChecked, ConfirmFails, ConfirmLost, Fire, ExpireStale,
              ExpireCancel, ExpireRetry
<1>7. ~(NetplanElapses \/ NetplanReverts \/ WindowEnds \/ Idle \/ UNCHANGED vars)
  BY DEF NetplanElapses, NetplanReverts, WindowEnds, Idle, vars
<1>8. QED
  BY <1>1, <1>2, <1>3, <1>4, <1>5, <1>6, <1>7 DEF Next, Apply, Answer, Expire

\* No late timer and no second Apply takes a pending change away before its
\* window is over (the token and path check of expire).
THEOREM DroppedInTime == OneLifetime => (Spec => NeverDroppedEarly)
<1> SUFFICES ASSUME OneLifetime PROVE Spec => NeverDroppedEarly
  OBVIOUS
<1>1. TargetInv /\ [Next]_vars =>
        [pending # NoPending /\ pending' # pending => over \/ agreed' = Candidate(pending.call)]_vars
  BY StepForgets
<1>2. Spec => []TargetInv
  BY TargetInvariant
<1>3. QED
  BY <1>1, <1>2, PTL DEF Spec, NeverDroppedEarly

\* A change is forgotten unconfirmed only once the previous configuration is
\* back (rollbackAndVerify, called by expire and by Apply).
THEOREM ForgottenWhenBack == OneLifetime => (Spec => ForgottenOnlyWhenBack)
<1> SUFFICES ASSUME OneLifetime PROVE Spec => ForgottenOnlyWhenBack
  OBVIOUS
<1>1. TargetInv /\ [Next]_vars =>
        [pending # NoPending /\ pending' # pending /\ agreed' = agreed => disk' = pending.prev]_vars
  BY StepForgets
<1>2. Spec => []TargetInv
  BY TargetInvariant
<1>3. QED
  BY <1>1, <1>2, PTL DEF Spec, ForgottenOnlyWhenBack
=============================================================================
