------------------------- MODULE NetworkController -------------------------
(***************************************************************************)
(* The network dead-man switch (internal/network): a candidate Netplan     *)
(* configuration is tried, and unless it is confirmed in time the previous *)
(* one comes back.  Two clocks guard it: Netplan's own Try timer, started  *)
(* first, and the controller's timer, which cancels the trial, re-reads    *)
(* the merged configuration and forgets the change only when that matches  *)
(* what it was before.                                                     *)
(*                                                                         *)
(* Apply, Confirm and expire run under one mutex.  The steps below are the *)
(* D-Bus calls they make while they hold it, because Netplan's timer and a *)
(* crash do not wait for the mutex.  A configuration is the set of changes *)
(* merged in it; its revision is the set itself (SHA-256 is injective).    *)
(***************************************************************************)
EXTENDS Naturals, FiniteSets

CONSTANTS
  Call,      \* the network.applyWithRollback calls; also the tokens they return
  NoCall,    \* stands for "no call"
  Change,    \* the changes a candidate may make to the configuration
  ChangeOf,  \* ChangeOf[c]: the change call c asks for
  MayFail,   \* may a D-Bus call fail without effect?
  MayLose,   \* the Netplan methods that may take effect and still report an error
  MayCrash   \* may the broker process crash?

ASSUME NetworkAssumption ==
  /\ NoCall \notin Call
  /\ ChangeOf \in [Call -> Change]
  /\ MayFail \in BOOLEAN
  /\ MayLose \subseteq {"try", "apply"}
  /\ MayCrash \in BOOLEAN

VARIABLES
  disk,      \* the merged configuration a new Netplan Config object reads
  try,       \* Netplan's running Try: whose, what it falls back to, time up?
  pending,   \* Controller.pending: the call and its PreviousRevision
  over,      \* has pending.ExpiresAt passed?
  timer,     \* timer[c]: the time.AfterFunc that runs expire(token of c)
  mu,        \* who is inside the mutex, and how far
  phase,     \* phase[c]: has the client sent c, has it been answered?
  expected,  \* expected[c]: the revision the client read before it sent c
  agreed     \* what the client last knows to be in force (history)

vars == <<disk, try, pending, over, timer, mu, phase, expected, agreed>>

Configuration == SUBSET Change
NoTry == [of |-> NoCall, base |-> {}, due |-> FALSE]
NoPending == [call |-> NoCall, prev |-> {}]
Free == [by |-> NoCall, at |-> "free"]
Place == {"free", "rollback", "create", "opened", "confirm", "expire"}

Candidate(c) == expected[c] \cup {ChangeOf[c]}

(***************************************************************************)
(* Netplan, as the backend's five calls use it.                            *)
(***************************************************************************)
\* Mutant of Cancel: the snapshot is written back instead of Netplan's fallback.
CancelToSnapshot(c) ==
  IF try.of = c THEN disk' = expected[c] /\ try' = NoTry ELSE UNCHANGED <<disk, try>>

\* Cancel reverts the object's Try if it has one; it may also fail.
Cancel(c) ==
  \/ IF try.of = c THEN disk' = try.base /\ try' = NoTry ELSE UNCHANGED <<disk, try>>
  \/ MayFail /\ UNCHANGED <<disk, try>>

\* One Try at a time.
Try(c) ==
  /\ try.of = NoCall
  /\ disk' = Candidate(c)
  /\ try' = [of |-> c, base |-> disk, due |-> FALSE]

\* Apply of the object's content; it ends the object's Try.
Commit(c) ==
  /\ disk' = Candidate(c)
  /\ try' = NoTry

\* Mutant of NetplanElapses: Try is called without a timeout.
NetplanWithoutTimeout == FALSE /\ UNCHANGED vars

NetplanElapses ==
  /\ try.of # NoCall /\ ~try.due
  /\ try' = [try EXCEPT !.due = TRUE]
  /\ UNCHANGED <<disk, pending, over, timer, mu, phase, expected, agreed>>

NetplanReverts ==
  /\ try.due
  /\ disk' = try.base /\ try' = NoTry
  /\ UNCHANGED <<pending, over, timer, mu, phase, expected, agreed>>

(***************************************************************************)
(* Apply.                                                                  *)
(***************************************************************************)
\* The client reads a snapshot (also during a trial) and sends its change.
Send(c) ==
  /\ phase[c] = "idle"
  /\ phase' = [phase EXCEPT ![c] = "sent"]
  /\ expected' = [expected EXCEPT ![c] = disk]
  /\ UNCHANGED <<disk, try, pending, over, timer, mu, agreed>>

\* Stop has no effect on a callback that already runs and waits for the mutex.
Stop(c) == timer' = [timer EXCEPT ![c] = IF @ = "armed" THEN "none" ELSE @]

Leave(c) == mu' = Free /\ phase' = [phase EXCEPT ![c] = "done"]

ApplyBusy(c) ==
  /\ mu = Free /\ phase[c] = "sent"
  /\ pending # NoPending /\ ~over
  /\ phase' = [phase EXCEPT ![c] = "done"]
  /\ UNCHANGED <<disk, try, pending, over, timer, mu, expected, agreed>>

\* The pending change is past its window: rollbackAndVerify, first half.
ApplyRollback(c) ==
  /\ mu = Free /\ phase[c] = "sent"
  /\ pending # NoPending /\ over
  /\ Cancel(pending.call)
  /\ mu' = [by |-> c, at |-> "rollback"]
  /\ UNCHANGED <<pending, over, timer, phase, expected, agreed>>

\* Second half: what a new Config object reads is the previous revision.
ApplyVerified(c) ==
  /\ mu = [by |-> c, at |-> "rollback"]
  /\ disk = pending.prev
  /\ Stop(pending.call)
  /\ pending' = NoPending /\ over' = FALSE
  /\ mu' = [by |-> c, at |-> "create"]
  /\ UNCHANGED <<disk, try, phase, expected, agreed>>

ApplyUnverified(c) ==
  /\ mu = [by |-> c, at |-> "rollback"]
  /\ disk # pending.prev \/ MayFail
  /\ Leave(c)
  /\ UNCHANGED <<disk, try, pending, over, timer, expected, agreed>>

ReadyToCreate(c) ==
  \/ mu = Free /\ phase[c] = "sent" /\ pending = NoPending
  \/ mu = [by |-> c, at |-> "create"]

\* Mutant of ApplyCreate: the expected revision is trusted, not compared.
ApplyCreateUnchecked(c) ==
  /\ ReadyToCreate(c)
  /\ mu' = [by |-> c, at |-> "opened"]
  /\ UNCHANGED <<disk, try, pending, over, timer, phase, expected, agreed>>

ApplyCreate(c) ==
  /\ ReadyToCreate(c)
  /\ disk = expected[c]
  /\ mu' = [by |-> c, at |-> "opened"]
  /\ UNCHANGED <<disk, try, pending, over, timer, phase, expected, agreed>>

\* StaleError, or the object could not be created: nothing is left behind.
ApplyStale(c) ==
  /\ ReadyToCreate(c)
  /\ disk # expected[c] \/ MayFail
  /\ Leave(c)
  /\ UNCHANGED <<disk, try, pending, over, timer, expected, agreed>>

\* Set and Try succeed: the change is pending and its timer runs.
ApplyTry(c) ==
  /\ mu = [by |-> c, at |-> "opened"]
  /\ Try(c)
  /\ pending' = [call |-> c, prev |-> expected[c]]
  /\ over' = FALSE
  /\ timer' = [timer EXCEPT ![c] = "armed"]
  /\ Leave(c)
  /\ UNCHANGED <<expected, agreed>>

\* Set or Try is refused, and the deferred cancel discards the object.
ApplyTryFails(c) ==
  /\ mu = [by |-> c, at |-> "opened"]
  /\ try.of # NoCall \/ MayFail
  /\ Leave(c)
  /\ UNCHANGED <<disk, try, pending, over, timer, expected, agreed>>

\* Try takes effect, its reply is lost, and the deferred cancel fails as well:
\* a trial the controller knows nothing of, left to Netplan's own timer.
ApplyTryLost(c) ==
  /\ "try" \in MayLose /\ MayFail
  /\ mu = [by |-> c, at |-> "opened"]
  /\ Try(c)
  /\ Leave(c)
  /\ UNCHANGED <<pending, over, timer, expected, agreed>>

(***************************************************************************)
(* Confirm(token of c).  The refusals (no pending change, another token,   *)
(* window over) change nothing and are no steps here.                      *)
(***************************************************************************)
ConfirmChecked(c) ==
  /\ mu = Free
  /\ pending.call = c /\ c # NoCall /\ ~over
  /\ mu' = [by |-> c, at |-> "confirm"]
  /\ UNCHANGED <<disk, try, pending, over, timer, phase, expected, agreed>>

Confirmed(c) ==
  /\ mu = [by |-> c, at |-> "confirm"]
  /\ Commit(c)
  /\ Stop(c)
  /\ pending' = NoPending /\ over' = FALSE
  /\ agreed' = Candidate(c)
  /\ mu' = Free
  /\ UNCHANGED <<phase, expected>>

\* Netplan refuses (it may have reverted on its own already) or the call fails.
ConfirmFails(c) ==
  /\ mu = [by |-> c, at |-> "confirm"]
  /\ try.of # c \/ MayFail
  /\ mu' = Free
  /\ UNCHANGED <<disk, try, pending, over, timer, phase, expected, agreed>>

\* Netplan commits, but the controller and the client see an error.
ConfirmLost(c) ==
  /\ "apply" \in MayLose
  /\ mu = [by |-> c, at |-> "confirm"]
  /\ Commit(c)
  /\ mu' = Free
  /\ UNCHANGED <<pending, over, timer, phase, expected, agreed>>

(***************************************************************************)
(* The controller's timer.                                                 *)
(***************************************************************************)
\* ExpiresAt is computed after Try returned, so Netplan's time is up before.
WindowEnds ==
  /\ pending # NoPending /\ ~over
  /\ try.of = pending.call => try.due
  /\ over' = TRUE
  /\ UNCHANGED <<disk, try, pending, timer, mu, phase, expected, agreed>>

Fire(c) ==
  /\ timer[c] = "armed" /\ over
  /\ timer' = [timer EXCEPT ![c] = "fired"]
  /\ UNCHANGED <<disk, try, pending, over, mu, phase, expected, agreed>>

\* expire with the token of a change that is no longer the pending one.
ExpireStale(c) ==
  /\ mu = Free /\ timer[c] = "fired"
  /\ pending.call # c
  /\ timer' = [timer EXCEPT ![c] = "none"]
  /\ UNCHANGED <<disk, try, pending, over, mu, phase, expected, agreed>>

\* Mutant of ExpireCancel: the token is not compared with the pending one.
ExpireCancelAnyToken(c) ==
  /\ mu = Free /\ timer[c] = "fired"
  /\ pending # NoPending
  /\ Cancel(pending.call)
  /\ timer' = [timer EXCEPT ![c] = "none"]
  /\ mu' = [by |-> c, at |-> "expire"]
  /\ UNCHANGED <<pending, over, phase, expected, agreed>>

ExpireCancel(c) ==
  /\ mu = Free /\ timer[c] = "fired"
  /\ pending.call = c
  /\ Cancel(c)
  /\ timer' = [timer EXCEPT ![c] = "none"]
  /\ mu' = [by |-> c, at |-> "expire"]
  /\ UNCHANGED <<pending, over, phase, expected, agreed>>

\* Mutant of ExpireVerified: cancel is believed, the configuration not re-read.
ExpireUnverified(c) ==
  /\ mu = [by |-> c, at |-> "expire"]
  /\ pending' = NoPending /\ over' = FALSE
  /\ mu' = Free
  /\ UNCHANGED <<disk, try, timer, phase, expected, agreed>>

ExpireVerified(c) ==
  /\ mu = [by |-> c, at |-> "expire"]
  /\ disk = pending.prev
  /\ pending' = NoPending /\ over' = FALSE
  /\ mu' = Free
  /\ UNCHANGED <<disk, try, timer, phase, expected, agreed>>

\* Mutant of ExpireRetry: the timer is not armed again.
ExpireGivesUp(c) ==
  /\ mu = [by |-> c, at |-> "expire"]
  /\ disk # pending.prev \/ MayFail
  /\ mu' = Free
  /\ UNCHANGED <<disk, try, pending, over, timer, phase, expected, agreed>>

\* Try again in five seconds.
ExpireRetry(c) ==
  /\ mu = [by |-> c, at |-> "expire"]
  /\ disk # pending.prev \/ MayFail
  /\ timer' = [timer EXCEPT ![c] = "armed"]
  /\ mu' = Free
  /\ UNCHANGED <<disk, try, pending, over, phase, expected, agreed>>

\* The process dies.  Netplan and its running Try do not.
Crash ==
  /\ MayCrash
  /\ mu # Free \/ pending # NoPending
  /\ mu' = Free /\ pending' = NoPending /\ over' = FALSE
  /\ timer' = [c \in Call |-> "none"]
  /\ phase' = [c \in Call |-> IF phase[c] = "sent" THEN "done" ELSE phase[c]]
  /\ UNCHANGED <<disk, try, expected, agreed>>

Idle ==
  /\ \A c \in Call : phase[c] = "done" /\ timer[c] = "none"
  /\ mu = Free /\ pending = NoPending /\ try = NoTry
  /\ UNCHANGED vars

Init ==
  /\ disk \in Configuration /\ agreed = disk
  /\ try = NoTry /\ pending = NoPending /\ over = FALSE
  /\ timer = [c \in Call |-> "none"]
  /\ mu = Free
  /\ phase = [c \in Call |-> "idle"]
  /\ expected = [c \in Call |-> {}]

Apply(c) ==
  \/ ApplyBusy(c) \/ ApplyRollback(c) \/ ApplyVerified(c) \/ ApplyUnverified(c)
  \/ ApplyCreate(c) \/ ApplyStale(c)
  \/ ApplyTry(c) \/ ApplyTryFails(c) \/ ApplyTryLost(c)

Answer(c) == Confirmed(c) \/ ConfirmFails(c) \/ ConfirmLost(c)

Expire(c) == ExpireStale(c) \/ ExpireCancel(c) \/ ExpireVerified(c) \/ ExpireRetry(c)

Next ==
  \/ \E c \in Call : Send(c) \/ Apply(c) \/ ConfirmChecked(c) \/ Answer(c) \/ Fire(c) \/ Expire(c)
  \/ NetplanElapses \/ NetplanReverts \/ WindowEnds
  \/ Crash
  \/ Idle

Spec == Init /\ [][Next]_vars

\* Clocks advance, timers fire and whoever holds the mutex gets on (every D-Bus
\* call has a deadline).  Nobody need send or confirm.  The re-read after a
\* rollback does not fail for ever: the strong fairness of ExpireVerified.
FairSpec ==
  /\ Spec
  /\ WF_vars(NetplanElapses) /\ WF_vars(NetplanReverts) /\ WF_vars(WindowEnds)
  /\ \A c \in Call :
       /\ WF_vars(Apply(c)) /\ WF_vars(Answer(c))
       /\ WF_vars(Fire(c)) /\ WF_vars(Expire(c))
       /\ SF_vars(ExpireVerified(c))

-----------------------------------------------------------------------------
(***************************************************************************)
(* Properties.                                                             *)
(***************************************************************************)
\* Every variable stays within its range.
TypeOK ==
  /\ disk \in Configuration /\ agreed \in Configuration
  /\ try \in [of : Call \cup {NoCall}, base : Configuration, due : BOOLEAN]
  /\ pending \in [call : Call \cup {NoCall}, prev : Configuration]
  /\ over \in BOOLEAN
  /\ timer \in [Call -> {"none", "armed", "fired"}]
  /\ mu \in [by : Call \cup {NoCall}, at : Place]
  /\ phase \in [Call -> {"idle", "sent", "done"}]
  /\ expected \in [Call -> Configuration]

\* Whatever Apply, Confirm, the two timers and a crash do to each other: with no
\* trial running the configuration is the one last confirmed, and a running
\* trial falls back to it (Confirm, expire, and the deferred cancel in Apply).
UnconfirmedNeverStays ==
  IF try.of = NoCall THEN disk = agreed ELSE try.base = agreed

\* The revision a pending change is rolled back to, and verified against, is the
\* confirmed configuration, not that of somebody's trial: otherwise the
\* verification in rollbackAndVerify never succeeds.
RollbackTargetIsAgreed ==
  pending # NoPending => pending.prev = agreed

\* A pending change disappears only when it is confirmed or its window is over:
\* no late timer of an earlier change takes it away (the token and path check in
\* expire), and neither does a second Apply.
NeverDroppedEarly ==
  [][pending # NoPending /\ pending' # pending => over \/ agreed' = Candidate(pending.call)]_vars

\* A change is forgotten unconfirmed only when the previous configuration was
\* seen to be back (rollbackAndVerify, for expire and for Apply).
ForgottenOnlyWhenBack ==
  [][pending # NoPending /\ pending' # pending /\ agreed' = agreed => disk' = pending.prev]_vars

\* The controller and Netplan together are a dead-man switch: whatever they do
\* is a trial begun, kept, or undone (Apply, Confirm, expire, Netplan's timer).
Switch == INSTANCE DeadManSwitch WITH live <- disk
ImplementsDeadManSwitch == Switch!DSpec

\* The same, and every trial ends, one the controller has forgotten too.
ImplementsFairDeadManSwitch == Switch!DFairSpec

\* Netplan has committed the pending change, and Confirm was told it had not.
KeptUnknowingly == try = NoTry /\ disk = Candidate(pending.call) /\ disk # pending.prev

\* A pending change does not stay pending, and Apply is not refused for ever, unless
\* the answer of Confirm's Apply was lost (expire, rollbackAndVerify).
PendingResolves == (pending # NoPending) ~> (pending = NoPending \/ KeptUnknowingly)

\* A configuration nobody confirmed does not stay in force.  It may, when the answer of
\* Confirm's Apply is lost: no run checks this, see the README, section 4.
UnconfirmedReverts == (disk # agreed) ~> (disk = agreed)
=============================================================================
