-------------------------- MODULE IdempotentAction --------------------------
(***************************************************************************)
(* What the broker promises about a requestId, with everything else left   *)
(* out: of the calls that a crash did not cut short at most one executes   *)
(* the request, it is given at most one verdict, nothing is executed after *)
(* the verdict, and what is reported as succeeded was executed by a call   *)
(* that lived to say so.  The documentation's wording is "performs no      *)
(* second mutation" (docs/PROTOCOL.md, Idempotency and preconditions).     *)
(***************************************************************************)
CONSTANTS Call, RequestId

VARIABLES
  executedBy,  \* executedBy[r]: the calls whose executor ran for request r
  verdict,     \* verdict[r]: what is on record for r
  lost         \* the calls a crash cut short

avars == <<executedBy, verdict, lost>>

AInit ==
  /\ executedBy = [r \in RequestId |-> {}]
  /\ verdict = [r \in RequestId |-> "none"]
  /\ lost = {}

Execute(r, c) ==
  /\ verdict[r] = "none" /\ executedBy[r] \subseteq lost
  /\ executedBy' = [executedBy EXCEPT ![r] = @ \cup {c}]
  /\ UNCHANGED <<verdict, lost>>

Decide(r, v) ==
  /\ verdict[r] = "none"
  /\ v = "denied" => executedBy[r] \subseteq lost
  /\ v = "success" => ~(executedBy[r] \subseteq lost)
  /\ verdict' = [verdict EXCEPT ![r] = v]
  /\ UNCHANGED <<executedBy, lost>>

\* The executor was called, failed at once and the failure is on record.
ExecuteAndFail(r, c) ==
  /\ verdict[r] = "none" /\ executedBy[r] \subseteq lost
  /\ executedBy' = [executedBy EXCEPT ![r] = @ \cup {c}]
  /\ verdict' = [verdict EXCEPT ![r] = "failed"]
  /\ UNCHANGED lost

Lose ==
  /\ lost' \in SUBSET Call /\ lost \subseteq lost'
  /\ UNCHANGED <<executedBy, verdict>>

ANext ==
  \/ \E r \in RequestId :
       \/ \E c \in Call : Execute(r, c) \/ ExecuteAndFail(r, c)
       \/ \E v \in {"success", "failed", "denied"} : Decide(r, v)
  \/ Lose

ASpec == AInit /\ [][ANext]_avars
=============================================================================
