------------------------------ MODULE MCGateway ------------------------------
(* TLC instance of Gateway: logins of one name, the last of which makes the  *)
(* delay run over; two sessions, of which t1 is proved twice and acted upon  *)
(* and t2 is proved once.                                                    *)
EXTENDS Gateway

CONSTANTS l1, l2, l3, l4, k1, t1, t2, r1, r2, r3, a1

OneKey == [l \in Attempt |-> k1]
Proven == [r \in Reauth |-> IF r = r3 THEN t2 ELSE t1]
ActsOnT1 == [a \in Action |-> t1]

\* The limiter and the proofs share no state but the sessions and the clock: all four
\* logins in a longer time, or two in a shorter one beside the proofs and the action.
Apart ==
  \/ \A r \in Reauth, a \in Action : reauth[r].at = "new" /\ action[a].at = "new"
  \/ \A l \in {l3, l4} : attempt[l] = "new" /\ now <= 3
=============================================================================
