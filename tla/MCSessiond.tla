----------------------------- MODULE MCSessiond -----------------------------
(* TLC instances of Sessiond: l1 and l2 are alice's logins, l3 is bob's.   *)
EXTENDS Sessiond

CONSTANTS l1, l2, l3, alice, bob

Users == [l \in Login |-> IF l = l3 THEN bob ELSE alice]
=============================================================================
