------------------------------ MODULE MCService ------------------------------
(* TLC instance of ServiceFeed: a unit with an active state, which signals   *)
(* have, and an enabled state, which is asked for.                           *)
EXTENDS ServiceFeed

CONSTANTS u1, s1, s2, active, enabled, up, down

Both(a, e) == [f \in Field |-> IF f = active THEN a ELSE e]
Looks == {Both(up, up), Both(down, up), Both(down, down)}
Stopped == Both(down, down)

\* One channel and all changes, or a second one beside the first and one change.  What
\* this leaves out no fairness asks for: a change, a list or a leaving.
OneOrLate == sub[s2].at = "off" \/ (changes <= 1 /\ sub[s1].at = "on")
=============================================================================
