----------------------------- MODULE MCNetwork -----------------------------
(* TLC instances of NetworkController.                                     *)
EXTENDS NetworkController

CONSTANTS a1, a2, a3, x, y

\* a1 and a2 ask for different changes; a3, where there is one, repeats a1's.
Changes == [c \in Call |-> IF c = a2 THEN y ELSE x]
=============================================================================
