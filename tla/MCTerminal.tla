----------------------------- MODULE MCTerminal -----------------------------
(* TLC instances of Terminal.                                              *)
EXTENDS Terminal, TLC

CONSTANTS c1, c2, c3

\* Clients differ in nothing but their name; used by runs without liveness.
Clients == Permutations(Client)
=============================================================================
