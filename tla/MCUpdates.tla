------------------------------ MODULE MCUpdates ------------------------------
(* TLC instance of UpdatesWorker: c1 and c2 are one request, c3 is another   *)
(* one, for a plan with nothing to install.                                  *)
EXTENDS UpdatesWorker

CONSTANTS c1, c2, c3, r1, r2, p1, p2, w1

Requests == [c \in Call |-> IF c = c3 THEN r2 ELSE r1]
Plans == [c \in Call |-> IF c = c3 THEN p2 ELSE p1]
Watching == [w \in Watcher |-> r1]
=============================================================================
