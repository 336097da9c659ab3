------------------------------ MODULE MCBroker ------------------------------
(* TLC instances of Broker: who sends what is fixed per configuration.     *)
EXTENDS Broker

CONSTANTS c1, c2, c3, r1, r2, u1

Requests == [c \in Call |-> IF c = c3 THEN r2 ELSE r1]

(* Service actions on one unit: c1 is a restart that insists on an active  *)
(* unit, c2 its repetition, c3 stops the unit as it finds it.              *)
UnitKinds == [c \in Call |-> "service"]
UnitOps == [c \in Call |-> IF c = c3 THEN "stop" ELSE "restart"]
UnitUnits == [c \in Call |-> u1]
UnitExpected == [c \in Call |-> IF c = c3 THEN "any" ELSE "active"]

(* The other executors: c1 and c2 are one package apply, c3 writes a       *)
(* protected file and restarts u1.                                         *)
ApplyKinds == [c \in Call |-> IF c = c3 THEN "direct" ELSE "apply"]
ApplyOps == [c \in Call |-> IF c = c3 THEN "restart" ELSE "none"]
ApplyUnits == [c \in Call |-> IF c = c3 THEN u1 ELSE NoUnit]
ApplyExpected == [c \in Call |-> "any"]
=============================================================================
