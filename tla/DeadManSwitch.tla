--------------------------- MODULE DeadManSwitch ---------------------------
(***************************************************************************)
(* What the network controller promises, with its timers, its mutex and    *)
(* Netplan left out: a change is tried from the agreed configuration only, *)
(* a trial ends by going back to it or by being agreed on, and it does end *)
(* ("Network changes need a dead-man switch", docs/BIG-PICTURE.md).        *)
(***************************************************************************)
CONSTANT Configuration

VARIABLES
  live,   \* the configuration in force
  agreed  \* the configuration last confirmed

dvars == <<live, agreed>>

DInit == live \in Configuration /\ agreed = live

Begin ==
  /\ live = agreed
  /\ live' \in Configuration
  /\ UNCHANGED agreed

Keep == agreed' = live /\ UNCHANGED live

Revert == live' = agreed /\ UNCHANGED agreed

\* A confirmation that comes after the fallback, and puts the change back.
KeepLate ==
  /\ live = agreed
  /\ live' \in Configuration
  /\ agreed' = live'

DNext == Begin \/ Keep \/ Revert \/ KeepLate

DSpec == DInit /\ [][DNext]_dvars

\* No trial lasts for ever.
DFairSpec == DSpec /\ WF_dvars(Keep \/ Revert)
=============================================================================
