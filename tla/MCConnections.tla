---------------------------- MODULE MCConnections ----------------------------
(***************************************************************************)
(* Signaling for TLC without faults: how an offer gets its answer, under   *)
(* the fairness of requests and clients, while an administrator deletes    *)
(* the task; and two administrators who delete it at the same time. Those  *)
(* are for the safety property: without a runner, its fairness leaves only *)
(* the behaviours in which they do delete the offers.                      *)
(***************************************************************************)
EXTENDS Signaling, TLC

CONSTANTS b1, r1, a1, a2

VARIABLE active   \* the clients that make requests

vars == <<active, signalingVars>>

Init == SignalingInit /\ active \in {{b1, r1, a1}, {b1, a1, a2}}

Next ==
  /\ UNCHANGED active
  /\ FaultFree
  /\ \A p \in Clients \ active : tx'[p] = Idle

Spec == Init /\ [][Next]_vars /\ SignalingFairness

TwoOffers == {1, 2}
=============================================================================
