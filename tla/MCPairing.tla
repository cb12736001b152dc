------------------------------ MODULE MCPairing ------------------------------
(* Instances of Pairing for TLC. *)
EXTENDS Pairing, TLC

CONSTANTS d1, d2, p1, p2, f1, f2

\* Devices, tickets and approvals are interchangeable.
PairingSymmetry ==
  Permutations(Devices) \cup Permutations(Tickets) \cup Permutations(Flows)
===============================================================================
