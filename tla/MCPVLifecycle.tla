--------------------------- MODULE MCPVLifecycle ---------------------------
(* PVLifecycle with model values for TLC: the PV that may be written has     *)
(* events of the control system, a connection and its loss, the other none.  *)
EXTENDS PVLifecycle, TLC

Events   == [p \in PVs |-> IF p \in Writable THEN 2 ELSE 0]
OneEvent == [p \in PVs |-> IF p \in Writable THEN 1 ELSE 0]

Symmetry == Permutations(Ids)

=============================================================================
