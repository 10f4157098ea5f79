-------------------------- MODULE MCWritePermission --------------------------
(* Small instances of WritePermission. *)
EXTENDS WritePermission, TLC

Symmetry == Permutations(PVs)

=============================================================================
