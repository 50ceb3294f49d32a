----------------------------- MODULE MCReplicas -----------------------------
(* Small instances of Replicas.                                              *)
EXTENDS Replicas, TLC

CONSTANTS r1, r2

Two == {r1, r2}
Symmetry == Permutations(Two)

=============================================================================
