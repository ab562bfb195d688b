---------------------------- MODULE MCMemoryUpdate ----------------------------
(* Instances of MemoryUpdate for TLC. *)
EXTENDS MemoryUpdate, TLC

CONSTANTS f, g
Symmetry == Permutations({f, g})
==============================================================================
