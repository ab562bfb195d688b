-------------------------- MODULE MCInterventions --------------------------
(* Small instances of Interventions for TLC. *)
EXTENDS Interventions, TLC
CONSTANTS ka, kb, kc, sa, sb

\* Two cycles of one session and one of another.
MCSession == [k \in Keys |-> IF k = kc THEN sb ELSE sa]
Symmetry == Permutations({ka, kb} \cap Keys)
=============================================================================
