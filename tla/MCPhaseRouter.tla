--------------------------- MODULE MCPhaseRouter ---------------------------
(* Instances of PhaseRouter for TLC. *)
EXTENDS PhaseRouter, TLC

MCSymmetry == Permutations(Callers) \union Permutations(Slots)
=============================================================================
