-------------------------- MODULE MCDamageHistory --------------------------
(* Partial repaints on a small instance for TLC.                           *)
EXTENDS DamageHistory, TLC

\* The cells are interchangeable.
CellSymmetry == Permutations(Cells)
=============================================================================
