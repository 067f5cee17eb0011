--------------------------- MODULE MCSceneDamage ----------------------------
(***************************************************************************)
(* SceneDamage for TLC: tabs and regions may be exchanged.                 *)
(***************************************************************************)
EXTENDS SceneDamage, TLC

Symmetry == Permutations(Tab) \cup Permutations(Region)

=============================================================================
