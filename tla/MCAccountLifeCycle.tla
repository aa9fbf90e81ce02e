------------------------- MODULE MCAccountLifeCycle -------------------------
(* Small instances of AccountLifeCycle for TLC. *)
EXTENDS AccountLifeCycle, TLC

Symmetry ==
  Permutations(Players) \union Permutations(Callers) \union Permutations(Ids)
=============================================================================
