--------------------------- MODULE MCFeatureStore ---------------------------
(***************************************************************************)
(* An instance of FeatureStore for TLC: one account, events without a      *)
(* device or an IP, and one that the sorted set cannot tell from another.  *)
(***************************************************************************)
EXTENDS FeatureStore, TLC

CONSTANTS u1, u2, d1, d2, i1, e1, e2, e3, e4

TheEvents ==
  {[id |-> e1, ts |-> 1, amount |-> 1, device |-> None, ip |-> i1],
   [id |-> e2, ts |-> 1, amount |-> 1, device |-> d2, ip |-> i1],
   [id |-> e3, ts |-> 3, amount |-> 1, device |-> None, ip |-> None],
   [id |-> e4, ts |-> 4, amount |-> 2, device |-> d1, ip |-> None]}

\* Goroutines are interchangeable.
Symmetry == Permutations(Updaters)
=============================================================================
