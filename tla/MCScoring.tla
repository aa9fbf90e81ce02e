----------------------------- MODULE MCScoring ------------------------------
(***************************************************************************)
(* An instance of Scoring for TLC: one account with transactions of two    *)
(* neighbouring minutes, and a large withdrawal from it.                   *)
(***************************************************************************)
EXTENDS Scoring

CONSTANTS u1, s1, d1, i1, e1, e2, phone

TheEvents ==
  {[id |-> e1, ts |-> 1, amount |-> 1, device |-> None, ip |-> None],
   [id |-> e2, ts |-> 2, amount |-> 2, device |-> d1, ip |-> i1]}

TheRequests == {[txType |-> "withdraw", large |-> TRUE, ids |-> {phone}]}

TheBatchRows ==
  {[accountAge |-> 30, deposits |-> 1000, withdrawals |-> 900, depositCount |-> 2, claims |-> 4]}

TheSettings == {[block |-> 80, review |-> 50], [block |-> 50, review |-> 30]}
=============================================================================
