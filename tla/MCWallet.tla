------------------------------ MODULE MCWallet ------------------------------
(* Small instances of Wallet for TLC. *)
EXTENDS WalletAudit, TLC

CONSTANTS a1, k1, k2, k3, h1, h2, h3

R(op, key, amount) == [op |-> op, account |-> a1, key |-> key, amount |-> amount]

Row(balance, bonus, status) ==
  [balance |-> balance, bonus |-> bonus, status |-> status, version |-> 1]

FaultRequests ==
  {R("deposit", k1, 3), R("bet", k2, 3), R("withdraw", k1, 2)}

FaultRows == {Row(2, 2, "active")}

\* One request of each kind, two of them under one key; k3 also as a request
\* whose amount the table refuses.  The win overflows MaxInt if it comes after
\* the deposit.
RaceRequests ==
  {R("deposit", k1, 3), R("withdraw", k1, 2), R("bet", k2, 3),
   R("win", k3, 4), R("win", k3, 0)}

RaceRows == {Row(1, 2, "active"), Row(1, 2, "suspended")}

\* The account CreateAccount makes, and one deposit.
AuditRequests == {R("deposit", k1, 1), R("bet", k2, 1)}

AuditRows == {Row(0, 0, "active")}

Symmetry == Permutations(Handlers)
=============================================================================
