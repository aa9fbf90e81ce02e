---------------------------- MODULE WalletDomain ----------------------------
(***************************************************************************)
(* The transactions of services/wallet/internal/domain/models.go: what     *)
(* NewTransaction makes of a balance, and what IsCredit and IsDebit say of *)
(* the result.  The wallet service declares transaction types of its own.  *)
(***************************************************************************)
EXTENDS Integers

Crediting == {"deposit", "win", "refund", "bonus_grant"}

Debiting == {"withdraw", "bet", "bonus_wager"}

TransactionType == Crediting \union Debiting \union {"adjustment"}

BalanceAfter(type, amount, before) ==
  IF type \in Crediting THEN before + amount
  ELSE IF type \in Debiting THEN before - amount
  ELSE before

NewTransaction(type, amount, before) ==
  [type |-> type, amount |-> amount, before |-> before,
   after |-> BalanceAfter(type, amount, before), status |-> "pending",
   completed |-> FALSE]

Transaction ==
  [type : TransactionType, amount : Int, before : Int, after : Int,
   status : {"pending", "completed", "failed", "reversed"},
   completed : BOOLEAN]

\* Neither method looks at the status; completed: CompletedAt is set.
Complete(t) == [t EXCEPT !.status = "completed", !.completed = TRUE]

Fail(t) == [t EXCEPT !.status = "failed"]

IsCredit(t) == t.type \in {"deposit", "win", "refund"}

IsDebit(t) == t.type \in {"withdraw", "bet"}
=============================================================================
