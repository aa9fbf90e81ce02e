---------------------------- MODULE WalletAudit ----------------------------
(***************************************************************************)
(* The audit queries of services/wallet/internal/repository/postgres.go    *)
(* over the tables of Wallet, and what they should find once no handler    *)
(* works on the account.  They only read.                                  *)
(***************************************************************************)
EXTENDS Wallet, Functions

Signed(entry) == IF entry.entry = "credit" THEN entry.amount ELSE -entry.amount

GetAccountBalance(a) ==
  LET entries == {i \in 1..Len(ledger) : ledger[i].tx[1] = a}
  IN  SumFunctionOnSet([i \in entries |-> Signed(ledger[i])], entries)

VerifyBalance(a) == accounts[a].balance = GetAccountBalance(a)

\* The completed rows of one type; all rows of a behaviour are of one day.
TotalOf(a, type) ==
  LET counted == {t \in TxIds : t[1] = a /\ transactions[t] # Null
                                /\ transactions[t].status = "completed"
                                /\ transactions[t].type = type}
  IN  SumFunctionOnSet([t \in counted |-> transactions[t].amount], counted)

GetDailyStats(a) ==
  [deposits    |-> TotalOf(a, "deposit"), bets |-> TotalOf(a, "bet"),
   withdrawals |-> TotalOf(a, "withdraw"), wins |-> TotalOf(a, "win")]

-----------------------------------------------------------------------------

\* Without failures the ledger and the daily statistics both explain, to the
\* cent, how an account came from its opening row to its present total of real
\* and bonus money, whatever raced on it.
BooksExplainTotal ==
  Faults = {} =>
    \A a \in Accounts : Quiet(a) =>
      \E row \in OpeningRows :
        LET stats == GetDailyStats(a)
            moved == accounts[a].balance + accounts[a].bonus - row.balance - row.bonus
        IN  /\ row.status = accounts[a].status
            /\ moved = GetAccountBalance(a)
            /\ moved = stats.deposits + stats.wins - stats.bets - stats.withdrawals

\* "Double-entry bookkeeping ensures balance consistency", and "ACID
\* guarantees": an account no handler works on passes VerifyBalance.
LedgerMatchesBalance ==
  \A a \in Accounts : Quiet(a) => VerifyBalance(a)
=============================================================================
