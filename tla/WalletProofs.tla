---------------------------- MODULE WalletProofs ----------------------------
(***************************************************************************)
(* Theorems about Wallet and the queries of WalletAudit, for every value   *)
(* of their constants.                                                     *)
(***************************************************************************)
EXTENDS WalletAudit, Sums, TLAPS

-----------------------------------------------------------------------------
(* What the handlers' policies return.                                     *)

\* A sum or difference of two int64 values wraps to an int64 value, and to
\* itself when it is one.
LEMMA WrapMoney ==
  ASSUME NEW x \in Int, x >= 2 * MinInt, x <= 2 * MaxInt + 1
  PROVE  /\ Wrap(x) \in Money
         /\ x \in Money => Wrap(x) = x
  BY MaxIntAssumption DEF Wrap, Money, MinInt

\* Whatever a handler computes from a row of the table is an int64 value.
LEMMA PolicyMoney ==
  ASSUME NEW r \in Requests, NEW row \in AccountRow
  PROVE  /\ Policy(r, row).balance \in Money
         /\ Policy(r, row).bonus \in Money
         /\ Policy(r, row).before \in Money
         /\ Policy(r, row).after \in Money
<1>1. /\ row.balance \in 0..MaxInt
      /\ row.bonus \in 0..MaxInt
      /\ r.amount \in Money
      /\ r.op \in Ops
  BY RequestsAssumption DEF AccountRow
<1>2. /\ Total(row) \in Money
      /\ Wrap(row.balance + r.amount) \in Money
      /\ Wrap(row.balance - r.amount) \in Money
      /\ Wrap(row.bonus - r.amount) \in Money
  BY <1>1, WrapMoney, MaxIntAssumption DEF Total, Money, MinInt
<1>3. ASSUME NEW n \in Money PROVE Wrap(n + row.bonus) \in Money
  BY <1>1, WrapMoney, MaxIntAssumption DEF Money, MinInt
<1>4. CASE r.op = "deposit"
  BY <1>1, <1>2, <1>4, MaxIntAssumption DEF Policy, Deposit, Money, MinInt
<1>5. CASE r.op = "bet"
  <2>1. CASE row.bonus >= r.amount
    <3>1. Wrap(row.balance + Wrap(row.bonus - r.amount)) \in Money
      BY <1>1, <1>2, WrapMoney, MaxIntAssumption DEF Money, MinInt
    <3> QED BY <1>1, <1>2, <1>5, <2>1, <3>1, MaxIntAssumption
            DEF Policy, Bet, Money, MinInt
  <2>2. CASE ~(row.bonus >= r.amount)
    <3> DEFINE n == row.balance - (r.amount - row.bonus)
    <3>1. n \in Money
      BY <1>1, <2>2, MaxIntAssumption DEF Money, MinInt
    <3>2. Wrap(n + 0) \in Money
      BY <3>1, WrapMoney, MaxIntAssumption DEF Money, MinInt
    <3> QED BY <1>1, <1>2, <1>5, <2>2, <3>1, <3>2, MaxIntAssumption
            DEF Policy, Bet, Money, MinInt
  <2> QED BY <2>1, <2>2
<1>6. CASE r.op = "win"
  BY <1>1, <1>2, <1>3, <1>6, MaxIntAssumption DEF Policy, Win, Money, MinInt
<1>7. CASE r.op = "withdraw"
  BY <1>1, <1>2, <1>3, <1>7, MaxIntAssumption DEF Policy, Withdraw, Money, MinInt
<1> QED BY <1>1, <1>4, <1>5, <1>6, <1>7 DEF Ops

-----------------------------------------------------------------------------
(* Type correctness.  TypeOK is not inductive alone: what a statement       *)
(* stores is well typed because the handler that runs it serves a request, *)
(* holds a row it was allowed to act on, and passed the CHECK of the        *)
(* transactions table if it owns a row there.                               *)

Holding == {"screen", "create", "update", "fail", "ledger", "complete", "publish"}

Owning == {"update", "fail", "ledger", "complete", "publish"}

Serving ==
  \A h \in Handlers :
    /\ pc[h] # "idle" => req[h] \in Requests
    /\ pc[h] \in Holding => /\ snap[h] \in AccountRow
                            /\ Policy(req[h], snap[h]).allowed
    /\ pc[h] \in Owning => req[h].amount > 0
    /\ reply[h] # "none" => req[h] \in Requests

OwnsRow ==
  \A h \in Handlers : pc[h] \in Owning => transactions[Tx(h)] # Null

TypeInv == TypeOK /\ Serving /\ OwnsRow

\* A request names an account and a transaction of the tables.
LEMMA RequestFacts ==
  ASSUME NEW r \in Requests
  PROVE  /\ r.account \in Accounts /\ r.key \in Keys
         /\ TxId(r) \in TxIds
         /\ TxId(r)[1] = r.account /\ TxId(r)[2] = r.key
         /\ r.op \in Ops /\ r.amount \in Money /\ r.amount \in Int
  BY RequestsAssumption, MaxIntAssumption DEF TxId, TxIds, Keys, Money, MinInt

LEMMA InitTypeInv == Init => TypeInv
<1> SUFFICES ASSUME Init PROVE TypeInv
  OBVIOUS
<1>1. OpeningRows \subseteq AccountRow
  BY OpeningAssumption
<1>2. TypeOK
  BY <1>1 DEF Init, TypeOK, Labels, Replies
<1>3. Serving /\ OwnsRow
  BY DEF Init, Serving, OwnsRow, Holding, Owning
<1> QED BY <1>2, <1>3 DEF TypeInv

\* A handler that returns leaves no local state behind that could be ill typed.
LEMMA ReturnTypes ==
  ASSUME TypeInv, NEW h \in Handlers, NEW answer \in Replies, Return(h, answer),
         pc[h] # "idle"
  PROVE  /\ pc' \in [Handlers -> Labels]
         /\ req' \in [Handlers -> Requests \union {Null}]
         /\ snap' \in [Handlers -> AccountRow \union {Null}]
         /\ risk' \in [Handlers -> Scores \union {Null}]
         /\ reply' \in [Handlers -> Replies]
         /\ Serving'
<1>1. /\ pc' \in [Handlers -> Labels]
      /\ req' \in [Handlers -> Requests \union {Null}]
      /\ snap' \in [Handlers -> AccountRow \union {Null}]
      /\ risk' \in [Handlers -> Scores \union {Null}]
      /\ reply' \in [Handlers -> Replies]
  BY DEF TypeInv, TypeOK, Return, Goto, Labels
<1>2. Serving'
  BY DEF TypeInv, TypeOK, Serving, Return, Goto, Holding, Owning
<1> QED BY <1>1, <1>2

\* A handler that goes on keeps its types if its next label is a label and the
\* conditions Serving attaches to that label hold.
LEMMA GotoTypes ==
  ASSUME TypeInv, NEW h \in Handlers, NEW label \in Labels, Goto(h, label), Keep,
         pc[h] # "idle",
         label \in Holding => /\ snap[h] \in AccountRow
                              /\ Policy(req[h], snap[h]).allowed,
         label \in Owning => req[h].amount > 0
  PROVE  /\ pc' \in [Handlers -> Labels]
         /\ req' \in [Handlers -> Requests \union {Null}]
         /\ snap' \in [Handlers -> AccountRow \union {Null}]
         /\ risk' \in [Handlers -> Scores \union {Null}]
         /\ reply' \in [Handlers -> Replies]
         /\ Serving'
<1>1. /\ pc' \in [Handlers -> Labels]
      /\ req' \in [Handlers -> Requests \union {Null}]
      /\ snap' \in [Handlers -> AccountRow \union {Null}]
      /\ risk' \in [Handlers -> Scores \union {Null}]
      /\ reply' \in [Handlers -> Replies]
  BY DEF TypeInv, TypeOK, Keep, Goto
<1>2. Serving'
  BY DEF TypeInv, TypeOK, Serving, Keep, Goto
<1> QED BY <1>1, <1>2

\* The row a handler inserts, the row it updates and the ledger entry it
\* appends have the column types of their tables.
LEMMA WriteTypes ==
  ASSUME TypeInv, NEW h \in Handlers, pc[h] \in Holding
  PROVE  /\ Tx(h) \in TxIds
         /\ req[h] \in Requests
         /\ Insertable(h) /\ Insert(h) => transactions' \in [TxIds -> TxRow \union {Null}]
         /\ Updatable(h) /\ WriteBalance(h) =>
              /\ accounts' \in [Accounts -> AccountRow]
              /\ commits' \in [Accounts -> Seq(Keys)]
         /\ pc[h] \in Owning =>
              [tx |-> Tx(h), entry |-> EntryType(req[h]), amount |-> req[h].amount,
               after |-> Policy(req[h], snap[h]).after] \in LedgerEntry
<1> DEFINE r == req[h]
           p == Policy(req[h], snap[h])
<1>1. r \in Requests /\ snap[h] \in AccountRow
  BY DEF TypeInv, Serving, Holding
<1>2. /\ r.account \in Accounts /\ r.key \in Keys /\ Tx(h) \in TxIds
      /\ r.op \in Ops /\ r.amount \in Money
  BY <1>1, RequestFacts DEF Tx
<1>3. p.balance \in Money /\ p.bonus \in Money /\ p.before \in Money /\ p.after \in Money
  BY <1>1, PolicyMoney
<1>4. r.amount > 0 => r.amount \in 1..MaxInt
  BY <1>2, MaxIntAssumption DEF Money, MinInt
<1>5. risk[h] \in Scores \union {Null} /\ transactions \in [TxIds -> TxRow \union {Null}]
  BY DEF TypeInv, TypeOK
<1>6. ASSUME Insertable(h), Insert(h)
      PROVE  transactions' \in [TxIds -> TxRow \union {Null}]
  <2> DEFINE row == [type |-> r.op, amount |-> r.amount, before |-> p.before,
                     after |-> p.after, score |-> risk[h], status |-> "pending"]
  <2>1. row \in TxRow
    BY <1>2, <1>3, <1>4, <1>5, <1>6 DEF TxRow, Insertable
  <2>2. transactions' = [transactions EXCEPT ![Tx(h)] = row]
    BY <1>6 DEF Insert
  <2> QED BY <1>5, <2>1, <2>2
<1>7. ASSUME Updatable(h), WriteBalance(h)
      PROVE  accounts' \in [Accounts -> AccountRow] /\ commits' \in [Accounts -> Seq(Keys)]
  <2>1. p.balance \in 0..MaxInt /\ p.bonus \in 0..MaxInt
    BY <1>3, <1>7, MaxIntAssumption DEF Updatable, Money, MinInt
  <2>2. accounts \in [Accounts -> AccountRow] /\ commits \in [Accounts -> Seq(Keys)]
    BY DEF TypeInv, TypeOK
  <2>3. accounts' \in [Accounts -> AccountRow]
    BY <1>2, <1>7, <2>1, <2>2 DEF WriteBalance, AccountRow
  <2>4. commits' \in [Accounts -> Seq(Keys)]
    BY <1>2, <1>7, <2>2 DEF WriteBalance
  <2> QED BY <2>3, <2>4
<1>8. ASSUME pc[h] \in Owning
      PROVE  [tx |-> Tx(h), entry |-> EntryType(r), amount |-> r.amount,
              after |-> p.after] \in LedgerEntry
  BY <1>2, <1>3, <1>4, <1>8 DEF LedgerEntry, EntryType, TypeInv, Serving
<1> QED BY <1>1, <1>2, <1>6, <1>7, <1>8

LEMMA StepTypeOK == TypeInv /\ [Next]_vars => TypeOK' /\ Serving'
<1> SUFFICES ASSUME TypeInv, [Next]_vars PROVE TypeOK' /\ Serving'
  OBVIOUS
<1> DEFINE TablesOK == /\ accounts \in [Accounts -> AccountRow]
                       /\ transactions \in [TxIds -> TxRow \union {Null}]
                       /\ ledger \in Seq(LedgerEntry)
                       /\ events \in Seq(TxIds)
                       /\ commits \in [Accounts -> Seq(Keys)]
           HandlersOK == /\ pc \in [Handlers -> Labels]
                         /\ req \in [Handlers -> Requests \union {Null}]
                         /\ snap \in [Handlers -> AccountRow \union {Null}]
                         /\ risk \in [Handlers -> Scores \union {Null}]
                         /\ reply \in [Handlers -> Replies]
<1>a. TablesOK /\ HandlersOK
  BY DEF TypeInv, TypeOK
<1>b. ASSUME UNCHANGED tables PROVE TablesOK'
  BY <1>a, <1>b DEF tables
<1>c. ASSUME TablesOK', HandlersOK', Serving' PROVE TypeOK' /\ Serving'
  BY <1>c DEF TypeOK
<1>1. ASSUME NEW h \in Handlers, NEW r \in Requests, Replay(h, r) PROVE TypeOK' /\ Serving'
  <2>1. TablesOK' BY <1>1, <1>b DEF Replay
  <2>2. TxId(r) \in TxIds BY RequestFacts
  <2>3. transactions[TxId(r)].status \in Replies
    BY <1>1, <1>a, <2>2 DEF Replay, TxRow, Replies
  <2>4. HandlersOK' BY <1>1, <1>a, <2>3 DEF Replay
  <2>5. Serving' BY <1>1, <1>a DEF Replay, TypeInv, Serving, Holding, Owning
  <2> QED BY <2>1, <2>4, <2>5, <1>c
<1>2. ASSUME NEW h \in Handlers, NEW r \in Requests, Begin(h, r) PROVE TypeOK' /\ Serving'
  <2>1. TablesOK' BY <1>2, <1>b DEF Begin
  <2>2. HandlersOK' BY <1>2, <1>a DEF Begin, Goto, Labels, Replies
  <2>3. Serving' BY <1>2, <1>a DEF Begin, Goto, TypeInv, Serving, Holding, Owning
  <2> QED BY <2>1, <2>2, <2>3, <1>c
<1>3. ASSUME NEW h \in Handlers, ReadAccount(h) PROVE TypeOK' /\ Serving'
  <2>1. TablesOK' BY <1>3, <1>b DEF ReadAccount
  <2>2. req[h] \in Requests BY <1>3 DEF ReadAccount, TypeInv, Serving
  <2>3. accounts[req[h].account] \in AccountRow BY <2>2, <1>a, RequestFacts
  <2>4. HandlersOK' BY <1>3, <1>a, <2>3 DEF ReadAccount, Goto, Labels
  <2>5. Serving'
    BY <1>3, <1>a, <2>2, <2>3 DEF ReadAccount, Goto, TypeInv, Serving, Holding, Owning
  <2> QED BY <2>1, <2>4, <2>5, <1>c
<1>4. ASSUME NEW h \in Handlers, NEW answer \in Replies, Return(h, answer), TablesOK',
             pc[h] # "idle"
      PROVE  TypeOK' /\ Serving'
  BY <1>4, <1>c, ReturnTypes
<1>5. ASSUME NEW h \in Handlers, Refuse(h) PROVE TypeOK' /\ Serving'
  BY <1>5, <1>b, <1>4 DEF Refuse, Replies
<1>6. ASSUME NEW h \in Handlers, NEW score \in Scores, Screen(h, score) PROVE TypeOK' /\ Serving'
  <2>1. TablesOK' BY <1>6, <1>b DEF Screen
  <2>2. CASE Return(h, "error")
    BY <1>6, <2>1, <2>2, <1>4 DEF Screen, Replies
  <2>3. CASE ~Return(h, "error")
    <3>1. HandlersOK' BY <1>6, <1>a, <2>3 DEF Screen, Goto, Labels
    <3>2. Serving'
      BY <1>6, <1>a, <2>3 DEF Screen, Goto, TypeInv, Serving, Holding, Owning
    <3> QED BY <2>1, <3>1, <3>2, <1>c
  <2> QED BY <2>2, <2>3
<1>7. ASSUME NEW h \in Handlers, NEW label \in Labels, Goto(h, label), Keep,
             pc[h] \in Holding, label \in Owning => req[h].amount > 0, TablesOK'
      PROVE  TypeOK' /\ Serving'
  <2>1. pc[h] # "idle" BY <1>7 DEF Holding
  <2>2. snap[h] \in AccountRow /\ Policy(req[h], snap[h]).allowed
    BY <1>7 DEF TypeInv, Serving
  <2> QED BY <1>7, <2>1, <2>2, <1>c, GotoTypes
<1>8. ASSUME NEW h \in Handlers, ScreenUnavailable(h) PROVE TypeOK' /\ Serving'
  <2>1. TablesOK' BY <1>8, <1>b DEF ScreenUnavailable
  <2>2. CASE Return(h, "error")
    BY <1>8, <2>1, <2>2, <1>4 DEF ScreenUnavailable, Replies
  <2>3. CASE ~Return(h, "error")
    BY <1>8, <2>1, <2>3, <1>7 DEF ScreenUnavailable, Labels, Holding, Owning
  <2> QED BY <2>2, <2>3
<1>9. ASSUME NEW h \in Handlers, CreateTx(h) PROVE TypeOK' /\ Serving'
  <2>1. TablesOK'
    BY <1>9, <1>a, WriteTypes DEF CreateTx, Insert, Holding
  <2> QED BY <1>9, <2>1, <1>7 DEF CreateTx, Insertable, Labels, Holding
<1>10. ASSUME NEW h \in Handlers, CreateTxFails(h) PROVE TypeOK' /\ Serving'
  <2>1. TablesOK'
    BY <1>10, <1>a, <1>b, WriteTypes DEF CreateTxFails, Insert, Holding
  <2> QED BY <1>10, <2>1, <1>4 DEF CreateTxFails, Replies
<1>11. ASSUME NEW h \in Handlers, UpdateBalance(h) PROVE TypeOK' /\ Serving'
  <2>1. TablesOK'
    BY <1>11, <1>a, WriteTypes DEF UpdateBalance, WriteBalance, Holding
  <2> QED BY <1>11, <2>1, <1>7
       DEF UpdateBalance, TypeInv, Serving, Labels, Holding, Owning
<1>12. ASSUME NEW h \in Handlers, UpdateBalanceFails(h) PROVE TypeOK' /\ Serving'
  <2>1. TablesOK'
    BY <1>12, <1>a, <1>b, WriteTypes DEF UpdateBalanceFails, WriteBalance, Holding
  <2> QED BY <1>12, <2>1, <1>7
       DEF UpdateBalanceFails, TypeInv, Serving, Labels, Holding, Owning
<1>13. ASSUME NEW h \in Handlers, pc[h] \in Owning,
              NEW status \in {"completed", "failed"}, SetStatus(h, status)
       PROVE  TablesOK'
  <2>1. Tx(h) \in TxIds /\ transactions[Tx(h)] # Null
    BY <1>13, WriteTypes DEF TypeInv, OwnsRow, Owning, Holding
  <2>2. transactions[Tx(h)] \in TxRow BY <2>1, <1>a
  <2>3. transactions' \in [TxIds -> TxRow \union {Null}]
    BY <1>13, <1>a, <2>1, <2>2 DEF SetStatus, TxRow
  <2> QED BY <1>13, <1>a, <2>3 DEF SetStatus
<1>14. ASSUME NEW h \in Handlers, MarkFailed(h) PROVE TypeOK' /\ Serving'
  <2>1. CASE SetStatus(h, "failed")
    <3>1. TablesOK' BY <1>14, <2>1, <1>13 DEF MarkFailed, Owning
    <3> QED BY <1>14, <3>1, <1>4 DEF MarkFailed, Replies
  <2>2. CASE UNCHANGED tables
    <3>1. TablesOK' BY <2>2, <1>b
    <3> QED BY <1>14, <3>1, <1>4 DEF MarkFailed, Replies
  <2> QED BY <1>14, <2>1, <2>2 DEF MarkFailed
<1>15. ASSUME NEW h \in Handlers, CreateLedgerEntry(h) PROVE TypeOK' /\ Serving'
  <2> DEFINE entry == [tx |-> Tx(h), entry |-> EntryType(req[h]),
                       amount |-> req[h].amount,
                       after |-> Policy(req[h], snap[h]).after]
  <2>1. entry \in LedgerEntry
    BY <1>15, WriteTypes DEF CreateLedgerEntry, Holding, Owning
  <2>2. CASE ledger' = Append(ledger, entry)
             /\ UNCHANGED <<accounts, transactions, events, commits>>
    <3>1. ledger' \in Seq(LedgerEntry) BY <1>a, <2>1, <2>2
    <3>2. TablesOK' BY <1>a, <2>2, <3>1
    <3> QED BY <1>15, <3>2, <1>7
         DEF CreateLedgerEntry, TypeInv, Serving, Labels, Holding, Owning
  <2>3. CASE UNCHANGED tables
    <3>1. TablesOK' BY <1>b, <2>3
    <3> QED BY <1>15, <3>1, <1>7
         DEF CreateLedgerEntry, TypeInv, Serving, Labels, Holding, Owning
  <2> QED BY <1>15, <2>2, <2>3 DEF CreateLedgerEntry
<1>16. ASSUME NEW h \in Handlers, Complete(h) PROVE TypeOK' /\ Serving'
  <2>1. TablesOK' BY <1>16, <1>13, <1>b DEF Complete, Owning
  <2> QED BY <1>16, <2>1, <1>7
       DEF Complete, TypeInv, Serving, Labels, Holding, Owning
<1>17. ASSUME NEW h \in Handlers, Publish(h) PROVE TypeOK' /\ Serving'
  <2>1. Tx(h) \in TxIds BY <1>17, WriteTypes DEF Publish, Holding
  <2>2. CASE events' = Append(events, Tx(h))
             /\ UNCHANGED <<accounts, transactions, ledger, commits>>
    <3>1. events' \in Seq(TxIds) BY <2>1, <2>2, <1>a
    <3>2. TablesOK' BY <2>2, <3>1, <1>a
    <3> QED BY <1>17, <3>2, <1>4 DEF Publish, Replies
  <2>3. CASE UNCHANGED tables
    <3>1. TablesOK' BY <2>3, <1>b
    <3> QED BY <1>17, <3>1, <1>4 DEF Publish, Replies
  <2> QED BY <1>17, <2>2, <2>3 DEF Publish
<1>18. ASSUME NEW h \in Handlers, Crash(h) PROVE TypeOK' /\ Serving'
  BY <1>18, <1>b, <1>4 DEF Crash, Replies
<1>19. CASE UNCHANGED vars
  BY <1>19 DEF vars, TypeInv, TypeOK, Serving
<1> QED
  BY <1>1, <1>2, <1>3, <1>5, <1>6, <1>8, <1>9, <1>10, <1>11, <1>12, <1>14, <1>15,
     <1>16, <1>17, <1>18, <1>19 DEF Next, Step

\* What one handler does, in the form the cases of the proofs below take it.
Acts(h) ==
  \/ \E r \in Requests : Replay(h, r) \/ Begin(h, r)
  \/ Step(h)
  \/ Crash(h)

\* What one handler does touches nobody else's local state.
LEMMA Locality ==
  ASSUME TypeInv, NEW h \in Handlers, Acts(h), NEW g \in Handlers, g # h
  PROVE  /\ pc'[g] = pc[g] /\ req'[g] = req[g] /\ snap'[g] = snap[g]
         /\ risk'[g] = risk[g] /\ reply'[g] = reply[g]
<1> DEFINE Kept == /\ pc'[g] = pc[g] /\ req'[g] = req[g] /\ snap'[g] = snap[g]
                   /\ risk'[g] = risk[g] /\ reply'[g] = reply[g]
<1> USE DEF Return, Goto, Keep
<1>a. /\ pc \in [Handlers -> Labels]
      /\ req \in [Handlers -> Requests \union {Null}]
      /\ snap \in [Handlers -> AccountRow \union {Null}]
      /\ risk \in [Handlers -> Scores \union {Null}]
      /\ reply \in [Handlers -> Replies]
  BY DEF TypeInv, TypeOK
<1>1. ASSUME NEW r \in Requests, Replay(h, r) PROVE Kept
  BY <1>a, <1>1 DEF Replay
<1>2. ASSUME NEW r \in Requests, Begin(h, r) PROVE Kept
  BY <1>a, <1>2 DEF Begin
<1>3. ASSUME NEW score \in Scores, Screen(h, score) PROVE Kept
  BY <1>a, <1>3 DEF Screen
<1>4. CASE ReadAccount(h) BY <1>a, <1>4 DEF ReadAccount
<1>5. CASE Refuse(h) BY <1>a, <1>5 DEF Refuse
<1>6. CASE ScreenUnavailable(h) BY <1>a, <1>6 DEF ScreenUnavailable
<1>7. CASE CreateTx(h) BY <1>a, <1>7 DEF CreateTx
<1>8. CASE CreateTxFails(h) BY <1>a, <1>8 DEF CreateTxFails
<1>9. CASE UpdateBalance(h) BY <1>a, <1>9 DEF UpdateBalance
<1>10. CASE UpdateBalanceFails(h) BY <1>a, <1>10 DEF UpdateBalanceFails
<1>11. CASE MarkFailed(h) BY <1>a, <1>11 DEF MarkFailed
<1>12. CASE CreateLedgerEntry(h) BY <1>a, <1>12 DEF CreateLedgerEntry
<1>13. CASE Complete(h) BY <1>a, <1>13 DEF Complete
<1>14. CASE Publish(h) BY <1>a, <1>14 DEF Publish
<1>15. CASE Crash(h) BY <1>a, <1>15 DEF Crash
<1> QED BY <1>1, <1>2, <1>3, <1>4, <1>5, <1>6, <1>7, <1>8, <1>9, <1>10, <1>11, <1>12, <1>13, <1>14, <1>15 DEF Acts, Step

\* The transactions table changes in two ways: the insert of a row whose key
\* had none, and the status a handler gives to the row it owns.
InsertStep(h) ==
  /\ pc[h] = "create" /\ Tx(h) \in TxIds /\ transactions[Tx(h)] = Null
  /\ Insertable(h) /\ Insert(h) /\ transactions'[Tx(h)] \in TxRow

StatusStep(h) ==
  /\ pc[h] \in {"fail", "complete"} /\ Tx(h) \in TxIds
  /\ transactions[Tx(h)] \in TxRow
  /\ SetStatus(h, IF pc[h] = "fail" THEN "failed" ELSE "completed")
  /\ transactions'[Tx(h)] \in TxRow

LEMMA InsertRow ==
  ASSUME TypeInv, NEW h \in Handlers, pc[h] = "create", Insertable(h), Insert(h)
  PROVE  InsertStep(h)
<1>1. /\ Tx(h) \in TxIds /\ transactions' \in [TxIds -> TxRow \union {Null}]
  BY WriteTypes DEF Holding
<1>2. /\ req[h] \in Requests /\ snap[h] \in AccountRow
  BY DEF TypeInv, Serving, Holding
<1>3. /\ req[h].op \in Ops /\ req[h].amount \in 1..MaxInt
      /\ Policy(req[h], snap[h]).before \in Money
      /\ Policy(req[h], snap[h]).after \in Money
  BY <1>2, RequestFacts, PolicyMoney, MaxIntAssumption DEF Insertable, Money, MinInt
<1>4. transactions'[Tx(h)] \in TxRow
  BY <1>1, <1>3 DEF Insert, TypeInv, TypeOK, TxRow
<1> QED BY <1>1, <1>4 DEF InsertStep, Insertable

LEMMA StatusRow ==
  ASSUME TypeInv, NEW h \in Handlers,
         \/ pc[h] = "fail" /\ SetStatus(h, "failed")
         \/ pc[h] = "complete" /\ SetStatus(h, "completed")
  PROVE  StatusStep(h)
<1>1. Tx(h) \in TxIds
  BY WriteTypes DEF Holding
<1>2. transactions[Tx(h)] \in TxRow
  BY <1>1 DEF TypeInv, TypeOK, OwnsRow, Owning
<1>3. transactions'[Tx(h)] \in TxRow
  BY <1>1, <1>2 DEF SetStatus, TxRow, TypeInv, TypeOK
<1> QED BY <1>1, <1>2, <1>3 DEF StatusStep

LEMMA RowSteps ==
  ASSUME TypeInv, NEW h \in Handlers, Acts(h)
  PROVE  UNCHANGED transactions \/ InsertStep(h) \/ StatusStep(h)
<1> DEFINE Ok == UNCHANGED transactions \/ InsertStep(h) \/ StatusStep(h)
<1> USE DEF tables
<1>1. ASSUME NEW r \in Requests, Replay(h, r) PROVE Ok
  BY <1>1 DEF Replay
<1>2. ASSUME NEW r \in Requests, Begin(h, r) PROVE Ok
  BY <1>2 DEF Begin
<1>3. ASSUME NEW score \in Scores, Screen(h, score) PROVE Ok
  BY <1>3 DEF Screen
<1>4. CASE ReadAccount(h) BY <1>4 DEF ReadAccount
<1>5. CASE Refuse(h) BY <1>5 DEF Refuse
<1>6. CASE ScreenUnavailable(h) BY <1>6 DEF ScreenUnavailable
<1>7. CASE CreateTx(h) BY <1>7, InsertRow DEF CreateTx
<1>8. CASE CreateTxFails(h) BY <1>8, InsertRow DEF CreateTxFails
<1>9. CASE UpdateBalance(h) BY <1>9 DEF UpdateBalance, WriteBalance
<1>10. CASE UpdateBalanceFails(h) BY <1>10 DEF UpdateBalanceFails, WriteBalance
<1>11. CASE MarkFailed(h) BY <1>11, StatusRow DEF MarkFailed
<1>12. CASE CreateLedgerEntry(h) BY <1>12 DEF CreateLedgerEntry
<1>13. CASE Complete(h) BY <1>13, StatusRow DEF Complete
<1>14. CASE Publish(h) BY <1>14 DEF Publish
<1>15. CASE Crash(h) BY <1>15 DEF Crash
<1> QED BY <1>1, <1>2, <1>3, <1>4, <1>5, <1>6, <1>7, <1>8, <1>9, <1>10, <1>11,
           <1>12, <1>13, <1>14, <1>15 DEF Acts, Step

\* Rows are never deleted.
LEMMA RowsPersist ==
  ASSUME TypeInv, NEW h \in Handlers, Acts(h), NEW t \in TxIds,
         transactions[t] # Null
  PROVE  transactions'[t] # Null
<1>a. transactions \in [TxIds -> TxRow \union {Null}]
  BY DEF TypeInv, TypeOK
<1>1. CASE UNCHANGED transactions
  BY <1>1
<1>2. CASE InsertStep(h)
  BY <1>a, <1>2 DEF InsertStep, Insert
<1>3. CASE StatusStep(h)
  BY <1>a, <1>3, NullAssumption DEF StatusStep, SetStatus
<1> QED BY <1>1, <1>2, <1>3, RowSteps

\* A handler enters the labels at which it owns a row only by inserting it.
LEMMA StepOwnsRow ==
  ASSUME TypeInv, NEW h \in Handlers, Acts(h)
  PROVE  OwnsRow'
<1> SUFFICES ASSUME NEW g \in Handlers, pc'[g] \in Owning
             PROVE  transactions'[Tx(g)'] # Null
  BY DEF OwnsRow
<1>a. /\ pc \in [Handlers -> Labels] /\ req \in [Handlers -> Requests \union {Null}]
  BY DEF TypeInv, TypeOK
<1>1. ASSUME pc[g] \in Owning, req'[g] = req[g] PROVE transactions'[Tx(g)'] # Null
  <2>1. Tx(g) \in TxIds /\ Tx(g)' = Tx(g) /\ transactions[Tx(g)] # Null
    BY <1>1, WriteTypes DEF Tx, TypeInv, OwnsRow, Owning, Holding
  <2> QED BY <2>1, RowsPersist
<1>2. CASE g # h
  BY <1>1, <1>2, Locality
<1>3. CASE g = h
  <2> USE DEF Goto, Return, Keep, Owning
  <2>1. \/ pc[h] \in Owning /\ req'[h] = req[h]
        \/ CreateTx(h)
    <3>1. ASSUME NEW r \in Requests, Replay(h, r) PROVE FALSE
      BY <1>3, <1>a, <3>1 DEF Replay
    <3>2. ASSUME NEW r \in Requests, Begin(h, r) PROVE FALSE
      BY <1>3, <1>a, <3>2 DEF Begin
    <3>3. ASSUME NEW score \in Scores, Screen(h, score) PROVE FALSE
      BY <1>3, <1>a, <3>3 DEF Screen
    <3>4. ~ReadAccount(h) BY <1>3, <1>a DEF ReadAccount
    <3>5. ~Refuse(h) BY <1>3, <1>a DEF Refuse
    <3>6. ~ScreenUnavailable(h) BY <1>3, <1>a DEF ScreenUnavailable
    <3>7. ~CreateTxFails(h) BY <1>3, <1>a DEF CreateTxFails
    <3>8. ~Crash(h) BY <1>3, <1>a DEF Crash
    <3>9. CASE UpdateBalance(h) BY <3>9 DEF UpdateBalance
    <3>10. CASE UpdateBalanceFails(h) BY <3>10 DEF UpdateBalanceFails
    <3>11. CASE MarkFailed(h) BY <3>11 DEF MarkFailed
    <3>12. CASE CreateLedgerEntry(h) BY <3>12 DEF CreateLedgerEntry
    <3>13. CASE Complete(h) BY <3>13 DEF Complete
    <3>14. CASE Publish(h) BY <3>14 DEF Publish
    <3> QED BY <3>1, <3>2, <3>3, <3>4, <3>5, <3>6, <3>7, <3>8, <3>9, <3>10, <3>11,
               <3>12, <3>13, <3>14 DEF Acts, Step
  <2>2. CASE CreateTx(h)
    <3>1. InsertStep(h) /\ req'[h] = req[h] BY <2>2, InsertRow DEF CreateTx
    <3> QED BY <1>3, <3>1, NullAssumption DEF InsertStep, Tx
  <2> QED BY <1>1, <1>3, <2>1, <2>2
<1> QED BY <1>2, <1>3

LEMMA StepTypeInv == TypeInv /\ [Next]_vars => TypeInv'
<1> SUFFICES ASSUME TypeInv, [Next]_vars PROVE TypeInv'
  OBVIOUS
<1>1. TypeOK' /\ Serving' BY StepTypeOK
<1>2. OwnsRow'
  <2>1. CASE UNCHANGED vars BY <2>1 DEF vars, TypeInv, OwnsRow, Tx
  <2>2. CASE \E h \in Handlers : Acts(h) BY <2>2, StepOwnsRow
  <2> QED BY <2>1, <2>2 DEF Next, Acts
<1> QED BY <1>1, <1>2 DEF TypeInv

\* Every reachable state is well typed, whatever the requests, the failures
\* and the number of handlers: no stored balance is ever negative, and none
\* leaves int64.
THEOREM TypeCorrect == Spec => []TypeOK
<1>1. Spec => []TypeInv
  BY InitTypeInv, StepTypeInv, PTL DEF Spec
<1>2. TypeInv => TypeOK
  BY DEF TypeInv
<1> QED BY <1>1, <1>2, PTL

-----------------------------------------------------------------------------
(* The shape of a step: how the accounts change, and to which label the     *)
(* handler that takes it goes.                                             *)

CommitStep(h) ==
  pc[h] = "update" /\ Updatable(h) /\ WriteBalance(h) /\ pc'[h] \in {"ledger", "fail"}

\* Balances and the commit history change together, in UpdateBalance only.
LEMMA CommitSteps ==
  ASSUME TypeInv, NEW h \in Handlers, Acts(h)
  PROVE  UNCHANGED <<accounts, commits>> \/ CommitStep(h)
<1> DEFINE Ok == UNCHANGED <<accounts, commits>> \/ CommitStep(h)
<1> USE DEF tables, Goto
<1>a. pc \in [Handlers -> Labels]
  BY DEF TypeInv, TypeOK
<1>1. ASSUME NEW r \in Requests, Replay(h, r) PROVE Ok
  BY <1>1 DEF Replay
<1>2. ASSUME NEW r \in Requests, Begin(h, r) PROVE Ok
  BY <1>2 DEF Begin
<1>3. ASSUME NEW score \in Scores, Screen(h, score) PROVE Ok
  BY <1>3 DEF Screen
<1>4. CASE ReadAccount(h) BY <1>4 DEF ReadAccount
<1>5. CASE Refuse(h) BY <1>5 DEF Refuse
<1>6. CASE ScreenUnavailable(h) BY <1>6 DEF ScreenUnavailable
<1>7. CASE CreateTx(h) BY <1>7 DEF CreateTx, Insert
<1>8. CASE CreateTxFails(h) BY <1>8 DEF CreateTxFails, Insert
<1>9. CASE UpdateBalance(h) BY <1>9, <1>a DEF UpdateBalance, CommitStep
<1>10. CASE UpdateBalanceFails(h)
  BY <1>10, <1>a DEF UpdateBalanceFails, CommitStep
<1>11. CASE MarkFailed(h) BY <1>11 DEF MarkFailed, SetStatus
<1>12. CASE CreateLedgerEntry(h) BY <1>12 DEF CreateLedgerEntry
<1>13. CASE Complete(h) BY <1>13 DEF Complete, SetStatus
<1>14. CASE Publish(h) BY <1>14 DEF Publish
<1>15. CASE Crash(h) BY <1>15 DEF Crash
<1> QED BY <1>1, <1>2, <1>3, <1>4, <1>5, <1>6, <1>7, <1>8, <1>9, <1>10, <1>11,
           <1>12, <1>13, <1>14, <1>15 DEF Acts, Step

\* A handler holding a row keeps its request, its row and its score until it
\* returns.
HoldsOn(h) == req'[h] = req[h] /\ snap'[h] = snap[h]

Advance(h) ==
  \/ pc'[h] \in {"idle", "read"}
  \/ ReadAccount(h) /\ pc'[h] \in {"screen", "create"} /\ req'[h] = req[h]
     /\ snap'[h] = accounts[req[h].account]
  \/ pc[h] = "screen" /\ pc'[h] = "create" /\ HoldsOn(h) /\ UNCHANGED tables
  \/ CreateTx(h) /\ pc'[h] = "update" /\ HoldsOn(h)
  \/ UpdateBalance(h) /\ pc'[h] = "ledger" /\ HoldsOn(h)
  \/ UpdateBalanceFails(h) /\ pc'[h] = "fail" /\ HoldsOn(h)
  \/ CreateLedgerEntry(h) /\ pc'[h] = "complete" /\ HoldsOn(h)
  \/ Complete(h) /\ pc'[h] = "publish" /\ HoldsOn(h)

LEMMA Advances ==
  ASSUME TypeInv, NEW h \in Handlers, Acts(h)
  PROVE  Advance(h)
<1> USE DEF Goto, Return, Keep, HoldsOn
<1>a. /\ pc \in [Handlers -> Labels] /\ req \in [Handlers -> Requests \union {Null}]
      /\ snap \in [Handlers -> AccountRow \union {Null}]
  BY DEF TypeInv, TypeOK
<1>1. ASSUME NEW r \in Requests, Replay(h, r) PROVE Advance(h)
  BY <1>1, <1>a DEF Replay, Advance
<1>2. ASSUME NEW r \in Requests, Begin(h, r) PROVE Advance(h)
  BY <1>2, <1>a DEF Begin, Advance
<1>3. ASSUME NEW score \in Scores, Screen(h, score) PROVE Advance(h)
  BY <1>3, <1>a DEF Screen, Advance
<1>4. CASE ReadAccount(h)
  <2>1. pc'[h] \in {"screen", "create"} /\ req'[h] = req[h]
        /\ snap'[h] = accounts[req[h].account]
    BY <1>4, <1>a DEF ReadAccount
  <2> QED BY <1>4, <2>1 DEF Advance
<1>5. CASE Refuse(h) BY <1>5, <1>a DEF Refuse, Advance
<1>6. CASE ScreenUnavailable(h) BY <1>6, <1>a DEF ScreenUnavailable, Advance
<1>7. CASE CreateTx(h)
  <2>1. pc'[h] = "update" /\ HoldsOn(h) BY <1>7, <1>a DEF CreateTx
  <2> QED BY <1>7, <2>1 DEF Advance
<1>8. CASE CreateTxFails(h) BY <1>8, <1>a DEF CreateTxFails, Advance
<1>9. CASE UpdateBalance(h)
  <2>1. pc'[h] = "ledger" /\ HoldsOn(h) BY <1>9, <1>a DEF UpdateBalance
  <2> QED BY <1>9, <2>1 DEF Advance
<1>10. CASE UpdateBalanceFails(h)
  <2>1. pc'[h] = "fail" /\ HoldsOn(h) BY <1>10, <1>a DEF UpdateBalanceFails
  <2> QED BY <1>10, <2>1 DEF Advance
<1>11. CASE MarkFailed(h) BY <1>11, <1>a DEF MarkFailed, Advance
<1>12. CASE CreateLedgerEntry(h)
  <2>1. pc'[h] = "complete" /\ HoldsOn(h) BY <1>12, <1>a DEF CreateLedgerEntry
  <2> QED BY <1>12, <2>1 DEF Advance
<1>13. CASE Complete(h)
  <2>1. pc'[h] = "publish" /\ HoldsOn(h) BY <1>13, <1>a DEF Complete
  <2> QED BY <1>13, <2>1 DEF Advance
<1>14. CASE Publish(h) BY <1>14, <1>a DEF Publish, Advance
<1>15. CASE Crash(h) BY <1>15, <1>a DEF Crash, Advance
<1> QED BY <1>1, <1>2, <1>3, <1>4, <1>5, <1>6, <1>7, <1>8, <1>9, <1>10, <1>11,
           <1>12, <1>13, <1>14, <1>15 DEF Acts, Step

-----------------------------------------------------------------------------
(* Optimistic locking.                                                     *)

LEMMA StepSnapshot ==
  ASSUME TypeInv, SnapshotCoherent, NEW h \in Handlers, Acts(h)
  PROVE  SnapshotCoherent'
<1> DEFINE Before == {"screen", "create", "update"}
<1> SUFFICES ASSUME NEW g \in Handlers, pc'[g] \in Before
             PROVE  LET row == accounts'[req'[g].account] IN
                    /\ snap'[g].version <= row.version
                    /\ snap'[g].version = row.version => snap'[g] = row
  BY DEF SnapshotCoherent
<1>a. accounts \in [Accounts -> AccountRow]
  BY DEF TypeInv, TypeOK
<1>1. ASSUME pc[g] \in Before, req'[g] = req[g], snap'[g] = snap[g],
             pc[h] = "update" => g # h
      PROVE  LET row == accounts'[req'[g].account] IN
             /\ snap'[g].version <= row.version
             /\ snap'[g].version = row.version => snap'[g] = row
  <2>1. req[g] \in Requests /\ snap[g] \in AccountRow
    BY <1>1 DEF TypeInv, Serving, Holding
  <2>2. req[g].account \in Accounts /\ accounts[req[g].account] \in AccountRow
    BY <2>1, <1>a, RequestFacts
  <2>3. /\ snap[g].version <= accounts[req[g].account].version
        /\ snap[g].version = accounts[req[g].account].version
             => snap[g] = accounts[req[g].account]
    BY <1>1 DEF SnapshotCoherent
  <2>4. CASE UNCHANGED accounts
    BY <1>1, <2>3, <2>4
  <2>5. CASE CommitStep(h)
    <3>1. CASE req[g].account = req[h].account
      <4>1. accounts'[req[g].account].version = accounts[req[g].account].version + 1
        BY <2>2, <2>5, <3>1, <1>a DEF CommitStep, WriteBalance
      <4> QED BY <1>1, <2>1, <2>2, <2>3, <4>1 DEF AccountRow
    <3>2. CASE req[g].account # req[h].account
      <4>1. accounts'[req[g].account] = accounts[req[g].account]
        BY <2>2, <2>5, <3>2, <1>a DEF CommitStep, WriteBalance
      <4> QED BY <1>1, <2>3, <4>1
    <3> QED BY <3>1, <3>2
  <2> QED BY <2>4, <2>5, CommitSteps
<1>2. CASE g # h
  BY <1>1, <1>2, Locality
<1>3. CASE g = h
  <2>1. CASE ReadAccount(h) /\ req'[h] = req[h] /\ snap'[h] = accounts[req[h].account]
    <3>1. UNCHANGED accounts BY <2>1 DEF ReadAccount, tables
    <3>2. req[h] \in Requests BY <2>1 DEF ReadAccount, TypeInv, Serving
    <3>3. accounts[req[h].account] \in AccountRow BY <3>2, <1>a, RequestFacts
    <3> QED BY <1>3, <2>1, <3>1, <3>3 DEF AccountRow
  <2>2. CASE pc[h] \in {"screen", "create"} /\ HoldsOn(h)
    BY <1>1, <1>3, <2>2 DEF HoldsOn
  <2> QED BY <1>3, <2>1, <2>2, Advances DEF Advance, CreateTx
<1> QED BY <1>2, <1>3

-----------------------------------------------------------------------------
(* A key moves money at most once.  The invariant says who may still act   *)
(* on a row: one handler owns it, the row is pending as long as the owner  *)
(* has not completed it, and its money has moved exactly when the owner is *)
(* past UpdateBalance.                                                     *)

SoleOwner ==
  \A g, h \in Handlers :
    pc[g] \in Owning /\ pc[h] \in Owning /\ Tx(g) = Tx(h) => g = h

OwnerKnows ==
  \A h \in Handlers :
    /\ pc[h] = "update" => ~Committed(Tx(h))
    /\ pc[h] \in {"ledger", "complete", "publish"} => Committed(Tx(h))
    /\ pc[h] = "fail" /\ "lostReply" \notin Faults => ~Committed(Tx(h))
    /\ pc[h] \in Owning \ {"publish"} => HasStatus(Tx(h), {"pending"})

OnceInv == SoleOwner /\ OwnerKnows /\ AtMostOnce /\ FailedMovedNothing

WalletInv == TypeInv /\ SnapshotCoherent /\ OnceInv

\* A commit adds one transaction to those that have moved money.
LEMMA CommitAdds ==
  ASSUME TypeInv, NEW h \in Handlers, CommitStep(h), NEW t \in TxIds
  PROVE  /\ Tx(h) \in TxIds
         /\ Committed(t)' <=> Committed(t) \/ t = Tx(h)
<1>1. req[h] \in Requests
  BY DEF CommitStep, TypeInv, Serving
<1>2. req[h].account \in Accounts /\ req[h].key \in Keys
      /\ Tx(h) = <<req[h].account, req[h].key>>
  BY <1>1, RequestFacts DEF Tx, TxId
<1>3. commits \in [Accounts -> Seq(Keys)]
      /\ commits' = [commits EXCEPT ![req[h].account] = Append(@, req[h].key)]
  BY DEF CommitStep, WriteBalance, TypeInv, TypeOK
<1>4. PICK a \in Accounts, k \in Keys : t = <<a, k>>
  BY DEF TxIds
<1>5. t[1] = a /\ t[2] = k
  BY <1>4
<1>6. Tx(h) \in TxIds /\ Tx(h)[1] = req[h].account /\ Tx(h)[2] = req[h].key
  BY <1>2 DEF TxIds
<1>7. CASE a = req[h].account
  <2>1. commits'[a] = Append(commits[a], req[h].key) /\ commits[a] \in Seq(Keys)
    BY <1>2, <1>3, <1>7
  <2>2. /\ Len(commits'[a]) = Len(commits[a]) + 1
        /\ \A i \in 1..Len(commits[a]) : commits'[a][i] = commits[a][i]
        /\ commits'[a][Len(commits[a]) + 1] = req[h].key
        /\ Len(commits[a]) \in Nat
    BY <2>1, <1>2
  <2>3. Committed(t)' <=> \E i \in 1..Len(commits'[a]) : commits'[a][i] = k
    BY <1>5 DEF Committed
  <2>4. Committed(t) <=> \E i \in 1..Len(commits[a]) : commits[a][i] = k
    BY <1>5 DEF Committed
  <2>5. t = Tx(h) <=> k = req[h].key
    BY <1>2, <1>4, <1>7
  <2>6. ASSUME NEW i \in 1..Len(commits'[a]), i \notin 1..Len(commits[a])
        PROVE  i = Len(commits[a]) + 1
    BY <2>2, <2>6
  <2> QED BY <1>6, <2>2, <2>3, <2>4, <2>5, <2>6, SMTT(30)
<1>8. CASE a # req[h].account
  <2>1. commits'[a] = commits[a]
    BY <1>2, <1>3, <1>8
  <2>2. t # Tx(h)
    BY <1>5, <1>8, <1>6
  <2>3. Committed(t)' <=> Committed(t)
    BY <2>1, <1>5 DEF Committed
  <2> QED BY <1>6, <2>2, <2>3
<1> QED BY <1>7, <1>8

LEMMA CommittedChange ==
  ASSUME TypeInv, NEW h \in Handlers, Acts(h), NEW t \in TxIds
  PROVE  \/ Committed(t)' <=> Committed(t)
         \/ CommitStep(h) /\ t = Tx(h) /\ Committed(t)'
<1>1. CASE UNCHANGED <<accounts, commits>>
  BY <1>1 DEF Committed
<1>2. CASE CommitStep(h)
  BY <1>2, CommitAdds
<1> QED BY <1>1, <1>2, CommitSteps

\* Ownership starts with the insert of the row, when no one else can own it.
LEMMA StepSoleOwner ==
  ASSUME TypeInv, SoleOwner, NEW h \in Handlers, Acts(h)
  PROVE  SoleOwner'
<1>1. ASSUME NEW g \in Handlers, pc'[g] \in Owning
      PROVE  \/ pc[g] \in Owning /\ req'[g] = req[g]
             \/ g = h /\ InsertStep(h) /\ req'[g] = req[g]
  <2>1. CASE g # h BY <1>1, <2>1, Locality
  <2>2. CASE g = h
    <3>1. CASE CreateTx(h) /\ HoldsOn(h)
      BY <2>2, <3>1, InsertRow DEF CreateTx, HoldsOn
    <3>2. CASE pc[h] \in Owning /\ HoldsOn(h)
      BY <2>2, <3>2 DEF HoldsOn
    <3> QED BY <1>1, <2>2, <3>1, <3>2, Advances
         DEF Advance, Owning, UpdateBalance, UpdateBalanceFails,
             CreateLedgerEntry, Complete
  <2> QED BY <2>1, <2>2
<1>2. ASSUME NEW g \in Handlers, pc[g] \in Owning, InsertStep(h) PROVE Tx(g) # Tx(h)
  BY <1>2 DEF TypeInv, OwnsRow, InsertStep
<1>3. ASSUME InsertStep(h) PROVE pc[h] \notin Owning
  BY <1>3 DEF InsertStep, Owning
<1> QED BY <1>1, <1>2, <1>3 DEF SoleOwner, Tx

LEMMA StepOwnerKnows ==
  ASSUME TypeInv, OnceInv, NEW h \in Handlers, Acts(h)
  PROVE  OwnerKnows'
<1>a. ASSUME NEW g \in Handlers, pc[g] \in Holding
      PROVE  Tx(g) \in TxIds
  BY <1>a, WriteTypes
<1>1. ASSUME NEW g \in Handlers, g # h
      PROVE  /\ pc'[g] = "update" => ~Committed(Tx(g))'
             /\ pc'[g] \in {"ledger", "complete", "publish"} => Committed(Tx(g))'
             /\ pc'[g] = "fail" /\ "lostReply" \notin Faults => ~Committed(Tx(g))'
             /\ pc'[g] \in Owning \ {"publish"} => HasStatus(Tx(g), {"pending"})'
  <2>0. CASE pc[g] \notin Owning BY <1>1, <2>0, Locality DEF Owning
  <2>1. CASE pc[g] \in Owning
    <3>1. Tx(g) \in TxIds /\ pc'[g] = pc[g] /\ Tx(g)' = Tx(g)
      BY <1>1, <2>1, <1>a, Locality DEF Owning, Holding, Tx
    <3>2. Committed(Tx(g))' <=> Committed(Tx(g))
      <4>1. ASSUME CommitStep(h) PROVE Tx(h) # Tx(g)
        BY <1>1, <2>1, <4>1 DEF CommitStep, OnceInv, SoleOwner, Owning
      <4> QED BY <3>1, <4>1, CommittedChange DEF Committed
    <3>3. transactions'[Tx(g)] = transactions[Tx(g)]
      <4>a. transactions \in [TxIds -> TxRow \union {Null}]
        BY DEF TypeInv, TypeOK
      <4>1. CASE UNCHANGED transactions BY <4>1
      <4>2. CASE InsertStep(h)
        <5>1. Tx(g) # Tx(h) BY <2>1, <4>2 DEF InsertStep, TypeInv, OwnsRow
        <5> QED BY <3>1, <4>a, <4>2, <5>1 DEF InsertStep, Insert
      <4>3. CASE StatusStep(h)
        <5>1. Tx(g) # Tx(h)
          BY <1>1, <2>1, <4>3 DEF StatusStep, OnceInv, SoleOwner, Owning
        <5> QED BY <3>1, <4>a, <4>3, <5>1 DEF StatusStep, SetStatus
      <4> QED BY <4>1, <4>2, <4>3, RowSteps
    <3>4. HasStatus(Tx(g), {"pending"})' <=> HasStatus(Tx(g), {"pending"})
      BY <3>1, <3>3 DEF HasStatus
    <3> QED BY <3>1, <3>2, <3>4 DEF OnceInv, OwnerKnows
  <2> QED BY <2>0, <2>1
<1>2. /\ pc'[h] = "update" => ~Committed(Tx(h))'
      /\ pc'[h] \in {"ledger", "complete", "publish"} => Committed(Tx(h))'
      /\ pc'[h] = "fail" /\ "lostReply" \notin Faults => ~Committed(Tx(h))'
      /\ pc'[h] \in Owning \ {"publish"} => HasStatus(Tx(h), {"pending"})'
  <2>a. ASSUME HoldsOn(h) PROVE Tx(h)' = Tx(h)
    BY <2>a DEF HoldsOn, Tx
  <2>b. ASSUME UNCHANGED commits, HoldsOn(h)
        PROVE  Committed(Tx(h))' <=> Committed(Tx(h))
    BY <2>b, <2>a DEF Committed
  <2>c. ASSUME UNCHANGED transactions, HoldsOn(h)
        PROVE  HasStatus(Tx(h), {"pending"})' <=> HasStatus(Tx(h), {"pending"})
    BY <2>c, <2>a DEF HasStatus
  <2>1. CASE pc'[h] \in {"idle", "read", "screen", "create"}
    BY <2>1 DEF Owning
  <2>2. CASE CreateTx(h) /\ pc'[h] = "update" /\ HoldsOn(h)
    <3>1. InsertStep(h) /\ UNCHANGED commits
      BY <2>2, InsertRow DEF CreateTx, Insert
    <3>2. ~Committed(Tx(h))
      BY <3>1 DEF InsertStep, OnceInv, AtMostOnce
    <3>3. transactions'[Tx(h)].status = "pending" /\ transactions'[Tx(h)] # Null
      BY <3>1, NullAssumption DEF InsertStep, Insert, TypeInv, TypeOK
    <3>4. HasStatus(Tx(h), {"pending"})'
      BY <2>2, <2>a, <3>3 DEF HasStatus
    <3> QED BY <2>2, <2>b, <3>1, <3>2, <3>4
  <2>3. CASE UpdateBalance(h) /\ pc'[h] = "ledger" /\ HoldsOn(h)
    <3>1. CommitStep(h) /\ UNCHANGED transactions /\ Tx(h) \in TxIds
      BY <2>3, <1>a DEF UpdateBalance, WriteBalance, CommitStep, Holding
    <3>2. HasStatus(Tx(h), {"pending"})'
      BY <2>3, <2>c, <3>1 DEF UpdateBalance, OnceInv, OwnerKnows, Owning
    <3>3. Committed(Tx(h))'
      BY <2>3, <2>a, <3>1, CommitAdds DEF Committed
    <3> QED BY <2>3, <3>2, <3>3
  <2>4. CASE UpdateBalanceFails(h) /\ pc'[h] = "fail" /\ HoldsOn(h)
    <3>1. UNCHANGED transactions
      BY <2>4 DEF UpdateBalanceFails, WriteBalance, tables
    <3>2. HasStatus(Tx(h), {"pending"})'
      BY <2>4, <2>c, <3>1 DEF UpdateBalanceFails, OnceInv, OwnerKnows, Owning
    <3>3. ASSUME "lostReply" \notin Faults PROVE ~Committed(Tx(h))'
      <4>1. UNCHANGED commits /\ ~Committed(Tx(h))
        BY <2>4, <3>3 DEF UpdateBalanceFails, tables, OnceInv, OwnerKnows
      <4> QED BY <2>4, <2>b, <4>1
    <3> QED BY <2>4, <3>2, <3>3
  <2>5. CASE CreateLedgerEntry(h) /\ pc'[h] = "complete" /\ HoldsOn(h)
    <3>1. UNCHANGED <<transactions, commits>>
      BY <2>5 DEF CreateLedgerEntry, tables
    <3> QED BY <2>5, <2>b, <2>c, <3>1
         DEF CreateLedgerEntry, OnceInv, OwnerKnows, Owning
  <2>6. CASE Complete(h) /\ pc'[h] = "publish" /\ HoldsOn(h)
    <3>1. UNCHANGED commits
      BY <2>6 DEF Complete, SetStatus, tables
    <3> QED BY <2>6, <2>b, <3>1 DEF Complete, OnceInv, OwnerKnows, Owning
  <2> QED BY <2>1, <2>2, <2>3, <2>4, <2>5, <2>6, Advances DEF Advance
<1> QED BY <1>1, <1>2 DEF OwnerKnows

\* What a handler answers: "ok" once its money has moved, or the status of a
\* row it found.
LEMMA Answers ==
  ASSUME TypeInv, NEW h \in Handlers, Acts(h)
  PROVE  \/ reply'[h] = reply[h] /\ req'[h] = req[h]
         \/ reply'[h] \in {"none", "error"}
         \/ pc[h] = "publish" /\ req'[h] = req[h]
         \/ \E r \in Requests : /\ req'[h] = r
                                /\ transactions[TxId(r)] # Null
                                /\ reply'[h] = transactions[TxId(r)].status
<1> DEFINE Ok == \/ reply'[h] = reply[h] /\ req'[h] = req[h]
                 \/ reply'[h] \in {"none", "error"}
                 \/ pc[h] = "publish" /\ req'[h] = req[h]
                 \/ \E r \in Requests : /\ req'[h] = r
                                        /\ transactions[TxId(r)] # Null
                                        /\ reply'[h] = transactions[TxId(r)].status
<1> USE DEF Return, Keep
<1>a. /\ req \in [Handlers -> Requests \union {Null}]
      /\ reply \in [Handlers -> Replies]
  BY DEF TypeInv, TypeOK
<1>1. ASSUME NEW r \in Requests, Replay(h, r) PROVE Ok
  <2>1. req'[h] = r /\ reply'[h] = transactions[TxId(r)].status
        /\ transactions[TxId(r)] # Null
    BY <1>1, <1>a DEF Replay
  <2> QED BY <2>1
<1>2. ASSUME NEW r \in Requests, Begin(h, r) PROVE Ok
  BY <1>2, <1>a DEF Begin
<1>3. ASSUME NEW score \in Scores, Screen(h, score) PROVE Ok
  BY <1>3, <1>a DEF Screen
<1>4. CASE ReadAccount(h) BY <1>4 DEF ReadAccount
<1>5. CASE Refuse(h) BY <1>5, <1>a DEF Refuse
<1>6. CASE ScreenUnavailable(h) BY <1>6, <1>a DEF ScreenUnavailable
<1>7. CASE CreateTx(h) BY <1>7 DEF CreateTx
<1>8. CASE CreateTxFails(h) BY <1>8, <1>a DEF CreateTxFails
<1>9. CASE UpdateBalance(h) BY <1>9 DEF UpdateBalance
<1>10. CASE UpdateBalanceFails(h) BY <1>10 DEF UpdateBalanceFails
<1>11. CASE MarkFailed(h) BY <1>11, <1>a DEF MarkFailed
<1>12. CASE CreateLedgerEntry(h) BY <1>12 DEF CreateLedgerEntry
<1>13. CASE Complete(h) BY <1>13 DEF Complete
<1>14. CASE Publish(h) BY <1>14 DEF Publish
<1>15. CASE Crash(h) BY <1>15, <1>a DEF Crash
<1> QED BY <1>1, <1>2, <1>3, <1>4, <1>5, <1>6, <1>7, <1>8, <1>9, <1>10, <1>11,
           <1>12, <1>13, <1>14, <1>15 DEF Acts, Step

\* The rows a step leaves alone keep their status; the one it writes gets
\* "pending" on insertion, and otherwise the verdict of its owner.
LEMMA StatusChange ==
  ASSUME TypeInv, OnceInv, NEW h \in Handlers, Acts(h), NEW t \in TxIds
  PROVE  \/ transactions'[t] = transactions[t]
         \/ /\ transactions[t] = Null /\ transactions'[t] \in TxRow
            /\ transactions'[t].status = "pending"
         \/ /\ t = Tx(h) /\ transactions[t] # Null
            /\ transactions[t].status = "pending"
            /\ pc[h] = "fail" /\ transactions'[t] = [transactions[t] EXCEPT !.status = "failed"]
         \/ /\ t = Tx(h) /\ transactions[t] # Null
            /\ transactions[t].status = "pending"
            /\ pc[h] = "complete" /\ transactions'[t] = [transactions[t] EXCEPT !.status = "completed"]
<1>a. transactions \in [TxIds -> TxRow \union {Null}]
  BY DEF TypeInv, TypeOK
<1>1. CASE UNCHANGED transactions
  BY <1>1
<1>2. CASE InsertStep(h)
  <2>1. CASE t = Tx(h) BY <1>a, <1>2, <2>1 DEF InsertStep, Insert
  <2>2. CASE t # Tx(h) BY <1>a, <1>2, <2>2 DEF InsertStep, Insert
  <2> QED BY <2>1, <2>2
<1>3. CASE StatusStep(h)
  <2>1. CASE t # Tx(h) BY <1>a, <1>3, <2>1 DEF StatusStep, SetStatus
  <2>2. CASE t = Tx(h)
    <3>1. transactions[t] \in TxRow /\ transactions[t] # Null
          /\ transactions[t].status = "pending"
      BY <1>3, <2>2 DEF StatusStep, OnceInv, OwnerKnows, Owning, HasStatus
    <3>2. ASSUME NEW row \in TxRow, NEW s \in {"failed", "completed"}
          PROVE  [type |-> row.type, amount |-> row.amount, before |-> row.before,
                  after |-> row.after, score |-> row.score, status |-> s]
                   = [row EXCEPT !.status = s]
      BY <3>2 DEF TxRow
    <3>3. CASE pc[h] = "fail"
      <4>1. SetStatus(h, "failed") BY <1>3, <3>3 DEF StatusStep
      <4>2. transactions'[t] = [transactions[t] EXCEPT !.status = "failed"]
        BY <1>a, <2>2, <3>1, <3>2, <4>1 DEF SetStatus
      <4> QED BY <2>2, <3>1, <3>3, <4>2
    <3>4. CASE pc[h] = "complete"
      <4>1. SetStatus(h, "completed") BY <1>3, <3>4 DEF StatusStep
      <4>2. transactions'[t] = [transactions[t] EXCEPT !.status = "completed"]
        BY <1>a, <2>2, <3>1, <3>2, <4>1 DEF SetStatus
      <4> QED BY <2>2, <3>1, <3>4, <4>2
    <3> QED BY <1>3, <3>3, <3>4 DEF StatusStep
  <2> QED BY <2>1, <2>2
<1> QED BY <1>1, <1>2, <1>3, RowSteps

LEMMA StepAtMostOnce ==
  ASSUME TypeInv, OnceInv, NEW h \in Handlers, Acts(h)
  PROVE  AtMostOnce'
<1>1. ASSUME NEW a \in Accounts, NEW i \in 1..Len(commits'[a]),
             NEW j \in 1..Len(commits'[a]), commits'[a][i] = commits'[a][j]
      PROVE  i = j
  <2>1. CASE UNCHANGED commits
    BY <1>1, <2>1 DEF OnceInv, AtMostOnce
  <2>2. CASE CommitStep(h)
    <3>1. /\ commits \in [Accounts -> Seq(Keys)]
          /\ commits' = [commits EXCEPT ![req[h].account] = Append(@, req[h].key)]
          /\ req[h] \in Requests
      BY <2>2 DEF CommitStep, WriteBalance, TypeInv, TypeOK, Serving
    <3>2. req[h].account \in Accounts /\ req[h].key \in Keys
          /\ Tx(h)[1] = req[h].account /\ Tx(h)[2] = req[h].key
      BY <3>1, RequestFacts DEF Tx
    <3>3. CASE a # req[h].account
      BY <1>1, <3>1, <3>2, <3>3 DEF OnceInv, AtMostOnce
    <3>4. CASE a = req[h].account
      <4>1. \A n \in 1..Len(commits[a]) : commits[a][n] # req[h].key
        BY <2>2, <3>2, <3>4 DEF CommitStep, OnceInv, OwnerKnows, Committed
      <4>2. commits'[a] = Append(commits[a], req[h].key) /\ commits[a] \in Seq(Keys)
        BY <3>1, <3>2, <3>4
      <4>3. /\ Len(commits'[a]) = Len(commits[a]) + 1 /\ Len(commits[a]) \in Nat
            /\ \A n \in 1..Len(commits[a]) : commits'[a][n] = commits[a][n]
            /\ commits'[a][Len(commits[a]) + 1] = req[h].key
        BY <4>2, <3>2
      <4>4. \A m, n \in 1..Len(commits[a]) : commits[a][m] = commits[a][n] => m = n
        BY DEF OnceInv, AtMostOnce
      <4>5. /\ i \in 1..Len(commits[a]) + 1 /\ j \in 1..Len(commits[a]) + 1
            /\ commits'[a][i] = commits'[a][j]
        BY <1>1, <4>3
      <4>6. CASE i \in 1..Len(commits[a]) /\ j \in 1..Len(commits[a])
        <5>1. commits[a][i] = commits[a][j] BY <4>3, <4>5, <4>6
        <5> QED BY <4>4, <4>6, <5>1
      <4>7. CASE i = Len(commits[a]) + 1 /\ j \in 1..Len(commits[a])
        <5>1. commits[a][j] = req[h].key BY <4>3, <4>5, <4>7
        <5> QED BY <4>1, <4>7, <5>1
      <4>8. CASE j = Len(commits[a]) + 1 /\ i \in 1..Len(commits[a])
        <5>1. commits[a][i] = req[h].key BY <4>3, <4>5, <4>8
        <5> QED BY <4>1, <4>8, <5>1
      <4> QED BY <4>3, <4>5, <4>6, <4>7, <4>8
    <3> QED BY <3>3, <3>4
  <2> QED BY <2>1, <2>2, CommitSteps
<1>2. ASSUME NEW t \in TxIds, Committed(t)' PROVE transactions'[t] # Null
  <2>1. transactions[t] # Null
    <3>1. CASE Committed(t) BY <3>1 DEF OnceInv, AtMostOnce
    <3>2. CASE CommitStep(h) /\ t = Tx(h)
      BY <3>2 DEF CommitStep, TypeInv, OwnsRow, Owning
    <3> QED BY <1>2, <3>1, <3>2, CommittedChange
  <2> QED BY <2>1, RowsPersist
<1>3. ASSUME NEW t \in TxIds, Committed(t) PROVE Committed(t)'
  BY <1>3, CommittedChange
<1>4. ASSUME NEW t \in TxIds, HasStatus(t, {"completed"})' PROVE Committed(t)'
  <2>1. CASE transactions'[t] = transactions[t]
    BY <1>3, <1>4, <2>1 DEF HasStatus, OnceInv, AtMostOnce
  <2>2. CASE t = Tx(h) /\ pc[h] = "complete"
    BY <1>3, <2>2 DEF OnceInv, OwnerKnows
  <2>3. CASE transactions'[t].status = "pending"
    BY <1>4, <2>3 DEF HasStatus
  <2>4. CASE /\ transactions[t] # Null
             /\ transactions'[t] = [transactions[t] EXCEPT !.status = "failed"]
    <3>1. transactions[t] \in TxRow BY <2>4 DEF TypeInv, TypeOK
    <3>2. transactions'[t].status = "failed" BY <2>4, <3>1 DEF TxRow
    <3> QED BY <1>4, <3>2 DEF HasStatus
  <2> QED BY <2>1, <2>2, <2>3, <2>4, StatusChange
<1>5. ASSUME NEW g \in Handlers, reply'[g] \in {"ok", "completed"}
      PROVE  Committed(Tx(g))'
  <2>a. ASSUME Committed(Tx(g)), req[g] \in Requests, req'[g] = req[g]
        PROVE  Committed(Tx(g))'
    <3>1. Tx(g) \in TxIds /\ Tx(g)' = Tx(g) BY <2>a, RequestFacts DEF Tx
    <3>2. CASE Committed(Tx(g))' <=> Committed(Tx(g)) BY <2>a, <3>2
    <3>3. CASE CommitStep(h) /\ Tx(g) = Tx(h)
      BY <3>1, <3>3, CommitAdds DEF Committed
    <3> QED BY <3>1, <3>2, <3>3, CommittedChange DEF Committed
  <2>1. CASE reply'[g] = reply[g] /\ req'[g] = req[g]
    <3>1. Committed(Tx(g)) BY <1>5, <2>1 DEF OnceInv, AtMostOnce
    <3>2. req[g] \in Requests BY <1>5, <2>1 DEF TypeInv, Serving
    <3> QED BY <2>1, <2>a, <3>1, <3>2
  <2>2. CASE g = h /\ pc[h] = "publish" /\ req'[h] = req[h]
    BY <2>2, <2>a DEF OnceInv, OwnerKnows, TypeInv, Serving
  <2>3. CASE \E r \in Requests : /\ req'[g] = r /\ transactions[TxId(r)] # Null
                                 /\ reply'[g] = transactions[TxId(r)].status
    <3>1. PICK r \in Requests : /\ req'[g] = r /\ transactions[TxId(r)] # Null
                                /\ reply'[g] = transactions[TxId(r)].status
      BY <2>3
    <3>2. TxId(r) \in TxIds /\ Tx(g)' = TxId(r) BY <3>1, RequestFacts DEF Tx
    <3>3. transactions[TxId(r)].status = "completed"
      BY <1>5, <3>1, <3>2 DEF TypeInv, TypeOK, TxRow
    <3>4. Committed(TxId(r))
      BY <3>1, <3>2, <3>3 DEF OnceInv, AtMostOnce, HasStatus
    <3> QED BY <3>2, <3>4, <1>3 DEF Committed
  <2>4. CASE g # h BY <2>1, <2>4, Locality
  <2>5. CASE g = h BY <1>5, <2>1, <2>2, <2>3, <2>5, Answers
  <2> QED BY <2>4, <2>5
<1> QED BY <1>1, <1>2, <1>4, <1>5 DEF AtMostOnce

LEMMA StepFailedMovedNothing ==
  ASSUME TypeInv, OnceInv, NEW h \in Handlers, Acts(h)
  PROVE  FailedMovedNothing'
<1> SUFFICES ASSUME "lostReply" \notin Faults, NEW t \in TxIds,
                    HasStatus(t, {"failed"})'
             PROVE  ~Committed(t)'
  BY DEF FailedMovedNothing
<1>a. transactions \in [TxIds -> TxRow \union {Null}]
  BY DEF TypeInv, TypeOK
<1>1. transactions[t] # Null /\ ~Committed(t)
  <2>1. CASE transactions'[t] = transactions[t]
    BY <2>1 DEF HasStatus, OnceInv, FailedMovedNothing
  <2>2. CASE transactions'[t].status = "pending"
    BY <2>2 DEF HasStatus
  <2>3. CASE t = Tx(h) /\ transactions[t] # Null /\ pc[h] = "fail"
    BY <2>3 DEF OnceInv, OwnerKnows
  <2>4. CASE /\ transactions[t] # Null
             /\ transactions'[t] = [transactions[t] EXCEPT !.status = "completed"]
    <3>1. transactions'[t].status = "completed" BY <2>4, <1>a DEF TxRow
    <3> QED BY <3>1 DEF HasStatus
  <2> QED BY <2>1, <2>2, <2>3, <2>4, StatusChange
<1>2. ~(CommitStep(h) /\ t = Tx(h))
  <2> SUFFICES ASSUME CommitStep(h), t = Tx(h) PROVE FALSE
    OBVIOUS
  <2>1. HasStatus(t, {"pending"})
    BY DEF CommitStep, OnceInv, OwnerKnows, Owning
  <2>2. UNCHANGED transactions
    BY DEF CommitStep, WriteBalance
  <2> QED BY <2>1, <2>2 DEF HasStatus
<1> QED BY <1>1, <1>2, CommittedChange

\* The invariant: types and ownership, coherent snapshots, and keys that move
\* money at most once.
THEOREM WalletInvariant == Spec => []WalletInv
<1>1. Init => WalletInv
  <2> SUFFICES ASSUME Init PROVE WalletInv
    OBVIOUS
  <2>1. TypeInv BY InitTypeInv
  <2>2. SnapshotCoherent BY DEF Init, SnapshotCoherent
  <2>3. SoleOwner /\ OwnerKnows BY DEF Init, SoleOwner, OwnerKnows, Owning
  <2>4. AtMostOnce
    <3>1. \A t \in TxIds : ~Committed(t) BY DEF Init, Committed, TxIds
    <3>2. \A t \in TxIds : ~HasStatus(t, {"completed"}) BY DEF Init, HasStatus
    <3> QED BY <3>1, <3>2 DEF Init, AtMostOnce
  <2>5. FailedMovedNothing BY DEF Init, FailedMovedNothing, HasStatus
  <2> QED BY <2>1, <2>2, <2>3, <2>4, <2>5 DEF WalletInv, OnceInv
<1>2. WalletInv /\ [Next]_vars => WalletInv'
  <2> SUFFICES ASSUME WalletInv, [Next]_vars PROVE WalletInv'
    OBVIOUS
  <2>1. TypeInv' BY StepTypeInv DEF WalletInv
  <2>2. CASE UNCHANGED vars
    BY <2>1, <2>2 DEF WalletInv, vars, SnapshotCoherent, OnceInv, SoleOwner,
       OwnerKnows, AtMostOnce, FailedMovedNothing, Committed, HasStatus, Tx
  <2>3. CASE \E h \in Handlers : Acts(h)
    <3>1. PICK h \in Handlers : Acts(h) BY <2>3
    <3>2. SnapshotCoherent' BY <3>1, StepSnapshot DEF WalletInv
    <3>3. SoleOwner' BY <3>1, StepSoleOwner DEF WalletInv, OnceInv
    <3>4. OwnerKnows' BY <3>1, StepOwnerKnows DEF WalletInv
    <3>5. AtMostOnce' BY <3>1, StepAtMostOnce DEF WalletInv
    <3>6. FailedMovedNothing' BY <3>1, StepFailedMovedNothing DEF WalletInv
    <3> QED BY <2>1, <3>2, <3>3, <3>4, <3>5, <3>6 DEF WalletInv, OnceInv
  <2> QED BY <2>2, <2>3 DEF Next, Acts
<1> QED BY <1>1, <1>2, PTL DEF Spec

\* Optimistic locking holds for any number of handlers: whoever passes the
\* version test computes from the current row.
THEOREM SnapshotsCoherent == Spec => []SnapshotCoherent
<1>1. WalletInv => SnapshotCoherent
  BY DEF WalletInv
<1> QED BY <1>1, WalletInvariant, PTL

\* Whatever is retried, raced or lost, a key moves money at most once, and
\* what is reported completed has moved.
THEOREM KeysMoveMoneyOnce == Spec => []AtMostOnce
<1>1. WalletInv => AtMostOnce
  BY DEF WalletInv, OnceInv
<1> QED BY <1>1, WalletInvariant, PTL

\* Unless the database lies about an update, a failed row has moved nothing.
THEOREM FailuresMoveNothing == Spec => []FailedMovedNothing
<1>1. WalletInv => FailedMovedNothing
  BY DEF WalletInv, OnceInv
<1> QED BY <1>1, WalletInvariant, PTL

\* The sufficiency checks cover what the row's CHECKs ask, except for a credit
\* that leaves int64.
LEMMA PolicyCovers ==
  ASSUME NEW r \in Requests, NEW row \in AccountRow,
         Policy(r, row).allowed, r.amount > 0
  PROVE  \/ Policy(r, row).balance >= 0 /\ Policy(r, row).bonus >= 0
         \/ r.op \in {"deposit", "win"} /\ row.balance + r.amount > MaxInt
<1> DEFINE p == Policy(r, row)
<1>1. /\ row.balance \in 0..MaxInt /\ row.bonus \in 0..MaxInt
      /\ r.amount \in 1..MaxInt /\ r.op \in Ops
  BY RequestsAssumption, MaxIntAssumption DEF AccountRow, Money, MinInt
<1>2. CASE r.op \in {"deposit", "win"}
  <2>1. p.balance = Wrap(row.balance + r.amount) /\ p.bonus = row.bonus
    BY <1>2 DEF Policy, Deposit, Win
  <2> QED BY <1>1, <1>2, <2>1, MaxIntAssumption DEF Wrap, MinInt
<1>3. CASE r.op = "withdraw"
  <2>1. /\ p.balance = Wrap(row.balance - r.amount) /\ p.bonus = row.bonus
        /\ row.balance >= r.amount
    BY <1>3 DEF Policy, Withdraw
  <2> QED BY <1>1, <2>1, MaxIntAssumption DEF Wrap, MinInt
<1>4. CASE r.op = "bet"
  <2>1. Total(row) >= r.amount
    BY <1>4 DEF Policy, Bet
  <2>2. CASE row.bonus >= r.amount
    <3>1. p.balance = row.balance /\ p.bonus = Wrap(row.bonus - r.amount)
      BY <1>4, <2>2 DEF Policy, Bet
    <3> QED BY <1>1, <2>2, <3>1, MaxIntAssumption DEF Wrap, MinInt
  <2>3. CASE ~(row.bonus >= r.amount)
    <3>1. p.balance = row.balance - (r.amount - row.bonus) /\ p.bonus = 0
      BY <1>4, <2>3 DEF Policy, Bet
    <3>2. row.balance + row.bonus >= r.amount
      BY <1>1, <2>1, MaxIntAssumption DEF Total, Wrap, MinInt
    <3> QED BY <1>1, <2>3, <3>1, <3>2
  <2> QED BY <2>2, <2>3
<1> QED BY <1>1, <1>2, <1>3, <1>4 DEF Ops

\* No interleaving lets a bet or a withdrawal overdraw the account: the CHECKs
\* of the accounts table only ever stop an overflowing credit.
THEOREM DebitsCovered == Spec => []DebitsNeverOverdraw
<1>1. WalletInv => DebitsNeverOverdraw
  <2> SUFFICES ASSUME WalletInv, NEW h \in Handlers, pc[h] = "update",
                      accounts[req[h].account].version = snap[h].version
               PROVE  \/ Updatable(h)
                      \/ /\ EntryType(req[h]) = "credit"
                         /\ accounts[req[h].account].balance + req[h].amount > MaxInt
    BY DEF DebitsNeverOverdraw
  <2>1. /\ req[h] \in Requests /\ snap[h] \in AccountRow
        /\ Policy(req[h], snap[h]).allowed /\ req[h].amount > 0
    BY DEF WalletInv, TypeInv, Serving, Holding, Owning
  <2>2. snap[h] = accounts[req[h].account]
    BY DEF WalletInv, SnapshotCoherent
  <2> QED BY <2>1, <2>2, PolicyCovers DEF Updatable, EntryType
<1> QED BY <1>1, WalletInvariant, PTL

\* A row of the transactions table changes once, from pending to its verdict.
THEOREM RowsOnlySettle == Spec => TxRowsOnlySettle
<1>1. ASSUME WalletInv, [Next]_vars
      PROVE  [\A t \in TxIds :
               transactions[t] # Null /\ transactions'[t] # transactions[t] =>
                 /\ transactions[t].status = "pending"
                 /\ \E status \in {"completed", "failed"} :
                      transactions'[t] = [transactions[t] EXCEPT !.status = status]
             ]_vars
  <2>1. CASE UNCHANGED vars BY <2>1
  <2>2. ASSUME NEW h \in Handlers, Acts(h), NEW t \in TxIds,
               transactions[t] # Null, transactions'[t] # transactions[t]
        PROVE  /\ transactions[t].status = "pending"
               /\ \E status \in {"completed", "failed"} :
                    transactions'[t] = [transactions[t] EXCEPT !.status = status]
    <3>1. TypeInv /\ OnceInv BY <1>1 DEF WalletInv
    <3>2. /\ transactions[t].status = "pending"
          /\ \/ transactions'[t] = [transactions[t] EXCEPT !.status = "failed"]
             \/ transactions'[t] = [transactions[t] EXCEPT !.status = "completed"]
      BY <2>2, <3>1, StatusChange, Zenon
    <3> QED BY <3>2, Zenon
  <2> QED BY <1>1, <2>1, <2>2 DEF Next, Acts
<1> QED BY <1>1, WalletInvariant, PTL DEF Spec, TxRowsOnlySettle

-----------------------------------------------------------------------------
(* The service implements the atomic wallet.                               *)

FundsOf(row) ==
  [balance |-> row.balance, bonus |-> row.bonus, status |-> row.status]

\* What a policy writes, when the CHECKs accept it, is what the request means:
\* wrapped arithmetic and the bonus-first split included.
LEMMA PolicyMoves ==
  ASSUME NEW r \in Requests, NEW row \in AccountRow,
         Policy(r, row).allowed, r.amount > 0,
         Policy(r, row).balance >= 0, Policy(r, row).bonus >= 0
  PROVE  /\ AW!Covered(FundsOf(row), r)
         /\ AW!Moved(FundsOf(row), r) =
              [balance |-> Policy(r, row).balance, bonus |-> Policy(r, row).bonus,
               status |-> row.status]
<1> DEFINE f == FundsOf(row)
           p == Policy(r, row)
<1>1. /\ row.balance \in 0..MaxInt /\ row.bonus \in 0..MaxInt
      /\ r.amount \in Money /\ r.amount \in 1..MaxInt /\ r.op \in Ops
  BY RequestsAssumption, MaxIntAssumption DEF AccountRow, Money, MinInt
<1>2. p.balance \in 0..MaxInt
  BY PolicyMoney, MaxIntAssumption DEF Money, MinInt
<1>3. /\ f.balance = row.balance /\ f.bonus = row.bonus /\ f.status = row.status
      /\ f = [balance |-> row.balance, bonus |-> row.bonus, status |-> row.status]
  BY DEF FundsOf
<1>4. SUFFICES
        /\ r.op # "win" => row.status = "active"
        /\ AW!Moved(f, r) = [balance |-> p.balance, bonus |-> p.bonus,
                             status |-> row.status]
  BY <1>1, <1>2, <1>3 DEF AW!Covered
<1>5. CASE r.op \in {"deposit", "win"}
  <2>1. p.balance = Wrap(row.balance + r.amount) /\ p.bonus = row.bonus
    BY <1>5 DEF Policy, Deposit, Win
  <2>2. p.balance = row.balance + r.amount
    BY <1>1, <2>1, MaxIntAssumption DEF Wrap, MinInt
  <2>3. r.op = "deposit" => row.status = "active"
    BY DEF Policy, Deposit
  <2>4. AW!Moved(f, r) = [f EXCEPT !.balance = @ + r.amount]
    BY <1>5 DEF AW!Moved
  <2> QED BY <1>3, <1>5, <2>1, <2>2, <2>3, <2>4
<1>6. CASE r.op = "withdraw"
  <2>1. p.balance = Wrap(row.balance - r.amount) /\ p.bonus = row.bonus
        /\ row.status = "active" /\ row.balance >= r.amount
    BY <1>6 DEF Policy, Withdraw
  <2>2. p.balance = row.balance - r.amount
    BY <1>1, <2>1, MaxIntAssumption DEF Wrap, MinInt
  <2>3. AW!Moved(f, r) = [f EXCEPT !.balance = @ - r.amount]
    BY <1>6 DEF AW!Moved
  <2> QED BY <1>3, <2>1, <2>2, <2>3
<1>7. CASE r.op = "bet"
  <2> DEFINE fromBonus == IF f.bonus < r.amount THEN f.bonus ELSE r.amount
  <2>1. row.status = "active"
    BY <1>7 DEF Policy, Bet
  <2>2. p.balance = row.balance - (r.amount - fromBonus)
        /\ p.bonus = row.bonus - fromBonus
    <3>1. CASE row.bonus >= r.amount
      <4>1. p.balance = row.balance /\ p.bonus = Wrap(row.bonus - r.amount)
        BY <1>7, <3>1 DEF Policy, Bet
      <4> QED BY <1>1, <1>3, <3>1, <4>1, MaxIntAssumption DEF Wrap, MinInt
    <3>2. CASE ~(row.bonus >= r.amount)
      <4>1. p.balance = row.balance - (r.amount - row.bonus) /\ p.bonus = 0
        BY <1>7, <3>2 DEF Policy, Bet
      <4> QED BY <1>1, <1>3, <3>2, <4>1
    <3> QED BY <3>1, <3>2
  <2>3. AW!Moved(f, r) = [balance |-> f.balance - (r.amount - fromBonus),
                          bonus |-> f.bonus - fromBonus, status |-> f.status]
    BY <1>7 DEF AW!Moved
  <2> QED BY <1>3, <1>7, <2>1, <2>2, <2>3
<1> QED BY <1>1, <1>5, <1>6, <1>7 DEF Ops

\* A commit is the settlement of the handler's request in the atomic wallet.
LEMMA CommitSettles ==
  ASSUME TypeInv, TypeOK', SnapshotCoherent, OnceInv,
         NEW h \in Handlers, CommitStep(h)
  PROVE  AW!Settle(req[h])
<1> DEFINE r == req[h]
           a == req[h].account
           p == Policy(req[h], snap[h])
<1>1. r \in Requests /\ snap[h] \in AccountRow /\ p.allowed /\ r.amount > 0
  BY DEF CommitStep, TypeInv, Serving, Holding, Owning
<1>2. a \in Accounts /\ Tx(h) \in TxIds /\ accounts \in [Accounts -> AccountRow]
  BY <1>1, RequestFacts DEF Tx, TypeInv, TypeOK
<1>3. snap[h] = accounts[a] /\ p.balance >= 0 /\ p.bonus >= 0
  BY DEF CommitStep, Updatable, SnapshotCoherent
<1>4. /\ AW!Covered(FundsOf(accounts[a]), r)
      /\ AW!Moved(FundsOf(accounts[a]), r) =
           [balance |-> p.balance, bonus |-> p.bonus, status |-> accounts[a].status]
  BY <1>1, <1>3, PolicyMoves
<1>5. Funds = [b \in Accounts |-> FundsOf(accounts[b])]
  BY DEF Funds, FundsOf
<1>6. Funds[a] = FundsOf(accounts[a])
  BY <1>2, <1>5
<1>7. Funds' = [Funds EXCEPT ![a] = AW!Moved(FundsOf(accounts[a]), r)]
  <2>1. accounts' = [accounts EXCEPT ![a] =
          [balance |-> p.balance, bonus |-> p.bonus,
           status |-> accounts[a].status, version |-> accounts[a].version + 1]]
    BY DEF CommitStep, WriteBalance
  <2>2. Funds' = [b \in Accounts |-> FundsOf(accounts'[b])]
    BY DEF Funds, FundsOf
  <2>3. FundsOf(accounts'[a]) = AW!Moved(FundsOf(accounts[a]), r)
    BY <1>2, <1>4, <2>1 DEF FundsOf
  <2>4. ASSUME NEW b \in Accounts, b # a PROVE FundsOf(accounts'[b]) = FundsOf(accounts[b])
    BY <1>2, <2>1, <2>4
  <2> QED BY <1>2, <1>5, <2>2, <2>3, <2>4
<1>8. Tx(h) \notin Settled /\ AW!TxId(r) = Tx(h)
  BY DEF CommitStep, OnceInv, OwnerKnows, Settled, AW!TxId, Tx, TxId
<1>9. Settled' = Settled \union {Tx(h)}
  <2>1. \A t \in TxIds : t \in Settled' <=> t \in Settled \/ t = Tx(h)
    BY CommitAdds DEF Settled
  <2>2. Settled' \subseteq TxIds /\ Settled \subseteq TxIds
    BY DEF Settled
  <2> QED BY <1>2, <2>1, <2>2
<1> QED BY <1>4, <1>6, <1>7, <1>8, <1>9 DEF AW!Settle

\* For any number of accounts, handlers, requests and failures, the service
\* behaves to its callers as the atomic wallet does.
THEOREM ImplementsAtomicWallet == Spec => RefinesAtomicWallet
<1>1. Init => AW!Init
  <2> SUFFICES ASSUME Init PROVE AW!Init
    OBVIOUS
  <2>1. accounts \in [Accounts -> OpeningRows] BY DEF Init
  <2>2. Settled = {} BY DEF Init, Settled, Committed, TxIds
  <2> QED BY <2>1, <2>2 DEF AW!Init, Funds
<1>2. WalletInv /\ [Next]_vars => [AW!Next]_(AW!vars)
  <2> SUFFICES ASSUME WalletInv, [Next]_vars PROVE [AW!Next]_(AW!vars)
    OBVIOUS
  <2>1. CASE UNCHANGED <<accounts, commits>>
    <3>1. UNCHANGED Funds BY <2>1 DEF Funds
    <3>2. UNCHANGED Settled BY <2>1 DEF Settled, Committed
    <3> QED BY <3>1, <3>2 DEF AW!vars
  <2>2. ASSUME NEW h \in Handlers, CommitStep(h) PROVE AW!Next
    <3>1. AW!Settle(req[h])
      BY <2>2, StepTypeInv, CommitSettles DEF WalletInv, TypeInv
    <3>2. req[h] \in Requests
      BY <2>2 DEF CommitStep, WalletInv, TypeInv, Serving
    <3> QED BY <3>1, <3>2 DEF AW!Next
  <2>3. CASE UNCHANGED vars BY <2>1, <2>3 DEF vars
  <2>4. CASE \E h \in Handlers : Acts(h)
    BY <2>1, <2>2, <2>4, CommitSteps DEF WalletInv
  <2> QED BY <2>3, <2>4 DEF Next, Acts
<1> QED BY <1>1, <1>2, WalletInvariant, PTL DEF Spec, RefinesAtomicWallet, AW!Spec
-----------------------------------------------------------------------------
(* The journal.  The invariant says what the rows and the owners stand for: *)
(* a row records the request, the balance and the score of the handler that *)
(* inserted it, and until its owner writes them there is no ledger entry    *)
(* and no event of it.                                                      *)

ScoreOK(type, score) ==
  /\ type = "withdraw" /\ RiskEnabled => score # Null /\ score < ReviewThreshold
  /\ type \in {"deposit", "bet"} => score = Null \/ score < BlockThreshold

Screened ==
  \A h \in Handlers :
    /\ pc[h] \in {"idle", "read", "screen"} => risk[h] = Null
    /\ pc[h] = "create" => ScoreOK(req[h].op, risk[h])

RowsScored ==
  \A t \in TxIds :
    transactions[t] # Null => ScoreOK(transactions[t].type, transactions[t].score)

OwnerWrote ==
  \A h \in Handlers :
    pc[h] \in Owning =>
      LET tx == transactions[Tx(h)] IN
      /\ tx.type = req[h].op
      /\ tx.amount = req[h].amount
      /\ tx.after = Policy(req[h], snap[h]).after

Unjournalled ==
  \A h \in Handlers :
    /\ pc[h] \in {"update", "fail", "ledger"} =>
         \A i \in 1..Len(ledger) : ledger[i].tx # Tx(h)
    /\ pc[h] \in Owning => \A i \in 1..Len(events) : events[i] # Tx(h)

\* The columns of a row that a status update leaves alone.
SameColumns(t) ==
  /\ transactions'[t].type = transactions[t].type
  /\ transactions'[t].amount = transactions[t].amount
  /\ transactions'[t].after = transactions[t].after
  /\ transactions'[t].score = transactions[t].score

LEMMA ColumnsKept ==
  ASSUME TypeInv, OnceInv, NEW h \in Handlers, Acts(h), NEW t \in TxIds,
         transactions[t] # Null
  PROVE  transactions'[t] # Null /\ SameColumns(t)
<1>1. transactions[t] \in TxRow
  BY DEF TypeInv, TypeOK
<1>2. \/ transactions'[t] = transactions[t]
      \/ transactions'[t] = [transactions[t] EXCEPT !.status = "failed"]
      \/ transactions'[t] = [transactions[t] EXCEPT !.status = "completed"]
  BY StatusChange, Zenon
<1>3. SameColumns(t)
  BY <1>1, <1>2 DEF SameColumns, TxRow
<1>. QED  BY <1>3, RowsPersist

\* A handler at a label where it owns a row owned it before, or inserts it now
\* under a key that had none.
LEMMA OwnerFrom ==
  ASSUME TypeInv, NEW h \in Handlers, Acts(h), NEW g \in Handlers,
         pc'[g] \in Owning
  PROVE  /\ req'[g] = req[g] /\ snap'[g] = snap[g]
         /\ \/ pc[g] \in Owning
            \/ g = h /\ CreateTx(h) /\ InsertStep(h) /\ pc'[g] = "update"
<1>1. CASE g # h
  BY <1>1, Locality
<1>2. CASE g = h
  <2>1. CASE CreateTx(h) /\ pc'[h] = "update" /\ HoldsOn(h)
    BY <1>2, <2>1, InsertRow DEF CreateTx, HoldsOn
  <2>2. CASE pc[h] \in Owning /\ HoldsOn(h)
    BY <1>2, <2>2 DEF HoldsOn
  <2>. QED  BY <1>2, <2>1, <2>2, Advances
       DEF Advance, Owning, UpdateBalance, UpdateBalanceFails,
           CreateLedgerEntry, Complete
<1>. QED  BY <1>1, <1>2

\* What a handler that owns a row may rely on.
LEMMA OwnerFacts ==
  ASSUME TypeInv, NEW g \in Handlers, pc[g] \in Owning
  PROVE  /\ req[g] \in Requests /\ snap[g] \in AccountRow
         /\ Policy(req[g], snap[g]).allowed /\ req[g].amount > 0
         /\ Tx(g) \in TxIds /\ transactions[Tx(g)] # Null
         /\ req[g].account \in Accounts
         /\ Tx(g) = <<req[g].account, req[g].key>>
<1>1. req[g] \in Requests /\ snap[g] \in AccountRow
      /\ Policy(req[g], snap[g]).allowed /\ req[g].amount > 0
  BY DEF TypeInv, Serving, Holding, Owning
<1>. QED  BY <1>1, RequestFacts DEF Tx, TxId, TypeInv, OwnsRow

LEMMA StepOwnerWrote ==
  ASSUME TypeInv, OnceInv, OwnerWrote, NEW h \in Handlers, Acts(h)
  PROVE  OwnerWrote'
<1> SUFFICES ASSUME NEW g \in Handlers, pc'[g] \in Owning
             PROVE  LET tx == transactions'[Tx(g)'] IN
                    /\ tx.type = req'[g].op
                    /\ tx.amount = req'[g].amount
                    /\ tx.after = Policy(req'[g], snap'[g]).after
  BY DEF OwnerWrote
<1>1. req'[g] = req[g] /\ snap'[g] = snap[g] /\ Tx(g)' = Tx(g)
  BY OwnerFrom DEF Tx
<1>2. CASE pc[g] \in Owning
  <2>1. SameColumns(Tx(g))
    BY <1>2, OwnerFacts, ColumnsKept
  <2>. QED  BY <1>1, <1>2, <2>1 DEF OwnerWrote, SameColumns
<1>3. CASE g = h /\ InsertStep(h)
  <2>1. transactions \in [TxIds -> TxRow \union {Null}]
    BY DEF TypeInv, TypeOK
  <2>2. /\ transactions'[Tx(h)].type = req[h].op
        /\ transactions'[Tx(h)].amount = req[h].amount
        /\ transactions'[Tx(h)].after = Policy(req[h], snap[h]).after
    BY <1>3, <2>1 DEF InsertStep, Insert
  <2>. QED  BY <1>1, <1>3, <2>2
<1>. QED  BY <1>2, <1>3, OwnerFrom

-----------------------------------------------------------------------------
(* Risk.                                                                   *)

LEMMA PolicyScreens ==
  ASSUME NEW r \in Requests, NEW row
  PROVE  LET p == Policy(r, row) IN
         /\ r.op # "win" => p.screened = RiskEnabled
         /\ r.op = "win" => ~p.screened
         /\ r.op = "withdraw" => p.threshold = ReviewThreshold /\ ~p.failOpen
         /\ r.op # "withdraw" => p.threshold = BlockThreshold
<1>1. r.op \in Ops
  BY RequestsAssumption
<1>2. CASE r.op = "deposit"  BY <1>2 DEF Policy, Deposit
<1>3. CASE r.op = "bet"  BY <1>3 DEF Policy, Bet
<1>4. CASE r.op = "win"  BY <1>4 DEF Policy, Win
<1>5. CASE r.op = "withdraw"  BY <1>5 DEF Policy, Withdraw
<1>. QED  BY <1>1, <1>2, <1>3, <1>4, <1>5 DEF Ops

\* How a handler gets to its insert, and what score it then has.
LEMMA StepScreened ==
  ASSUME TypeInv, Screened, NEW h \in Handlers, Acts(h)
  PROVE  Screened'
<1> DEFINE Ok(g) ==
             /\ pc'[g] \in {"idle", "read", "screen"} => risk'[g] = Null
             /\ pc'[g] = "create" => ScoreOK(req'[g].op, risk'[g])
<1> USE DEF Goto, Return, Keep
<1>a. /\ pc \in [Handlers -> Labels] /\ risk \in [Handlers -> Scores \union {Null}]
      /\ req \in [Handlers -> Requests \union {Null}]
  BY DEF TypeInv, TypeOK
<1>b. /\ pc[h] \in {"idle", "read", "screen"} => risk[h] = Null
      /\ pc[h] = "create" => ScoreOK(req[h].op, risk[h])
      /\ pc[h] # "idle" => req[h] \in Requests
  BY DEF Screened, TypeInv, Serving
<1>1. ASSUME NEW r \in Requests, Replay(h, r) PROVE Ok(h)
  BY <1>a, <1>b, <1>1 DEF Replay
<1>2. ASSUME NEW r \in Requests, Begin(h, r) PROVE Ok(h)
  BY <1>a, <1>b, <1>2 DEF Begin
<1>3. ASSUME NEW score \in Scores, Screen(h, score) PROVE Ok(h)
  <2>1. CASE score < Policy(req[h], snap[h]).threshold
    <3>1. /\ risk'[h] = score /\ pc'[h] = "create" /\ req'[h] = req[h]
          /\ req[h] \in Requests
      BY <1>a, <1>b, <1>3, <2>1 DEF Screen
    <3>2. score # Null
      BY RiskAssumption, NullAssumption
    <3>3. ScoreOK(req[h].op, score)
      BY <2>1, <3>1, <3>2, PolicyScreens DEF ScoreOK
    <3>. QED  BY <3>1, <3>3
  <2>2. CASE ~(score < Policy(req[h], snap[h]).threshold)
    BY <1>a, <1>3, <2>2 DEF Screen
  <2>. QED  BY <2>1, <2>2
<1>4. ASSUME ReadAccount(h) PROVE Ok(h)
  <2>1. /\ req[h] \in Requests /\ risk[h] = Null /\ risk' = risk /\ req' = req
        /\ pc'[h] = IF Policy(req[h], accounts[req[h].account]).screened
                    THEN "screen" ELSE "create"
    BY <1>a, <1>b, <1>4 DEF ReadAccount
  <2>2. ASSUME ~Policy(req[h], accounts[req[h].account]).screened
        PROVE  ScoreOK(req[h].op, Null)
    BY <2>1, <2>2, PolicyScreens DEF ScoreOK
  <2>. QED  BY <2>1, <2>2
<1>5. ASSUME Refuse(h) PROVE Ok(h)  BY <1>a, <1>5 DEF Refuse
<1>6. ASSUME ScreenUnavailable(h) PROVE Ok(h)
  <2>1. CASE Policy(req[h], snap[h]).failOpen
    <3>1. /\ req[h] \in Requests /\ risk[h] = Null /\ risk' = risk /\ req' = req
          /\ pc'[h] = "create"
      BY <1>a, <1>b, <1>6, <2>1 DEF ScreenUnavailable
    <3>2. ScoreOK(req[h].op, Null)
      BY <2>1, <3>1, PolicyScreens DEF ScoreOK
    <3>. QED  BY <3>1, <3>2
  <2>2. CASE ~Policy(req[h], snap[h]).failOpen
    BY <1>a, <1>6, <2>2 DEF ScreenUnavailable
  <2>. QED  BY <2>1, <2>2
<1>7. ASSUME CreateTx(h) PROVE Ok(h)  BY <1>a, <1>7 DEF CreateTx
<1>8. ASSUME CreateTxFails(h) PROVE Ok(h)  BY <1>a, <1>8 DEF CreateTxFails
<1>9. ASSUME UpdateBalance(h) PROVE Ok(h)  BY <1>a, <1>9 DEF UpdateBalance
<1>10. ASSUME UpdateBalanceFails(h) PROVE Ok(h)  BY <1>a, <1>10 DEF UpdateBalanceFails
<1>11. ASSUME MarkFailed(h) PROVE Ok(h)  BY <1>a, <1>11 DEF MarkFailed
<1>12. ASSUME CreateLedgerEntry(h) PROVE Ok(h)  BY <1>a, <1>12 DEF CreateLedgerEntry
<1>13. ASSUME Complete(h) PROVE Ok(h)  BY <1>a, <1>13 DEF Complete
<1>14. ASSUME Publish(h) PROVE Ok(h)  BY <1>a, <1>14 DEF Publish
<1>15. ASSUME Crash(h) PROVE Ok(h)  BY <1>a, <1>15 DEF Crash
<1>16. Ok(h)
  BY <1>1, <1>2, <1>3, <1>4, <1>5, <1>6, <1>7, <1>8, <1>9, <1>10, <1>11, <1>12,
     <1>13, <1>14, <1>15 DEF Acts, Step
<1>17. ASSUME NEW g \in Handlers, g # h PROVE Ok(g)
  <2>1. pc'[g] = pc[g] /\ req'[g] = req[g] /\ risk'[g] = risk[g]
    BY <1>17, Locality
  <2>. QED  BY <2>1 DEF Screened
<1>. QED  BY <1>16, <1>17 DEF Screened, ScoreOK

LEMMA StepRowsScored ==
  ASSUME TypeInv, OnceInv, Screened, RowsScored, NEW h \in Handlers, Acts(h)
  PROVE  RowsScored'
<1> SUFFICES ASSUME NEW t \in TxIds, transactions'[t] # Null
             PROVE  ScoreOK(transactions'[t].type, transactions'[t].score)
  BY DEF RowsScored, ScoreOK
<1>1. CASE transactions[t] # Null
  <2>1. SameColumns(t)
    BY <1>1, ColumnsKept
  <2>. QED  BY <1>1, <2>1 DEF RowsScored, SameColumns
<1>2. CASE transactions[t] = Null
  <2>a. transactions \in [TxIds -> TxRow \union {Null}]
    BY DEF TypeInv, TypeOK
  <2>1. InsertStep(h) /\ t = Tx(h)
    <3>1. CASE UNCHANGED transactions  BY <1>2, <3>1
    <3>2. CASE InsertStep(h)  BY <1>2, <2>a, <3>2 DEF InsertStep, Insert
    <3>3. CASE StatusStep(h)
      BY <1>2, <2>a, <3>3, NullAssumption DEF StatusStep, SetStatus
    <3>. QED  BY <3>1, <3>2, <3>3, RowSteps
  <2>2. transactions'[t].type = req[h].op /\ transactions'[t].score = risk[h]
    BY <2>a, <2>1 DEF InsertStep, Insert
  <2>. QED  BY <2>1, <2>2 DEF InsertStep, Screened
<1>. QED  BY <1>1, <1>2

-----------------------------------------------------------------------------
(* Conflicts.                                                              *)

\* Versions never decrease.
LEMMA VersionsGrow ==
  ASSUME TypeInv, NEW h \in Handlers, Acts(h), NEW a \in Accounts
  PROVE  /\ accounts[a].version \in Nat
         /\ accounts'[a].version >= accounts[a].version
<1>1. accounts \in [Accounts -> AccountRow] /\ accounts[a].version \in Nat
  BY DEF TypeInv, TypeOK, AccountRow
<1>2. CASE UNCHANGED <<accounts, commits>>
  BY <1>1, <1>2
<1>3. CASE CommitStep(h)
  <2>1. CASE a = req[h].account
    <3>1. accounts'[a].version = accounts[a].version + 1
      BY <1>1, <1>3, <2>1 DEF CommitStep, WriteBalance
    <3>. QED  BY <1>1, <3>1
  <2>2. CASE a # req[h].account
    BY <1>1, <1>3, <2>2 DEF CommitStep, WriteBalance
  <2>. QED  BY <2>1, <2>2
<1>. QED  BY <1>1, <1>2, <1>3, CommitSteps

LEMMA StepConflict ==
  ASSUME TypeInv, SnapshotCoherent, ConflictMeansProgress,
         NEW h \in Handlers, Acts(h)
  PROVE  ConflictMeansProgress'
<1> SUFFICES ASSUME Faults = {}, NEW g \in Handlers, pc'[g] = "fail"
             PROVE  \/ snap'[g].version < accounts'[req'[g].account].version
                    \/ /\ EntryType(req'[g]) = "credit"
                       /\ snap'[g].balance + req'[g].amount > MaxInt
  BY DEF ConflictMeansProgress, EntryType
<1> DEFINE overflows == /\ EntryType(req[g]) = "credit"
                        /\ snap[g].balance + req[g].amount > MaxInt
<1>1. req'[g] = req[g] /\ snap'[g] = snap[g] /\ pc[g] \in Owning
  BY OwnerFrom DEF Owning
<1>2. /\ req[g] \in Requests /\ snap[g] \in AccountRow /\ req[g].account \in Accounts
      /\ Policy(req[g], snap[g]).allowed /\ req[g].amount > 0
      /\ snap[g].version \in Nat
  BY <1>1, OwnerFacts DEF AccountRow
<1>3. ASSUME pc[g] = "fail"
      PROVE  \/ snap[g].version < accounts'[req[g].account].version
             \/ overflows
  <2>1. accounts'[req[g].account] \in AccountRow
    BY <1>2, StepTypeInv DEF TypeInv, TypeOK, Next, Acts
  <2>2. accounts'[req[g].account].version \in Nat
    BY <2>1 DEF AccountRow
  <2>3. \/ snap[g].version < accounts[req[g].account].version
        \/ overflows
    BY <1>3 DEF ConflictMeansProgress
  <2>4. /\ accounts[req[g].account].version \in Nat
        /\ accounts'[req[g].account].version >= accounts[req[g].account].version
    BY <1>2, VersionsGrow
  <2>. QED  BY <1>2, <2>2, <2>3, <2>4
<1>4. ASSUME pc[g] # "fail"
      PROVE  \/ snap[g].version < accounts'[req[g].account].version
             \/ overflows
  <2>1. g = h /\ UpdateBalanceFails(h)
    BY <1>4, Locality, Advances DEF Advance
  <2>2. pc[h] = "update" /\ ~Updatable(h) /\ UNCHANGED tables
    BY <2>1 DEF UpdateBalanceFails
  <2>3. /\ snap[h].version <= accounts[req[h].account].version
        /\ snap[h].version = accounts[req[h].account].version =>
             snap[h] = accounts[req[h].account]
    BY <2>2 DEF SnapshotCoherent
  <2>4. CASE accounts[req[h].account].version = snap[h].version
    <3>1. ~(Policy(req[h], snap[h]).balance >= 0 /\ Policy(req[h], snap[h]).bonus >= 0)
      BY <2>2, <2>4 DEF Updatable
    <3>. QED  BY <1>2, <2>1, <3>1, PolicyCovers DEF EntryType
  <2>5. CASE accounts[req[h].account].version # snap[h].version
    <3>1. accounts[req[h].account].version \in Nat
      BY <1>2, <2>1, VersionsGrow
    <3>2. accounts' = accounts
      BY <2>2 DEF tables
    <3>. QED  BY <1>2, <2>1, <2>3, <2>5, <3>1, <3>2
  <2>. QED  BY <2>4, <2>5
<1>. QED  BY <1>1, <1>3, <1>4

-----------------------------------------------------------------------------
(* The balance a row records.                                              *)

LEMMA PolicyAfter ==
  ASSUME NEW r \in Requests, NEW row
  PROVE  LET p == Policy(r, row) IN
         p.after = IF r.op = "deposit" THEN p.balance ELSE Wrap(p.balance + p.bonus)
<1>1. r.op \in Ops
  BY RequestsAssumption
<1>2. CASE r.op = "deposit"  BY <1>2 DEF Policy, Deposit
<1>3. CASE r.op = "bet"  BY <1>3 DEF Policy, Bet
<1>4. CASE r.op = "win"  BY <1>4 DEF Policy, Win
<1>5. CASE r.op = "withdraw"  BY <1>5 DEF Policy, Withdraw
<1>. QED  BY <1>1, <1>2, <1>3, <1>4, <1>5 DEF Ops

LEMMA StepLastCommit ==
  ASSUME TypeInv, OnceInv, OwnerWrote, LastCommitRecorded,
         NEW h \in Handlers, Acts(h)
  PROVE  LastCommitRecorded'
<1> SUFFICES ASSUME NEW a \in Accounts, commits'[a] # <<>>
             PROVE  LET tx == transactions'[<<a, commits'[a][Len(commits'[a])]>>] IN
                    tx.after = IF tx.type = "deposit" THEN accounts'[a].balance
                               ELSE Total(accounts'[a])
  BY DEF LastCommitRecorded, Total, Wrap
<1>a. commits \in [Accounts -> Seq(Keys)] /\ accounts \in [Accounts -> AccountRow]
  BY DEF TypeInv, TypeOK
<1>1. ASSUME commits'[a] = commits[a], accounts'[a] = accounts[a]
      PROVE  LET tx == transactions'[<<a, commits'[a][Len(commits'[a])]>>] IN
             tx.after = IF tx.type = "deposit" THEN accounts'[a].balance
                        ELSE Total(accounts'[a])
  <2> DEFINE n == Len(commits[a])
             t == <<a, commits[a][n]>>
  <2>1. commits[a] \in Seq(Keys) /\ commits[a] # <<>> /\ n \in 1..n
    BY <1>1, <1>a
  <2>2. t \in TxIds /\ t[1] = a /\ t[2] = commits[a][n]
    BY <2>1 DEF TxIds
  <2>3. Committed(t)
    BY <2>1, <2>2 DEF Committed
  <2>4. SameColumns(t)
    BY <2>2, <2>3, ColumnsKept DEF OnceInv, AtMostOnce
  <2>5. transactions[t].after = IF transactions[t].type = "deposit"
                                THEN accounts[a].balance ELSE Total(accounts[a])
    BY <2>1 DEF LastCommitRecorded
  <2>. QED  BY <1>1, <2>4, <2>5 DEF SameColumns
<1>2. CASE UNCHANGED <<accounts, commits>>
  BY <1>1, <1>2
<1>3. CASE CommitStep(h)
  <2>1. CASE a # req[h].account
    <3>1. commits'[a] = commits[a] /\ accounts'[a] = accounts[a]
      BY <1>3, <1>a, <2>1 DEF CommitStep, WriteBalance
    <3>. QED  BY <1>1, <3>1
  <2>2. CASE a = req[h].account
    <3> DEFINE p == Policy(req[h], snap[h])
    <3>1. pc[h] \in Owning /\ Tx(h) = <<a, req[h].key>> /\ req[h] \in Requests
          /\ req[h].key \in Keys
      BY <1>3, <2>2, OwnerFacts, RequestFacts DEF CommitStep, Owning
    <3>2. /\ commits'[a] = Append(commits[a], req[h].key)
          /\ accounts'[a].balance = p.balance /\ accounts'[a].bonus = p.bonus
          /\ transactions' = transactions
      BY <1>3, <1>a, <2>2 DEF CommitStep, WriteBalance
    <3>3. commits'[a][Len(commits'[a])] = req[h].key
      BY <1>a, <3>1, <3>2
    <3>4. /\ transactions[Tx(h)].type = req[h].op
          /\ transactions[Tx(h)].after = p.after
      BY <3>1 DEF OwnerWrote
    <3>5. Total(accounts'[a]) = Wrap(p.balance + p.bonus)
      BY <3>2 DEF Total
    <3>. QED  BY <3>1, <3>2, <3>3, <3>4, <3>5, PolicyAfter
  <2>. QED  BY <2>1, <2>2
<1>. QED  BY <1>2, <1>3, CommitSteps

-----------------------------------------------------------------------------
(* Ledger and events.                                                      *)

LEMMA Appended ==
  ASSUME NEW S, NEW s \in Seq(S), NEW x \in S
  PROVE  /\ Len(Append(s, x)) = Len(s) + 1 /\ Len(s) \in Nat
         /\ Append(s, x)[Len(s) + 1] = x
         /\ \A i \in 1..Len(s) : Append(s, x)[i] = s[i] /\ i # Len(s) + 1
         /\ \A i \in 1..Len(s) + 1 : i \in 1..Len(s) \/ i = Len(s) + 1
OBVIOUS

\* The entry CreateLedgerEntry inserts.
Entry(h) ==
  [tx |-> Tx(h), entry |-> EntryType(req[h]), amount |-> req[h].amount,
   after |-> Policy(req[h], snap[h]).after]

LedgerStep(h) ==
  pc[h] = "ledger" /\ pc'[h] = "complete" /\ ledger' = Append(ledger, Entry(h))

EventStep(h) ==
  pc[h] = "publish" /\ pc'[h] = "idle" /\ events' = Append(events, Tx(h))

LEMMA JournalSteps ==
  ASSUME TypeInv, NEW h \in Handlers, Acts(h)
  PROVE  /\ UNCHANGED ledger \/ LedgerStep(h)
         /\ UNCHANGED events \/ EventStep(h)
<1> DEFINE Ok == /\ UNCHANGED ledger \/ LedgerStep(h)
                 /\ UNCHANGED events \/ EventStep(h)
<1> USE DEF tables, Goto
<1>a. pc \in [Handlers -> Labels]
  BY DEF TypeInv, TypeOK
<1>1. ASSUME NEW r \in Requests, Replay(h, r) PROVE Ok
  BY <1>1 DEF Replay
<1>2. ASSUME NEW r \in Requests, Begin(h, r) PROVE Ok
  BY <1>2 DEF Begin
<1>3. ASSUME NEW score \in Scores, Screen(h, score) PROVE Ok
  BY <1>3 DEF Screen
<1>4. CASE ReadAccount(h)  BY <1>4 DEF ReadAccount
<1>5. CASE Refuse(h)  BY <1>5 DEF Refuse
<1>6. CASE ScreenUnavailable(h)  BY <1>6 DEF ScreenUnavailable
<1>7. CASE CreateTx(h)  BY <1>7 DEF CreateTx, Insert
<1>8. CASE CreateTxFails(h)  BY <1>8 DEF CreateTxFails, Insert
<1>9. CASE UpdateBalance(h)  BY <1>9 DEF UpdateBalance, WriteBalance
<1>10. CASE UpdateBalanceFails(h)  BY <1>10 DEF UpdateBalanceFails, WriteBalance
<1>11. CASE MarkFailed(h)  BY <1>11 DEF MarkFailed, SetStatus
<1>12. CASE CreateLedgerEntry(h)
  BY <1>a, <1>12 DEF CreateLedgerEntry, LedgerStep, Entry
<1>13. CASE Complete(h)  BY <1>13 DEF Complete, SetStatus
<1>14. CASE Publish(h)  BY <1>a, <1>14 DEF Publish, Return, EventStep
<1>15. CASE Crash(h)  BY <1>15 DEF Crash
<1>. QED  BY <1>1, <1>2, <1>3, <1>4, <1>5, <1>6, <1>7, <1>8, <1>9, <1>10, <1>11,
             <1>12, <1>13, <1>14, <1>15 DEF Acts, Step

\* What a step adds to the journal.
LEMMA JournalGrows ==
  ASSUME TypeInv, NEW h \in Handlers, Acts(h)
  PROVE  /\ \A i \in 1..Len(ledger') :
              \/ i \in 1..Len(ledger) /\ ledger'[i] = ledger[i]
              \/ LedgerStep(h) /\ i = Len(ledger) + 1 /\ ledger'[i] = Entry(h)
         /\ \A i \in 1..Len(events') :
              \/ i \in 1..Len(events) /\ events'[i] = events[i]
              \/ EventStep(h) /\ i = Len(events) + 1 /\ events'[i] = Tx(h)
<1>1. CASE LedgerStep(h)
  <2>1. ledger \in Seq(LedgerEntry) /\ Entry(h) \in LedgerEntry
    BY <1>1, WriteTypes DEF TypeInv, TypeOK, LedgerStep, Entry, Holding, Owning
  <2>2. UNCHANGED events
    BY <1>1, JournalSteps DEF LedgerStep, EventStep
  <2>. QED  BY <1>1, <2>1, <2>2, Appended DEF LedgerStep
<1>2. CASE EventStep(h)
  <2>1. events \in Seq(TxIds) /\ Tx(h) \in TxIds
    BY <1>2, WriteTypes DEF TypeInv, TypeOK, EventStep, Holding
  <2>2. UNCHANGED ledger
    BY <1>2, JournalSteps DEF LedgerStep, EventStep
  <2>. QED  BY <1>2, <2>1, <2>2, Appended DEF EventStep
<1>3. CASE UNCHANGED <<ledger, events>>
  BY <1>3
<1>. QED  BY <1>1, <1>2, <1>3, JournalSteps

LEMMA StepUnjournalled ==
  ASSUME TypeInv, OnceInv, JournalFollowsCommits, Unjournalled,
         NEW h \in Handlers, Acts(h)
  PROVE  Unjournalled'
<1> SUFFICES ASSUME NEW g \in Handlers, pc'[g] \in Owning
             PROVE  /\ pc'[g] \in {"update", "fail", "ledger"} =>
                         \A i \in 1..Len(ledger') : ledger'[i].tx # Tx(g)'
                    /\ \A i \in 1..Len(events') : events'[i] # Tx(g)'
  BY DEF Unjournalled, Owning
<1>1. Tx(g)' = Tx(g)
  BY OwnerFrom DEF Tx
<1>2. CASE pc[g] \in Owning
  <2>1. pc'[g] \in {"update", "fail", "ledger"} =>
          pc[g] \in {"update", "fail", "ledger"}
    <3>1. CASE g # h  BY <3>1, Locality
    <3>2. CASE g = h
      BY <1>2, <3>2, Advances
      DEF Advance, Owning, CreateTx, UpdateBalance, UpdateBalanceFails
    <3>. QED  BY <3>1, <3>2
  <2>2. pc[h] \in Owning /\ g # h => Tx(g) # Tx(h)
    BY <1>2 DEF OnceInv, SoleOwner
  <2>3. ASSUME pc'[g] \in {"update", "fail", "ledger"}, NEW i \in 1..Len(ledger')
        PROVE  ledger'[i].tx # Tx(g)
    <3>1. CASE i \in 1..Len(ledger) /\ ledger'[i] = ledger[i]
      BY <2>1, <2>3, <3>1 DEF Unjournalled
    <3>2. CASE LedgerStep(h) /\ ledger'[i] = Entry(h)
      BY <2>2, <2>3, <3>2 DEF LedgerStep, Entry, Owning
    <3>. QED  BY <3>1, <3>2, JournalGrows
  <2>4. ASSUME NEW i \in 1..Len(events')
        PROVE  events'[i] # Tx(g)
    <3>1. CASE i \in 1..Len(events) /\ events'[i] = events[i]
      BY <1>2, <3>1 DEF Unjournalled
    <3>2. CASE EventStep(h) /\ events'[i] = Tx(h)
      BY <2>2, <3>2 DEF EventStep, Owning
    <3>. QED  BY <3>1, <3>2, JournalGrows
  <2>. QED  BY <1>1, <2>3, <2>4
<1>3. CASE g = h /\ InsertStep(h)
  <2>1. transactions[Tx(h)] = Null /\ Tx(h) \in TxIds /\ pc[h] = "create"
    BY <1>3 DEF InsertStep
  <2>2. ASSUME NEW i \in 1..Len(ledger')
        PROVE  ledger'[i].tx # Tx(h)
    <3>1. i \in 1..Len(ledger) /\ ledger'[i] = ledger[i]
      BY <2>1, JournalGrows DEF LedgerStep
    <3>. QED  BY <2>1, <3>1 DEF JournalFollowsCommits
  <2>3. ASSUME NEW i \in 1..Len(events')
        PROVE  events'[i] # Tx(h)
    <3>1. i \in 1..Len(events) /\ events'[i] = events[i]
      BY <2>1, JournalGrows DEF EventStep
    <3>. QED  BY <2>1, <3>1 DEF JournalFollowsCommits, OnceInv, AtMostOnce
  <2>. QED  BY <1>1, <1>3, <2>2, <2>3
<1>. QED  BY <1>2, <1>3, OwnerFrom

\* t has moved money once the step is taken.
CommittedNext(t) == \E i \in 1..Len(commits'[t[1]]) : commits'[t[1]][i] = t[2]

LEMMA CommitsPersist ==
  ASSUME TypeInv, NEW h \in Handlers, Acts(h)
  PROVE  \A t \in TxIds : Committed(t) => CommittedNext(t)
<1> SUFFICES ASSUME NEW t \in TxIds, Committed(t) PROVE CommittedNext(t)
  OBVIOUS
<1>1. Committed(t)'
  BY CommittedChange
<1>. QED  BY <1>1 DEF Committed, CommittedNext

LEMMA StepJournal ==
  ASSUME TypeInv, OnceInv, OwnerWrote, Unjournalled, JournalFollowsCommits,
         NEW h \in Handlers, Acts(h)
  PROVE  JournalFollowsCommits'
<1> DEFINE Follows(e) ==
             LET tx == transactions'[e.tx] IN
             /\ CommittedNext(e.tx)
             /\ tx # Null
             /\ e.amount = tx.amount
             /\ e.after = tx.after
             /\ e.entry = "credit" <=> tx.type \in {"deposit", "win"}
<1>a. ledger \in Seq(LedgerEntry) /\ events \in Seq(TxIds)
  BY DEF TypeInv, TypeOK
<1>1. ASSUME NEW i \in 1..Len(ledger)
      PROVE  Follows(ledger[i])
  <2> DEFINE t == ledger[i].tx
  <2>1. t \in TxIds
    <3>1. ledger[i] \in LedgerEntry
      BY <1>a
    <3>. QED  BY <3>1 DEF LedgerEntry
  <2>2. /\ Committed(t) /\ transactions[t] # Null
        /\ ledger[i].amount = transactions[t].amount
        /\ ledger[i].after = transactions[t].after
        /\ ledger[i].entry = "credit" <=> transactions[t].type \in {"deposit", "win"}
    BY DEF JournalFollowsCommits
  <2>3. transactions'[t] # Null /\ SameColumns(t) /\ CommittedNext(t)
    BY <2>1, <2>2, CommitsPersist, ColumnsKept
  <2>. QED  BY <2>2, <2>3 DEF SameColumns
<1>2. ASSUME LedgerStep(h)
      PROVE  Follows(Entry(h))
  <2>1. Tx(h) \in TxIds /\ transactions[Tx(h)] # Null
    BY <1>2, OwnerFacts DEF LedgerStep, Owning
  <2>2. Committed(Tx(h))
    BY <1>2 DEF LedgerStep, OnceInv, OwnerKnows
  <2>3. /\ transactions[Tx(h)].type = req[h].op
        /\ transactions[Tx(h)].amount = req[h].amount
        /\ transactions[Tx(h)].after = Policy(req[h], snap[h]).after
    BY <1>2 DEF LedgerStep, OwnerWrote, Owning
  <2> DEFINE t == Tx(h)
  <2>4. transactions'[t] # Null /\ SameColumns(t) /\ CommittedNext(t)
    BY <2>1, <2>2, CommitsPersist, ColumnsKept
  <2>5. /\ Entry(h).tx = t /\ Entry(h).amount = req[h].amount
        /\ Entry(h).after = Policy(req[h], snap[h]).after
        /\ Entry(h).entry = "credit" <=> req[h].op \in {"deposit", "win"}
    BY DEF Entry, EntryType
  <2>. QED  BY <2>3, <2>4, <2>5 DEF SameColumns
<1>3. ASSUME NEW i \in 1..Len(ledger')
      PROVE  Follows(ledger'[i])
  <2>1. CASE i \in 1..Len(ledger) /\ ledger'[i] = ledger[i]
    BY <1>1, <2>1
  <2>2. CASE LedgerStep(h) /\ ledger'[i] = Entry(h)
    BY <1>2, <2>2
  <2>. QED  BY <2>1, <2>2, JournalGrows
<1>4. ASSUME NEW i \in 1..Len(ledger'), NEW j \in 1..Len(ledger'),
             ledger'[i].tx = ledger'[j].tx
      PROVE  i = j
  <2>1. ASSUME LedgerStep(h), NEW k \in 1..Len(ledger)
        PROVE  ledger[k].tx # Entry(h).tx
    BY <2>1 DEF LedgerStep, Unjournalled, Entry
  <2>. QED  BY <1>4, <2>1, JournalGrows DEF JournalFollowsCommits
<1>5. ASSUME NEW i \in 1..Len(events')
      PROVE  CommittedNext(events'[i])
  <2>1. CASE i \in 1..Len(events) /\ events'[i] = events[i]
    <3>1. events[i] \in TxIds /\ Committed(events[i])
      BY <1>a, <2>1 DEF JournalFollowsCommits
    <3>. QED  BY <2>1, <3>1, CommitsPersist
  <2>2. CASE EventStep(h) /\ events'[i] = Tx(h)
    <3>1. Tx(h) \in TxIds /\ Committed(Tx(h))
      BY <2>2, OwnerFacts DEF EventStep, Owning, OnceInv, OwnerKnows
    <3>. QED  BY <2>2, <3>1, CommitsPersist
  <2>. QED  BY <2>1, <2>2, JournalGrows
<1>6. ASSUME NEW i \in 1..Len(events'), NEW j \in 1..Len(events'),
             events'[i] = events'[j]
      PROVE  i = j
  <2>1. ASSUME EventStep(h), NEW k \in 1..Len(events)
        PROVE  events[k] # Tx(h)
    BY <2>1 DEF EventStep, Unjournalled, Owning
  <2>. QED  BY <1>6, <2>1, JournalGrows DEF JournalFollowsCommits
<1>. QED  BY <1>3, <1>4, <1>5, <1>6 DEF JournalFollowsCommits, Committed, CommittedNext

-----------------------------------------------------------------------------
(* Quiet books.  Without failures a row is either still owned, or its       *)
(* status, its entry and its event say the same; an owner has written what  *)
(* its label says.                                                         *)

InLedger(t) == \E i \in 1..Len(ledger) : ledger[i].tx = t

InEvents(t) == \E i \in 1..Len(events) : events[i] = t

Owned(t) == \E h \in Handlers : pc[h] \in Owning /\ Tx(h) = t

Agreed(t) ==
  /\ transactions[t].status = IF Committed(t) THEN "completed" ELSE "failed"
  /\ Committed(t) <=> InLedger(t)
  /\ Committed(t) <=> InEvents(t)

QuietInv ==
  Faults = {} =>
    /\ \A h \in Handlers :
         /\ pc[h] \in {"complete", "publish"} => InLedger(Tx(h))
         /\ pc[h] = "publish" => HasStatus(Tx(h), {"completed"})
    /\ \A t \in TxIds : transactions[t] # Null => Owned(t) \/ Agreed(t)

\* What an owner does.
LEMMA OwnerSteps ==
  ASSUME TypeInv, NEW h \in Handlers, Acts(h), pc[h] \in Owning
  PROVE  \/ UpdateBalance(h) \/ UpdateBalanceFails(h) \/ MarkFailed(h)
         \/ CreateLedgerEntry(h) \/ Complete(h) \/ Publish(h) \/ Crash(h)
BY DEF Acts, Step, Owning, Replay, Begin, ReadAccount, Refuse, Screen,
       ScreenUnavailable, CreateTx, CreateTxFails

\* Journals and commits are only added to.
LEMMA JournalKept ==
  ASSUME TypeInv, NEW h \in Handlers, Acts(h), NEW t
  PROVE  /\ InLedger(t) => \E i \in 1..Len(ledger') : ledger'[i].tx = t
         /\ InEvents(t) => \E i \in 1..Len(events') : events'[i] = t
<1>1. CASE LedgerStep(h)
  <2>1. ledger \in Seq(LedgerEntry) /\ Entry(h) \in LedgerEntry
    BY <1>1, WriteTypes DEF TypeInv, TypeOK, LedgerStep, Entry, Holding, Owning
  <2>2. UNCHANGED events
    BY <1>1, JournalSteps DEF LedgerStep, EventStep
  <2>. QED  BY <1>1, <2>1, <2>2, Appended DEF LedgerStep, InLedger, InEvents
<1>2. CASE EventStep(h)
  <2>1. events \in Seq(TxIds) /\ Tx(h) \in TxIds
    BY <1>2, WriteTypes DEF TypeInv, TypeOK, EventStep, Holding
  <2>2. UNCHANGED ledger
    BY <1>2, JournalSteps DEF LedgerStep, EventStep
  <2>. QED  BY <1>2, <2>1, <2>2, Appended DEF EventStep, InLedger, InEvents
<1>3. CASE UNCHANGED <<ledger, events>>
  BY <1>3 DEF InLedger, InEvents
<1>. QED  BY <1>1, <1>2, <1>3, JournalSteps

\* A row nobody owns is left alone.
LEMMA UnownedKept ==
  ASSUME TypeInv, OnceInv, NEW h \in Handlers, Acts(h), NEW t \in TxIds,
         transactions[t] # Null, ~(pc[h] \in Owning /\ Tx(h) = t)
  PROVE  /\ transactions'[t] = transactions[t]
         /\ CommittedNext(t) <=> Committed(t)
         /\ (\E i \in 1..Len(ledger') : ledger'[i].tx = t) <=> InLedger(t)
         /\ (\E i \in 1..Len(events') : events'[i] = t) <=> InEvents(t)
<1>1. transactions'[t] = transactions[t]
  BY StatusChange DEF Owning
<1>2. CommittedNext(t) <=> Committed(t)
  <2>1. Committed(t)' <=> Committed(t)
    BY CommittedChange DEF CommitStep, Owning
  <2>. QED  BY <2>1 DEF Committed, CommittedNext
<1>3. LedgerStep(h) => Entry(h).tx # t
  BY DEF LedgerStep, Entry, Owning
<1>4. EventStep(h) => Tx(h) # t
  BY DEF EventStep, Owning
<1>5. (\E i \in 1..Len(ledger') : ledger'[i].tx = t) => InLedger(t)
  BY <1>3, JournalGrows DEF InLedger
<1>6. (\E i \in 1..Len(events') : events'[i] = t) => InEvents(t)
  BY <1>4, JournalGrows DEF InEvents
<1>. QED  BY <1>1, <1>2, <1>5, <1>6, JournalKept

LEMMA StepOwnersBooked ==
  ASSUME TypeInv, OnceInv, OnceInv', QuietInv, Faults = {},
         NEW h \in Handlers, Acts(h), NEW g \in Handlers
  PROVE  /\ pc'[g] \in {"complete", "publish"} =>
              \E i \in 1..Len(ledger') : ledger'[i].tx = Tx(g)'
         /\ pc'[g] = "publish" => HasStatus(Tx(g), {"completed"})'
<1> SUFFICES ASSUME pc'[g] \in {"complete", "publish"}
             PROVE  /\ \E i \in 1..Len(ledger') : ledger'[i].tx = Tx(g)'
                    /\ pc'[g] = "publish" => HasStatus(Tx(g), {"completed"})'
  OBVIOUS
<1>1. /\ req'[g] = req[g] /\ Tx(g)' = Tx(g) /\ pc[g] \in Owning
  BY OwnerFrom DEF Tx, Owning
<1>2. Tx(g) \in TxIds /\ transactions[Tx(g)] # Null
  BY <1>1, OwnerFacts
<1>3. CASE g # h
  <2>1. pc'[g] = pc[g]
    BY <1>3, Locality
  <2>2. ~(pc[h] \in Owning /\ Tx(h) = Tx(g))
    BY <1>1, <1>3 DEF OnceInv, SoleOwner
  <2>3. transactions'[Tx(g)] = transactions[Tx(g)]
    BY <1>2, <2>2, UnownedKept
  <2>4. InLedger(Tx(g)) /\ (pc[g] = "publish" => HasStatus(Tx(g), {"completed"}))
    BY <2>1 DEF QuietInv
  <2>. QED  BY <1>1, <2>1, <2>3, <2>4, JournalKept DEF HasStatus
<1>4. CASE g = h /\ CreateLedgerEntry(h) /\ pc'[h] = "complete"
  <2>1. ledger' = Append(ledger, Entry(h)) /\ pc[h] = "ledger"
    BY <1>4 DEF CreateLedgerEntry, Entry
  <2>2. ledger \in Seq(LedgerEntry) /\ Entry(h) \in LedgerEntry
    BY <2>1, WriteTypes DEF TypeInv, TypeOK, Entry, Holding, Owning
  <2>3. Entry(h).tx = Tx(h)
    BY DEF Entry
  <2>4. Len(ledger) + 1 \in 1..Len(ledger') /\ ledger'[Len(ledger) + 1].tx = Tx(h)
    BY <2>1, <2>2, <2>3, Appended
  <2>. QED  BY <1>1, <1>4, <2>4
<1>5. CASE g = h /\ Complete(h) /\ pc'[h] = "publish"
  <2>1. pc[h] = "complete" /\ SetStatus(h, "completed")
    BY <1>5 DEF Complete
  <2>2. InLedger(Tx(h))
    BY <2>1 DEF QuietInv
  <2>3. transactions \in [TxIds -> TxRow \union {Null}]
    BY DEF TypeInv, TypeOK
  <2>4. transactions'[Tx(h)].status = "completed"
    BY <1>2, <1>5, <2>1, <2>3 DEF SetStatus
  <2>5. transactions'[Tx(h)] # Null
    BY <1>2, <1>5, RowsPersist
  <2>. QED  BY <1>1, <1>5, <2>2, <2>4, <2>5, JournalKept DEF HasStatus
<1>. QED  BY <1>3, <1>4, <1>5, Advances
     DEF Advance, CreateTx, UpdateBalance, UpdateBalanceFails

LEMMA StepRowsAgree ==
  ASSUME TypeInv, OnceInv, OnceInv', JournalFollowsCommits', QuietInv, Faults = {},
         NEW h \in Handlers, Acts(h), NEW t \in TxIds, transactions'[t] # Null
  PROVE  \/ \E g \in Handlers : pc'[g] \in Owning /\ Tx(g)' = t
         \/ /\ transactions'[t].status = IF CommittedNext(t) THEN "completed" ELSE "failed"
            /\ CommittedNext(t) <=> \E i \in 1..Len(ledger') : ledger'[i].tx = t
            /\ CommittedNext(t) <=> \E i \in 1..Len(events') : events'[i] = t
<1> DEFINE OwnedNext == \E g \in Handlers : pc'[g] \in Owning /\ Tx(g)' = t
           AgreedNext ==
             /\ transactions'[t].status = IF CommittedNext(t) THEN "completed" ELSE "failed"
             /\ CommittedNext(t) <=> \E i \in 1..Len(ledger') : ledger'[i].tx = t
             /\ CommittedNext(t) <=> \E i \in 1..Len(events') : events'[i] = t
<1>a. transactions \in [TxIds -> TxRow \union {Null}] /\ pc \in [Handlers -> Labels]
  BY DEF TypeInv, TypeOK
<1>1. CASE transactions[t] = Null
  <2>1. InsertStep(h) /\ t = Tx(h)
    <3>1. CASE UNCHANGED transactions  BY <1>1, <3>1
    <3>2. CASE InsertStep(h)  BY <1>1, <1>a, <3>2 DEF InsertStep, Insert
    <3>3. CASE StatusStep(h)
      BY <1>1, <1>a, <3>3, NullAssumption DEF StatusStep, SetStatus
    <3>. QED  BY <3>1, <3>2, <3>3, RowSteps
  <2>2. CreateTx(h)
    <3>1. pc[h] = "create" /\ transactions' # transactions
      BY <1>1, <2>1 DEF InsertStep
    <3>. QED  BY <3>1 DEF Acts, Step, Replay, Begin, ReadAccount, Refuse, Screen,
            ScreenUnavailable, CreateTxFails, UpdateBalance, UpdateBalanceFails,
            MarkFailed, CreateLedgerEntry, Complete, Publish, Crash, tables
  <2>3. pc'[h] \in Owning /\ Tx(h)' = Tx(h)
    BY <1>a, <2>2 DEF CreateTx, Goto, Keep, Owning, Tx
  <2>. QED  BY <2>1, <2>3
<1>2. CASE transactions[t] # Null /\ ~Owned(t)
  <2>1. Agreed(t) /\ ~(pc[h] \in Owning /\ Tx(h) = t)
    BY <1>2 DEF QuietInv, Owned
  <2>. QED  BY <1>2, <2>1, UnownedKept DEF Agreed
<1>3. ASSUME NEW g \in Handlers, pc[g] \in Owning, Tx(g) = t
      PROVE  OwnedNext \/ AgreedNext
  <2>1. CASE g # h
    <3>1. pc'[g] = pc[g] /\ Tx(g)' = Tx(g)
      BY <2>1, Locality DEF Tx
    <3>. QED  BY <1>3, <3>1
  <2>2. CASE g = h /\ MarkFailed(h)
    <3>1. pc[h] = "fail" /\ SetStatus(h, "failed") /\ UNCHANGED <<ledger, events, commits>>
      BY <2>2 DEF MarkFailed, SetStatus
    <3>2. ~Committed(t)
      BY <1>3, <2>2, <3>1 DEF OnceInv, OwnerKnows
    <3>3. transactions'[t].status = "failed"
      BY <1>3, <1>a, <2>2, <3>1 DEF SetStatus
    <3>4. ~CommittedNext(t)
      BY <3>1, <3>2 DEF Committed, CommittedNext
    <3>5. ASSUME NEW i \in 1..Len(ledger') PROVE ledger'[i].tx # t
      <4>1. CommittedNext(ledger'[i].tx)
        BY DEF JournalFollowsCommits, Committed, CommittedNext
      <4>. QED  BY <3>4, <4>1
    <3>6. ASSUME NEW i \in 1..Len(events') PROVE events'[i] # t
      <4>1. CommittedNext(events'[i])
        BY DEF JournalFollowsCommits, Committed, CommittedNext
      <4>. QED  BY <3>4, <4>1
    <3>. QED  BY <3>3, <3>4, <3>5, <3>6
  <2>3. CASE g = h /\ Publish(h)
    <3>1. /\ pc[h] = "publish" /\ events' = Append(events, Tx(h))
          /\ UNCHANGED <<ledger, transactions, commits>>
      BY <2>3 DEF Publish
    <3>2. /\ InLedger(t) /\ transactions[t].status = "completed" /\ Committed(t)
      BY <1>3, <2>3, <3>1 DEF QuietInv, HasStatus, OnceInv, OwnerKnows
    <3>3. events \in Seq(TxIds) /\ Tx(h) \in TxIds
      BY <1>3, <2>3 DEF TypeInv, TypeOK
    <3>4. Len(events) + 1 \in 1..Len(events') /\ events'[Len(events) + 1] = t
      BY <1>3, <2>3, <3>1, <3>3, Appended
    <3>. QED  BY <3>1, <3>2, <3>4 DEF Committed, CommittedNext, InLedger
  <2>4. CASE g = h /\ pc'[h] \in Owning /\ req'[h] = req[h]
    BY <1>3, <2>4 DEF Tx
  <2>5. g = h => \/ MarkFailed(h) \/ Publish(h)
                 \/ pc'[h] \in Owning /\ req'[h] = req[h]
    BY <1>3, <1>a, OwnerSteps
    DEF UpdateBalance, UpdateBalanceFails, CreateLedgerEntry, Complete, Crash,
        Goto, Keep, Owning
  <2>. QED  BY <2>1, <2>2, <2>3, <2>4, <2>5
<1>. QED  BY <1>1, <1>2, <1>3 DEF Owned

LEMMA StepQuiet ==
  ASSUME TypeInv, OnceInv, OnceInv', JournalFollowsCommits', QuietInv,
         NEW h \in Handlers, Acts(h)
  PROVE  QuietInv'
<1> SUFFICES ASSUME Faults = {} PROVE QuietInv'
  BY DEF QuietInv
<1>1. ASSUME NEW g \in Handlers
      PROVE  /\ pc'[g] \in {"complete", "publish"} => InLedger(Tx(g))'
             /\ pc'[g] = "publish" => HasStatus(Tx(g), {"completed"})'
  BY StepOwnersBooked DEF InLedger
<1>2. ASSUME NEW t \in TxIds, transactions'[t] # Null
      PROVE  Owned(t)' \/ Agreed(t)'
  BY <1>2, StepRowsAgree
  DEF Owned, Agreed, InLedger, InEvents, Committed, CommittedNext
<1>. QED  BY <1>1, <1>2 DEF QuietInv

-----------------------------------------------------------------------------
(* What holds of the books.                                                *)

BookInv ==
  /\ Screened /\ RowsScored /\ OwnerWrote /\ Unjournalled
  /\ JournalFollowsCommits /\ LastCommitRecorded /\ ConflictMeansProgress
  /\ QuietInv

\* The invariant of the journal, on top of WalletInv.
THEOREM BooksInvariant == Spec => []BookInv
<1>1. Init => BookInv
  <2> SUFFICES ASSUME Init PROVE BookInv
    OBVIOUS
  <2>1. Screened /\ OwnerWrote /\ Unjournalled /\ ConflictMeansProgress
    BY DEF Init, Screened, OwnerWrote, Unjournalled, ConflictMeansProgress, Owning
  <2>2. RowsScored /\ LastCommitRecorded
    BY DEF Init, RowsScored, LastCommitRecorded
  <2>3. JournalFollowsCommits
    BY DEF Init, JournalFollowsCommits
  <2>4. QuietInv
    BY DEF Init, QuietInv
  <2>. QED  BY <2>1, <2>2, <2>3, <2>4 DEF BookInv
<1>2. WalletInv /\ WalletInv' /\ BookInv /\ [Next]_vars => BookInv'
  <2> SUFFICES ASSUME WalletInv, WalletInv', BookInv, [Next]_vars PROVE BookInv'
    OBVIOUS
  <2>1. TypeInv /\ SnapshotCoherent /\ OnceInv /\ OnceInv'
    BY DEF WalletInv
  <2>2. CASE UNCHANGED vars
    <3>1. Screened' /\ RowsScored' /\ OwnerWrote' /\ Unjournalled'
      BY <2>2 DEF BookInv, vars, Screened, RowsScored, OwnerWrote, Unjournalled,
                  ScoreOK, Tx
    <3>2. JournalFollowsCommits'
      BY <2>2 DEF BookInv, vars, JournalFollowsCommits, Committed
    <3>3. LastCommitRecorded' /\ ConflictMeansProgress'
      BY <2>2 DEF BookInv, vars, LastCommitRecorded, ConflictMeansProgress, Total, Wrap
    <3>4. QuietInv'
      BY <2>2 DEF BookInv, vars, QuietInv, InLedger, InEvents, Owned, Agreed,
                  HasStatus, Committed, Tx
    <3>. QED  BY <3>1, <3>2, <3>3, <3>4 DEF BookInv
  <2>3. ASSUME NEW h \in Handlers, Acts(h) PROVE BookInv'
    <3>1. OwnerWrote' /\ Unjournalled' /\ JournalFollowsCommits'
      BY <2>1, <2>3, StepOwnerWrote, StepUnjournalled, StepJournal DEF BookInv
    <3>2. Screened' /\ RowsScored'
      BY <2>1, <2>3, StepScreened, StepRowsScored DEF BookInv
    <3>3. LastCommitRecorded' /\ ConflictMeansProgress'
      BY <2>1, <2>3, StepLastCommit, StepConflict DEF BookInv
    <3>4. QuietInv'
      BY <2>1, <2>3, <3>1, StepQuiet DEF BookInv
    <3>. QED  BY <3>1, <3>2, <3>3, <3>4 DEF BookInv
  <2>. QED  BY <2>2, <2>3 DEF Next, Acts
<1>. QED  BY <1>1, <1>2, WalletInvariant, PTL DEF Spec

\* The ledger and the events belong to money that has moved, never twice, and
\* an entry agrees with its row, whatever fails and whoever races.
THEOREM JournalIsSound == Spec => []JournalFollowsCommits
<1>1. BookInv => JournalFollowsCommits
  BY DEF BookInv
<1>. QED  BY <1>1, BooksInvariant, PTL

\* No withdrawal moves money on a missing or high score, no deposit or bet on
\* a blocking one.
THEOREM RiskIsRespected == Spec => []RiskRespected
<1>1. WalletInv /\ BookInv => RiskRespected
  <2> SUFFICES ASSUME WalletInv, BookInv, NEW a \in Accounts,
                      NEW i \in 1..Len(commits[a])
               PROVE  LET tx == transactions[<<a, commits[a][i]>>] IN
                      ScoreOK(tx.type, tx.score)
    BY DEF RiskRespected, ScoreOK
  <2> DEFINE t == <<a, commits[a][i]>>
  <2>1. commits[a] \in Seq(Keys)
    BY DEF WalletInv, TypeInv, TypeOK
  <2>2. t \in TxIds /\ t[1] = a /\ t[2] = commits[a][i]
    BY <2>1 DEF TxIds
  <2>3. Committed(t)
    BY <2>2 DEF Committed
  <2>. QED  BY <2>2, <2>3 DEF WalletInv, OnceInv, AtMostOnce, BookInv, RowsScored
<1>. QED  BY <1>1, WalletInvariant, BooksInvariant, PTL

\* balance_after of the last transaction that moved money is the balance.
THEOREM LastCommitIsRecorded == Spec => []LastCommitRecorded
<1>1. BookInv => LastCommitRecorded
  BY DEF BookInv
<1>. QED  BY <1>1, BooksInvariant, PTL

\* Without failures a request is refused its update only by an overflow or
\* because another one moved money.
THEOREM ConflictsMeanProgress == Spec => []ConflictMeansProgress
<1>1. BookInv => ConflictMeansProgress
  BY DEF BookInv
<1>. QED  BY <1>1, BooksInvariant, PTL

\* Without failures, rows, commits, ledger and events of an account that no
\* handler works on are the same transactions.
THEOREM QuietBooksDoAgree == Spec => []QuietBooksAgree
<1>1. WalletInv /\ BookInv => QuietBooksAgree
  <2> SUFFICES ASSUME WalletInv, BookInv, Faults = {}, NEW t \in TxIds,
                      Quiet(t[1]), transactions[t] # Null
               PROVE  Agreed(t)
    BY DEF QuietBooksAgree, Agreed, InLedger, InEvents
  <2>1. ~Owned(t)
    <3> SUFFICES ASSUME NEW h \in Handlers, pc[h] \in Owning, Tx(h) = t PROVE FALSE
      BY DEF Owned
    <3>1. Tx(h) = <<req[h].account, req[h].key>>
      BY OwnerFacts DEF WalletInv
    <3>2. req[h].account = t[1]
      BY <3>1
    <3>. QED  BY <3>2 DEF Quiet, Owning
  <2>. QED  BY <2>1 DEF BookInv, QuietInv
<1>. QED  BY <1>1, WalletInvariant, BooksInvariant, PTL

-----------------------------------------------------------------------------
(* The sums.  An account's total is what it opened with plus the signed     *)
(* amounts of the transactions that moved money on it, whatever fails; the  *)
(* audit queries add the same amounts up in other ways.                     *)

Value(t) ==
  IF transactions[t].type \in {"deposit", "win"} THEN transactions[t].amount
  ELSE -transactions[t].amount

Values == [t \in TxIds |-> IF transactions[t] = Null THEN 0 ELSE Value(t)]

MovedOn(a) == {t \in TxIds : t[1] = a /\ Committed(t)}

Explained ==
  \A a \in Accounts :
    \E row \in OpeningRows :
      /\ row.status = accounts[a].status
      /\ accounts[a].balance + accounts[a].bonus
           = row.balance + row.bonus + SumFunctionOnSet(Values, MovedOn(a))

\* A policy adds or takes the amount of its request, from real and bonus money
\* together.
LEMMA PolicySum ==
  ASSUME NEW r \in Requests, NEW row \in AccountRow,
         Policy(r, row).allowed, r.amount > 0,
         Policy(r, row).balance >= 0, Policy(r, row).bonus >= 0
  PROVE  Policy(r, row).balance + Policy(r, row).bonus
           = row.balance + row.bonus
               + (IF r.op \in {"deposit", "win"} THEN r.amount ELSE -r.amount)
<1> DEFINE f == FundsOf(row)
           p == Policy(r, row)
<1>1. /\ row.balance \in Int /\ row.bonus \in Int /\ r.amount \in Int /\ r.op \in Ops
      /\ f.balance = row.balance /\ f.bonus = row.bonus
      /\ f = [balance |-> row.balance, bonus |-> row.bonus, status |-> row.status]
  BY RequestFacts DEF AccountRow, FundsOf
<1>2. AW!Moved(f, r) = [balance |-> p.balance, bonus |-> p.bonus, status |-> row.status]
  BY PolicyMoves
<1>3. AW!Moved(f, r).balance = p.balance /\ AW!Moved(f, r).bonus = p.bonus
  BY <1>2
<1> HIDE DEF f, p
<1>4. CASE r.op \in {"deposit", "win"}
  <2>1. AW!Moved(f, r) = [f EXCEPT !.balance = @ + r.amount]
    BY <1>4 DEF AW!Moved
  <2>2. p.balance = row.balance + r.amount /\ p.bonus = row.bonus
    BY <1>1, <1>3, <2>1
  <2> QED BY <1>1, <1>4, <2>2 DEF p
<1>5. CASE r.op = "withdraw"
  <2>1. AW!Moved(f, r) = [f EXCEPT !.balance = @ - r.amount]
    BY <1>5 DEF AW!Moved
  <2>2. p.balance = row.balance - r.amount /\ p.bonus = row.bonus
    BY <1>1, <1>3, <2>1
  <2> QED BY <1>1, <1>5, <2>2 DEF p
<1>6. CASE r.op = "bet"
  <2> DEFINE fromBonus == IF f.bonus < r.amount THEN f.bonus ELSE r.amount
  <2>1. AW!Moved(f, r) = [balance |-> f.balance - (r.amount - fromBonus),
                          bonus |-> f.bonus - fromBonus, status |-> f.status]
    BY <1>6 DEF AW!Moved
  <2>2. fromBonus \in Int
    BY <1>1
  <2> HIDE DEF fromBonus
  <2>3. p.balance = row.balance - (r.amount - fromBonus) /\ p.bonus = row.bonus - fromBonus
    BY <1>1, <1>3, <2>1
  <2> QED BY <1>1, <1>6, <2>2, <2>3 DEF p
<1> QED BY <1>1, <1>4, <1>5, <1>6 DEF Ops

LEMMA MovedFacts ==
  ASSUME TypeInv, OnceInv, NEW a \in Accounts
  PROVE  /\ IsFiniteSet(MovedOn(a))
         /\ \A t \in MovedOn(a) : /\ t \in TxIds /\ transactions[t] \in TxRow
                                  /\ transactions[t] # Null /\ Values[t] = Value(t)
                                  /\ Values[t] \in Int
<1> DEFINE places == 1..Len(commits[a])
           f == [i \in places |-> <<a, commits[a][i]>>]
           I == {f[i] : i \in places}
<1>1. IsFiniteSet(places)
  <2>1. Len(commits[a]) \in Nat
    BY DEF TypeInv, TypeOK
  <2> QED BY <2>1, FS_Interval
<1>2. f \in Surjection(places, I)
  BY DEF Surjection
<1>3. IsFiniteSet(I)
  <2> HIDE DEF places, f, I
  <2> QED BY <1>1, <1>2, FS_Surjection
<1>4. MovedOn(a) \subseteq I
  <2> SUFFICES ASSUME NEW t \in TxIds, t[1] = a, Committed(t) PROVE t \in I
    BY DEF MovedOn
  <2>1. PICK i \in places : commits[a][i] = t[2]
    BY DEF Committed
  <2>2. t = <<a, commits[a][i]>>
    BY <2>1 DEF TxIds
  <2>3. t = f[i]
    BY <2>2
  <2> QED BY <2>3
<1>5. IsFiniteSet(MovedOn(a))
  BY <1>3, <1>4, FS_Subset
<1>6. ASSUME NEW t \in MovedOn(a)
      PROVE  /\ t \in TxIds /\ transactions[t] \in TxRow /\ transactions[t] # Null
             /\ Values[t] = Value(t) /\ Values[t] \in Int
  <2>1. t \in TxIds /\ Committed(t)
    BY DEF MovedOn
  <2>2. transactions[t] # Null /\ transactions[t] \in TxRow
    BY <2>1 DEF OnceInv, AtMostOnce, TypeInv, TypeOK
  <2>3. transactions[t].amount \in Int
    BY <2>2 DEF TxRow
  <2>4. Values[t] = Value(t)
    BY <2>1, <2>2 DEF Values
  <2>5. Value(t) \in Int
    BY <2>3 DEF Value
  <2> QED BY <2>1, <2>2, <2>4, <2>5
<1> QED BY <1>5, <1>6

\* The value of a transaction that has moved money never changes.
LEMMA ValuesKept ==
  ASSUME TypeInv, OnceInv, NEW h \in Handlers, Acts(h), NEW a \in Accounts,
         NEW t \in MovedOn(a)
  PROVE  Values'[t] = Values[t]
<1>1. t \in TxIds /\ transactions[t] # Null /\ Values[t] = Value(t)
  BY MovedFacts
<1>2. transactions'[t] # Null /\ SameColumns(t)
  BY <1>1, ColumnsKept
<1>3. Values'[t] = IF transactions'[t].type \in {"deposit", "win"}
                   THEN transactions'[t].amount ELSE -transactions'[t].amount
  BY <1>1, <1>2 DEF Values, Value
<1> QED BY <1>1, <1>2, <1>3 DEF Value, SameColumns

LEMMA StepExplained ==
  ASSUME TypeInv, SnapshotCoherent, OnceInv, OwnerWrote, Explained,
         NEW h \in Handlers, Acts(h)
  PROVE  Explained'
<1>1. /\ accounts \in [Accounts -> AccountRow] /\ OpeningRows \subseteq AccountRow
      /\ \A row \in AccountRow : row.balance \in Int /\ row.bonus \in Int
  BY OpeningAssumption DEF TypeInv, TypeOK, AccountRow
\* An account whose row and commits stay.
<1>2. ASSUME NEW a \in Accounts, accounts'[a] = accounts[a],
             \A t \in TxIds : t[1] = a => (Committed(t)' <=> Committed(t))
      PROVE  \E row \in OpeningRows :
               /\ row.status = accounts'[a].status
               /\ accounts'[a].balance + accounts'[a].bonus
                    = row.balance + row.bonus + SumFunctionOnSet(Values', MovedOn(a)')
  <2>1. MovedOn(a)' = MovedOn(a)
    BY <1>2 DEF MovedOn
  <2>2. /\ IsFiniteSet(MovedOn(a)) /\ \A t \in MovedOn(a) : Values[t] \in Int
        /\ \A t \in MovedOn(a) : Values[t] = Values'[t]
    BY MovedFacts, ValuesKept
  <2>3. SumFunctionOnSet(Values, MovedOn(a)) = SumFunctionOnSet(Values', MovedOn(a))
    BY <2>2, SumAgrees
  <2> QED BY <1>2, <2>1, <2>3 DEF Explained
<1>3. CASE UNCHANGED <<accounts, commits>>
  <2>1. \A t \in TxIds : Committed(t)' <=> Committed(t)
    BY <1>3 DEF Committed
  <2> QED BY <1>2, <1>3, <2>1 DEF Explained
<1>4. CASE CommitStep(h)
  <2>0. PICK a \in Accounts : a = req[h].account
    BY <1>4, OwnerFacts DEF CommitStep, Owning
  <2> DEFINE r == req[h]
             p == Policy(req[h], snap[h])
             change == IF r.op \in {"deposit", "win"} THEN r.amount ELSE -r.amount
  <2>1. /\ r \in Requests /\ snap[h] \in AccountRow /\ p.allowed /\ r.amount > 0
        /\ r.amount \in Int /\ a \in Accounts /\ Tx(h) \in TxIds /\ Tx(h)[1] = a
        /\ transactions[Tx(h)] # Null
    <3>1. Tx(h) = <<a, req[h].key>>
      BY <1>4, <2>0, OwnerFacts DEF CommitStep, Owning
    <3> QED BY <1>4, <3>1, OwnerFacts, RequestFacts DEF CommitStep, Owning
  <2>2. snap[h] = accounts[a] /\ p.balance >= 0 /\ p.bonus >= 0
    BY <1>4, <2>0 DEF CommitStep, Updatable, SnapshotCoherent
  <2>3. /\ accounts' = [accounts EXCEPT ![a] =
             [balance |-> p.balance, bonus |-> p.bonus,
              status |-> accounts[a].status, version |-> accounts[a].version + 1]]
        /\ transactions' = transactions
    BY <1>4, <2>0 DEF CommitStep, WriteBalance
  <2>4. p.balance + p.bonus = accounts[a].balance + accounts[a].bonus + change
    BY <2>1, <2>2, PolicySum
  <2>5. Values[Tx(h)] = change
    <3>1. transactions[Tx(h)].type = r.op /\ transactions[Tx(h)].amount = r.amount
      BY <1>4 DEF CommitStep, OwnerWrote, Owning
    <3> QED BY <2>1, <3>1 DEF Values, Value
  <2>6. Tx(h) \notin MovedOn(a)
    BY <1>4 DEF CommitStep, OnceInv, OwnerKnows, MovedOn
  <2>7. \A t \in TxIds : Committed(t)' <=> Committed(t) \/ t = Tx(h)
    BY <1>4, CommitAdds
  <2>8. MovedOn(a)' = MovedOn(a) \union {Tx(h)}
    <3>1. MovedOn(a)' = {t \in TxIds : t[1] = a /\ Committed(t)'}
      BY DEF MovedOn
    <3> QED BY <2>1, <2>7, <3>1 DEF MovedOn
  <2>9. change \in Int
    BY <2>1
  <2>10. Values' = Values
    BY <2>3 DEF Values, Value
  <2> HIDE DEF change, p
  <2>11. SumFunctionOnSet(Values', MovedOn(a)') = SumFunctionOnSet(Values, MovedOn(a)) + change
    <3>1. IsFiniteSet(MovedOn(a)) /\ \A t \in MovedOn(a) : Values[t] \in Int
      BY <2>1, MovedFacts
    <3>2. Values[Tx(h)] \in Int
      BY <2>5, <2>9
    <3>3. SumFunctionOnSet(Values, MovedOn(a) \union {Tx(h)})
            = SumFunctionOnSet(Values, MovedOn(a)) + Values[Tx(h)]
      BY <2>6, <3>1, <3>2, SumAdd
    <3> QED BY <2>5, <2>8, <2>10, <3>3
  <2>12. SumFunctionOnSet(Values, MovedOn(a)) \in Int
    BY <2>1, MovedFacts, SumType
  <2>13. PICK row \in OpeningRows :
           /\ row.status = accounts[a].status
           /\ accounts[a].balance + accounts[a].bonus
                = row.balance + row.bonus + SumFunctionOnSet(Values, MovedOn(a))
    BY <2>1 DEF Explained
  <2>14. /\ accounts'[a].balance = p.balance /\ accounts'[a].bonus = p.bonus
         /\ accounts'[a].status = accounts[a].status
    BY <1>1, <2>1, <2>3
  <2>15. accounts'[a].balance + accounts'[a].bonus
           = row.balance + row.bonus + SumFunctionOnSet(Values', MovedOn(a)')
    <3>1. row.balance \in Int /\ row.bonus \in Int
      BY <1>1
    <3>2. row.balance + row.bonus \in Int
      BY <3>1
    <3> QED BY <2>4, <2>9, <2>11, <2>12, <2>13, <2>14, <3>2
  <2>16. ASSUME NEW b \in Accounts, b # a
         PROVE  /\ accounts'[b] = accounts[b]
                /\ \A t \in TxIds : t[1] = b => (Committed(t)' <=> Committed(t))
    <3>1. accounts'[b] = accounts[b]
      BY <1>1, <2>1, <2>3, <2>16
    <3> QED BY <2>1, <2>7, <2>16, <3>1
  <2>17. ASSUME NEW b \in Accounts
         PROVE  \E start \in OpeningRows :
                  /\ start.status = accounts'[b].status
                  /\ accounts'[b].balance + accounts'[b].bonus
                       = start.balance + start.bonus + SumFunctionOnSet(Values', MovedOn(b)')
    <3>1. CASE b = a
      BY <2>13, <2>14, <2>15, <3>1
    <3>2. CASE b # a
      BY <1>2, <2>16, <3>2
    <3> QED BY <3>1, <3>2
  <2> QED BY <2>17 DEF Explained
<1> QED BY <1>3, <1>4, CommitSteps

\* What an account holds is explained by the transactions that moved money on
\* it, each once: for any handlers and requests, through every failure, lost
\* reply and crash.
THEOREM TotalsExplained == Spec => []Explained
<1>1. Init => Explained
  <2> SUFFICES ASSUME Init, NEW a \in Accounts
               PROVE  \E row \in OpeningRows :
                        /\ row.status = accounts[a].status
                        /\ accounts[a].balance + accounts[a].bonus
                             = row.balance + row.bonus + SumFunctionOnSet(Values, MovedOn(a))
    BY DEF Explained
  <2>1. accounts[a] \in OpeningRows /\ accounts[a] \in AccountRow
    BY OpeningAssumption DEF Init
  <2>2. MovedOn(a) = {}
    BY DEF Init, MovedOn, Committed
  <2>3. SumFunctionOnSet(Values, MovedOn(a)) = 0
    BY <2>2, SumEmpty
  <2>4. accounts[a].balance + accounts[a].bonus \in Int
    BY <2>1 DEF AccountRow
  <2>5. accounts[a].balance + accounts[a].bonus
          = accounts[a].balance + accounts[a].bonus + SumFunctionOnSet(Values, MovedOn(a))
    BY <2>3, <2>4
  <2> QED BY <2>1, <2>5
<1>2. WalletInv /\ BookInv /\ Explained /\ [Next]_vars => Explained'
  <2> SUFFICES ASSUME WalletInv, BookInv, Explained, [Next]_vars PROVE Explained'
    OBVIOUS
  <2>1. TypeInv /\ SnapshotCoherent /\ OnceInv /\ OwnerWrote
    BY DEF WalletInv, BookInv
  <2>2. CASE UNCHANGED vars
    BY <2>2 DEF vars, Explained, Values, Value, MovedOn, Committed
  <2>3. ASSUME NEW h \in Handlers, Acts(h) PROVE Explained'
    BY <2>1, <2>3, StepExplained
  <2> QED BY <2>2, <2>3 DEF Next, Acts
<1> QED BY <1>1, <1>2, WalletInvariant, BooksInvariant, PTL DEF Spec

BookedOn(a) == {t \in TxIds : t[1] = a /\ InLedger(t)}

\* The ledger adds up the values of the transactions that have an entry.
LEMMA LedgerSum ==
  ASSUME TypeInv, JournalFollowsCommits, NEW a \in Accounts
  PROVE  GetAccountBalance(a) = SumFunctionOnSet(Values, BookedOn(a))
<1> DEFINE entries == {i \in 1..Len(ledger) : ledger[i].tx[1] = a}
           g == [i \in entries |-> ledger[i].tx]
           e == [i \in entries |-> Signed(ledger[i])]
<1>1. ledger \in Seq(LedgerEntry) /\ Len(ledger) \in Nat
  BY DEF TypeInv, TypeOK
<1>2. IsFiniteSet(entries)
  <2>1. IsFiniteSet(1..Len(ledger))
    BY <1>1, FS_Interval
  <2>2. entries \subseteq 1..Len(ledger)
    OBVIOUS
  <2> QED BY <2>1, <2>2, FS_Subset
<1>3. \A x, y \in entries : g[x] = g[y] => x = y
  BY DEF JournalFollowsCommits
<1>4. ASSUME NEW i \in entries
      PROVE  e[i] = Values[g[i]] /\ Values[g[i]] \in Int
  <2> DEFINE t == ledger[i].tx
  <2>1. ledger[i] \in LedgerEntry
    BY <1>1
  <2>2. /\ t \in TxIds /\ ledger[i].amount \in Int /\ ledger[i].entry \in {"credit", "debit"}
    BY <2>1 DEF LedgerEntry
  <2>3. /\ transactions[t] # Null /\ ledger[i].amount = transactions[t].amount
        /\ ledger[i].entry = "credit" <=> transactions[t].type \in {"deposit", "win"}
    BY DEF JournalFollowsCommits
  <2>4. Values[t] = Value(t)
    BY <2>2, <2>3 DEF Values
  <2>5. Value(t) = Signed(ledger[i])
    BY <2>2, <2>3 DEF Value, Signed
  <2>6. Signed(ledger[i]) \in Int
    BY <2>2 DEF Signed
  <2>7. g[i] = t /\ e[i] = Signed(ledger[i])
    OBVIOUS
  <2> HIDE DEF t, g, e
  <2> QED BY <2>4, <2>5, <2>6, <2>7
<1>5. {g[i] : i \in entries} = BookedOn(a)
  <2>1. \A i \in entries : ledger[i].tx \in TxIds
    <3>1. \A i \in entries : ledger[i] \in LedgerEntry
      BY <1>1
    <3> QED BY <3>1 DEF LedgerEntry
  <2>2. \A t : t \in {g[i] : i \in entries} => t \in BookedOn(a)
    BY <2>1 DEF BookedOn, InLedger
  <2>3. \A t : t \in BookedOn(a) => t \in {g[i] : i \in entries}
    BY DEF BookedOn, InLedger
  <2> HIDE DEF g, entries
  <2> QED BY <2>2, <2>3
<1>6. GetAccountBalance(a) = SumFunctionOnSet(e, entries)
  BY DEF GetAccountBalance
<1> HIDE DEF entries, g, e
<1>7. SumFunctionOnSet(Values, {g[i] : i \in entries}) = SumFunctionOnSet(e, entries)
  BY <1>2, <1>3, <1>4, SumImage
<1> QED BY <1>5, <1>6, <1>7

\* The transactions of one type that moved money.
MovedBy(a, type) == {t \in MovedOn(a) : transactions[t].type = type}

LEMMA MovedByFacts ==
  ASSUME TypeInv, OnceInv, NEW a \in Accounts, NEW type
  PROVE  /\ IsFiniteSet(MovedBy(a, type))
         /\ \A t \in MovedBy(a, type) :
              /\ Values[t] \in Int /\ transactions[t].amount \in Int
              /\ Values[t] = Value(t) /\ transactions[t].type = type
<1>1. MovedBy(a, type) \subseteq MovedOn(a)
  BY DEF MovedBy
<1>2. \A t \in MovedBy(a, type) :
        Values[t] \in Int /\ transactions[t] \in TxRow /\ Values[t] = Value(t)
  BY <1>1, MovedFacts
<1> QED BY <1>1, <1>2, MovedFacts, FS_Subset DEF MovedBy, TxRow

\* Once the completed rows of an account are those that moved money, a daily
\* total adds up the values of one type, or their opposites.
LEMMA DailyTotal ==
  ASSUME TypeInv, OnceInv, NEW a \in Accounts, NEW type \in Ops,
         \A t \in MovedOn(a) : transactions[t].status = "completed"
  PROVE  /\ TotalOf(a, type) \in Int
         /\ SumFunctionOnSet(Values, MovedBy(a, type))
              = IF type \in {"deposit", "win"} THEN TotalOf(a, type) ELSE -TotalOf(a, type)
<1> DEFINE counted == MovedBy(a, type)
           amounts == [t \in counted |-> transactions[t].amount]
<1>1. TotalOf(a, type) = SumFunctionOnSet(amounts, counted)
  <2> DEFINE rows == {t \in TxIds : t[1] = a /\ transactions[t] # Null
                                    /\ transactions[t].status = "completed"
                                    /\ transactions[t].type = type}
  <2>1. \A t \in MovedOn(a) : t \in TxIds /\ t[1] = a /\ transactions[t] # Null
    BY MovedFacts DEF MovedOn
  <2>2. \A t \in rows : Committed(t)
    BY DEF OnceInv, AtMostOnce, HasStatus
  <2>3. rows = counted
    BY <2>1, <2>2 DEF MovedBy, MovedOn
  <2>4. TotalOf(a, type) = SumFunctionOnSet([t \in rows |-> transactions[t].amount], rows)
    BY DEF TotalOf
  <2> HIDE DEF rows
  <2> QED BY <2>3, <2>4
<1>2. /\ IsFiniteSet(counted)
      /\ \A t \in counted : /\ Values[t] \in Int /\ amounts[t] = transactions[t].amount
                            /\ amounts[t] \in Int /\ Values[t] = Value(t)
                            /\ transactions[t].type = type
  BY MovedByFacts
<1> HIDE DEF counted, amounts
<1>3. /\ SumFunctionOnSet(amounts, counted) \in Int
      /\ SumFunctionOnSet(Values, counted) \in Int
  BY <1>2, SumType
<1>4. CASE type \in {"deposit", "win"}
  <2>1. \A t \in counted : Values[t] = amounts[t]
    BY <1>2, <1>4 DEF Value
  <2>2. SumFunctionOnSet(Values, counted) = SumFunctionOnSet(amounts, counted)
    BY <1>2, <2>1, SumAgrees
  <2> QED BY <1>1, <1>3, <1>4, <2>2 DEF counted
<1>5. CASE type \notin {"deposit", "win"}
  <2>1. ASSUME NEW t \in counted PROVE Values[t] + amounts[t] = 0
    <3>1. Values[t] = -amounts[t]
      BY <1>2, <1>5 DEF Value
    <3> QED BY <1>2, <3>1
  <2>2. SumFunctionOnSet(Values, counted) + SumFunctionOnSet(amounts, counted) = 0
    BY <1>2, <2>1, SumOpposite
  <2>3. SumFunctionOnSet(Values, counted) = -SumFunctionOnSet(amounts, counted)
    BY <1>3, <2>2
  <2> QED BY <1>1, <1>3, <1>5, <2>3 DEF counted
<1> QED BY <1>4, <1>5

\* The four types split what moved money.
LEMMA StatsSum ==
  ASSUME TypeInv, OnceInv, NEW a \in Accounts,
         \A t \in MovedOn(a) : transactions[t].status = "completed"
  PROVE  SumFunctionOnSet(Values, MovedOn(a))
           = TotalOf(a, "deposit") + TotalOf(a, "win") - TotalOf(a, "bet")
               - TotalOf(a, "withdraw")
<1> DEFINE D == MovedBy(a, "deposit")
           W == MovedBy(a, "win")
           B == MovedBy(a, "bet")
           O == MovedBy(a, "withdraw")
           sum(S) == SumFunctionOnSet(Values, S)
<1>1. /\ IsFiniteSet(D) /\ IsFiniteSet(W) /\ IsFiniteSet(B) /\ IsFiniteSet(O)
      /\ \A t \in D \union W \union B \union O : Values[t] \in Int
  BY MovedByFacts
<1>2. /\ D \cap W = {} /\ (D \union W) \cap B = {} /\ (D \union W \union B) \cap O = {}
  BY DEF MovedBy
<1>3. MovedOn(a) = D \union W \union B \union O
  <2>1. \A t \in MovedOn(a) : transactions[t].type \in Ops
    BY MovedFacts DEF TxRow
  <2> QED BY <2>1 DEF MovedBy, Ops
<1>4. /\ TotalOf(a, "deposit") \in Int /\ sum(D) = TotalOf(a, "deposit")
      /\ TotalOf(a, "win") \in Int /\ sum(W) = TotalOf(a, "win")
      /\ TotalOf(a, "bet") \in Int /\ sum(B) = -TotalOf(a, "bet")
      /\ TotalOf(a, "withdraw") \in Int /\ sum(O) = -TotalOf(a, "withdraw")
  BY DailyTotal DEF Ops
<1> HIDE DEF D, W, B, O
<1>5. sum(D \union W) = sum(D) + sum(W)
  BY <1>1, <1>2, SumUnion
<1>6. sum(D \union W \union B) = sum(D \union W) + sum(B)
  <2>1. IsFiniteSet(D \union W)
    BY <1>1, FS_Union
  <2> QED BY <1>1, <1>2, <2>1, SumUnion
<1>7. sum(D \union W \union B \union O) = sum(D \union W \union B) + sum(O)
  <2>1. IsFiniteSet(D \union W \union B)
    BY <1>1, FS_Union
  <2> QED BY <1>1, <1>2, <2>1, SumUnion
<1>8. sum(MovedOn(a)) = sum(D \union W \union B \union O)
  BY <1>3
<1> HIDE DEF sum
<1>9. sum(MovedOn(a)) = TotalOf(a, "deposit") + TotalOf(a, "win") - TotalOf(a, "bet")
                          - TotalOf(a, "withdraw")
  BY <1>4, <1>5, <1>6, <1>7, <1>8
<1> QED BY <1>9 DEF sum

\* Without failures, the ledger and the daily statistics each account for the
\* change of an account that no handler works on, to the cent.
THEOREM BooksDoExplain == Spec => []BooksExplainTotal
<1>1. WalletInv /\ BookInv /\ QuietBooksAgree /\ Explained => BooksExplainTotal
  <2> SUFFICES ASSUME WalletInv, BookInv, QuietBooksAgree, Explained, Faults = {},
                      NEW a \in Accounts, Quiet(a)
               PROVE  \E row \in OpeningRows :
                        LET stats == GetDailyStats(a)
                            moved == accounts[a].balance + accounts[a].bonus
                                       - row.balance - row.bonus
                        IN  /\ row.status = accounts[a].status
                            /\ moved = GetAccountBalance(a)
                            /\ moved = stats.deposits + stats.wins - stats.bets
                                         - stats.withdrawals
    BY DEF BooksExplainTotal
  <2>1. TypeInv /\ OnceInv /\ JournalFollowsCommits
    BY DEF WalletInv, BookInv
  <2>2. \A t \in MovedOn(a) : t \in TxIds /\ t[1] = a /\ Committed(t) /\ transactions[t] # Null
    BY <2>1, MovedFacts DEF MovedOn
  <2>3. \A t \in MovedOn(a) : transactions[t].status = "completed" /\ InLedger(t)
    BY <2>2 DEF QuietBooksAgree, InLedger
  <2>4. BookedOn(a) = MovedOn(a)
    <3>1. \A t \in BookedOn(a) : Committed(t)
      BY <2>1 DEF BookedOn, InLedger, JournalFollowsCommits
    <3> QED BY <2>2, <2>3, <3>1 DEF BookedOn, MovedOn
  <2>5. GetAccountBalance(a) = SumFunctionOnSet(Values, MovedOn(a))
    BY <2>1, <2>4, LedgerSum
  <2>6. SumFunctionOnSet(Values, MovedOn(a))
          = TotalOf(a, "deposit") + TotalOf(a, "win") - TotalOf(a, "bet")
              - TotalOf(a, "withdraw")
    BY <2>1, <2>3, StatsSum
  <2>7. SumFunctionOnSet(Values, MovedOn(a)) \in Int
    BY <2>1, MovedFacts, SumType
  <2>8. PICK row \in OpeningRows :
          /\ row.status = accounts[a].status
          /\ accounts[a].balance + accounts[a].bonus
               = row.balance + row.bonus + SumFunctionOnSet(Values, MovedOn(a))
    BY DEF Explained
  <2>9. /\ row.balance \in Int /\ row.bonus \in Int
        /\ accounts[a].balance \in Int /\ accounts[a].bonus \in Int
    <3>1. row \in AccountRow /\ accounts[a] \in AccountRow
      BY <2>1, OpeningAssumption DEF TypeInv, TypeOK
    <3> QED BY <3>1 DEF AccountRow
  <2>10. accounts[a].balance + accounts[a].bonus - row.balance - row.bonus
           = SumFunctionOnSet(Values, MovedOn(a))
    BY <2>7, <2>8, <2>9
  <2> QED BY <2>5, <2>6, <2>8, <2>10 DEF GetDailyStats
<1> QED BY <1>1, WalletInvariant, BooksInvariant, QuietBooksDoAgree, TotalsExplained, PTL

\* VerifyBalance compares the ledger, in which a bet paid from bonus is booked
\* like any other, with the real balance alone: without failures an account no
\* handler works on passes it exactly when its bonus is all that it was opened
\* with.  Opened with a bonus and nothing else, it fails for good once it has
\* spent any of it.
THEOREM VerifyBalanceIgnoresBonus ==
  ASSUME NEW row \in OpeningRows,
         \A other \in OpeningRows :
           other.balance = row.balance /\ other.bonus = row.bonus
  PROVE  Spec => [](Faults = {} =>
                      \A a \in Accounts :
                        Quiet(a) => (VerifyBalance(a)
                                       <=> accounts[a].bonus = row.balance + row.bonus))
<1> DEFINE Passes ==
             Faults = {} =>
               \A a \in Accounts :
                 Quiet(a) => (VerifyBalance(a)
                                <=> accounts[a].bonus = row.balance + row.bonus)
<1>1. WalletInv /\ BooksExplainTotal => Passes
  <2> SUFFICES ASSUME WalletInv, BooksExplainTotal, Faults = {},
                      NEW a \in Accounts, Quiet(a)
               PROVE  VerifyBalance(a) <=> accounts[a].bonus = row.balance + row.bonus
    OBVIOUS
  <2>1. accounts[a].balance + accounts[a].bonus - row.balance - row.bonus
          = GetAccountBalance(a)
    BY DEF BooksExplainTotal
  <2>2. row \in AccountRow /\ accounts[a] \in AccountRow
    BY OpeningAssumption DEF WalletInv, TypeInv, TypeOK
  <2>3. /\ row.balance \in Int /\ row.bonus \in Int
        /\ accounts[a].balance \in Int /\ accounts[a].bonus \in Int
    BY <2>2 DEF AccountRow
  <2> QED BY <2>1, <2>3 DEF VerifyBalance
<1> QED BY <1>1, WalletInvariant, BooksDoExplain, PTL
=============================================================================
