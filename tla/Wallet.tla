------------------------------- MODULE Wallet -------------------------------
(***************************************************************************)
(* The wallet service: the handlers Deposit, Bet, Win and Withdraw of      *)
(* services/wallet/internal/service/wallet_service.go running concurrently *)
(* over the accounts, transactions and ledger_entries tables.              *)
(*                                                                         *)
(* Every SQL statement commits on its own (no database transaction spans   *)
(* two of them), so each statement is one action and handlers interleave   *)
(* between any two.  The four handlers run the same statements in the same *)
(* order; what distinguishes one from another is its policy, the record    *)
(* that Deposit, Bet, Win and Withdraw below compute from the account row  *)
(* the handler has read.                                                   *)
(***************************************************************************)
EXTENDS Integers, Sequences

CONSTANTS
  Accounts,
  Handlers,         \* the goroutines serving requests
  Requests,         \* what clients may send; any of them any number of times
  OpeningRows,      \* rows the accounts table may hold at the start
  MaxInt,           \* largest int64
  RiskEnabled,      \* whether the service was built with a risk client
  Scores,           \* the scores the risk service may answer
  BlockThreshold,
  ReviewThreshold,
  Faults,           \* the failures that may happen, see FaultKinds
  Null              \* no row, no request, no score

Ops == {"deposit", "bet", "win", "withdraw"}

AccountStatus == {"active", "suspended"}

\* "error":     a statement fails and changes nothing
\* "lostReply": a statement takes effect but the handler is told it failed
\* "riskDown":  the risk service cannot be reached
\* "crash":     the process serving a request dies
FaultKinds == {"error", "lostReply", "riskDown", "crash"}

MinInt == -MaxInt - 1

Money == MinInt..MaxInt

AccountRow ==
  [balance : 0..MaxInt, bonus : 0..MaxInt, status : AccountStatus,
   version : Nat \ {0}]

TxRow ==
  [type : Ops, amount : 1..MaxInt, before : Money, after : Money,
   score : Scores \union {Null},
   status : {"pending", "completed", "failed"}]

Keys == {r.key : r \in Requests}

TxIds == Accounts \X Keys

ASSUME MaxIntAssumption == MaxInt \in Nat

ASSUME RequestsAssumption ==
  \A r \in Requests :
    /\ r = [op |-> r.op, account |-> r.account, key |-> r.key,
            amount |-> r.amount]
    /\ r.op \in Ops
    /\ r.account \in Accounts
    /\ r.amount \in Money

ASSUME OpeningAssumption ==
  \A row \in OpeningRows : row \in AccountRow /\ row.version = 1

ASSUME RiskAssumption ==
  /\ RiskEnabled \in BOOLEAN
  /\ Scores \subseteq Int
  /\ BlockThreshold \in Int
  /\ ReviewThreshold \in Int

ASSUME FaultsAssumption == Faults \subseteq FaultKinds

ASSUME NullAssumption ==
  /\ Null \notin Requests
  /\ Null \notin AccountRow
  /\ Null \notin TxRow
  /\ Null \notin Int

-----------------------------------------------------------------------------
(* State.  Tables first, then what each handler holds.                     *)

VARIABLES
  accounts,      \* table accounts
  transactions,  \* table transactions, by its UNIQUE (account_id, idempotency_key)
  ledger,        \* table ledger_entries, in insertion order
  events,        \* transaction ids of the events published, in order
  commits,       \* history: per account, the keys whose UpdateBalance took effect
  pc,            \* the statement a handler executes next
  req,           \* the request it serves
  snap,          \* the account row it read
  risk,          \* the risk score it was given
  reply          \* what its last request was answered

tables == <<accounts, transactions, ledger, events, commits>>
vars == <<accounts, transactions, ledger, events, commits,
          pc, req, snap, risk, reply>>

TxId(r) == <<r.account, r.key>>

Tx(h) == TxId(req[h])

Committed(t) == \E i \in 1..Len(commits[t[1]]) : commits[t[1]][i] = t[2]

HasStatus(t, statuses) ==
  transactions[t] # Null /\ transactions[t].status \in statuses

-----------------------------------------------------------------------------
(* The four handlers.  allowed: the checks on the row read; screened:      *)
(* whether the risk service is asked, failOpen: whether its silence lets   *)
(* the request pass, threshold: the score that stops it; balance, bonus:   *)
(* the values UpdateBalance is given; before, after: what the transaction  *)
(* row records.                                                            *)

\* int64 arithmetic: the result of adding or subtracting two int64 values.
Wrap(x) ==
  IF x > MaxInt THEN x - 2 * (MaxInt + 1)
  ELSE IF x < MinInt THEN x + 2 * (MaxInt + 1)
  ELSE x

Total(row) == Wrap(row.balance + row.bonus)

Deposit(row, amount) ==
  LET newBalance == Wrap(row.balance + amount) IN
  [allowed   |-> row.status = "active",
   screened  |-> RiskEnabled,
   failOpen  |-> TRUE,
   threshold |-> BlockThreshold,
   balance   |-> newBalance,
   bonus     |-> row.bonus,
   before    |-> row.balance,
   after     |-> newBalance]

Bet(row, amount) ==
  LET bonusOnly  == row.bonus >= amount
      newBonus   == IF bonusOnly THEN Wrap(row.bonus - amount) ELSE 0
      newBalance == IF bonusOnly THEN row.balance
                    ELSE row.balance - (amount - row.bonus) IN
  [allowed   |-> row.status = "active" /\ Total(row) >= amount,
   screened  |-> RiskEnabled,
   failOpen  |-> TRUE,
   threshold |-> BlockThreshold,
   balance   |-> newBalance,
   bonus     |-> newBonus,
   before    |-> Total(row),
   after     |-> Wrap(newBalance + newBonus)]

Win(row, amount) ==
  LET newBalance == Wrap(row.balance + amount) IN
  [allowed   |-> TRUE,
   screened  |-> FALSE,
   failOpen  |-> TRUE,
   threshold |-> BlockThreshold,
   balance   |-> newBalance,
   bonus     |-> row.bonus,
   before    |-> Total(row),
   after     |-> Wrap(newBalance + row.bonus)]

\* Mutants of Withdraw: bonus counted as withdrawable; the risk service's
\* silence lets a withdrawal pass, as it does for a bet; balance_after without
\* the bonus.
Withdraw_ChecksTotal(row, amount) ==
  [allowed |-> row.status = "active" /\ Total(row) >= amount,
   screened |-> RiskEnabled, failOpen |-> FALSE,
   threshold |-> ReviewThreshold,
   balance |-> Wrap(row.balance - amount), bonus |-> row.bonus,
   before |-> Total(row), after |-> Wrap(Wrap(row.balance - amount) + row.bonus)]

Withdraw_FailsOpen(row, amount) ==
  [allowed |-> row.status = "active" /\ row.balance >= amount,
   screened |-> RiskEnabled, failOpen |-> TRUE, threshold |-> ReviewThreshold,
   balance |-> Wrap(row.balance - amount), bonus |-> row.bonus,
   before |-> Total(row), after |-> Wrap(Wrap(row.balance - amount) + row.bonus)]

Withdraw_AfterRealOnly(row, amount) ==
  [allowed |-> row.status = "active" /\ row.balance >= amount,
   screened |-> RiskEnabled, failOpen |-> FALSE,
   threshold |-> ReviewThreshold,
   balance |-> Wrap(row.balance - amount), bonus |-> row.bonus,
   before |-> Total(row), after |-> Wrap(row.balance - amount)]

Withdraw(row, amount) ==
  LET newBalance == Wrap(row.balance - amount) IN
  [allowed   |-> row.status = "active" /\ row.balance >= amount,
   screened  |-> RiskEnabled,
   failOpen  |-> FALSE,
   threshold |-> ReviewThreshold,
   balance   |-> newBalance,
   bonus     |-> row.bonus,
   before    |-> Total(row),
   after     |-> Wrap(newBalance + row.bonus)]

Policy(r, row) ==
  IF r.op = "deposit"  THEN Deposit(row, r.amount)
  ELSE IF r.op = "bet" THEN Bet(row, r.amount)
  ELSE IF r.op = "win" THEN Win(row, r.amount)
  ELSE Withdraw(row, r.amount)

\* Mutant of EntryType: a win booked as a debit.
EntryType_WinDebits(r) == IF r.op = "deposit" THEN "credit" ELSE "debit"

EntryType(r) == IF r.op \in {"deposit", "win"} THEN "credit" ELSE "debit"

-----------------------------------------------------------------------------
(* Steps.                                                                  *)

Init ==
  /\ accounts \in [Accounts -> OpeningRows]
  /\ transactions = [t \in TxIds |-> Null]
  /\ ledger = <<>>
  /\ events = <<>>
  /\ commits = [a \in Accounts |-> <<>>]
  /\ pc = [h \in Handlers |-> "idle"]
  /\ req = [h \in Handlers |-> Null]
  /\ snap = [h \in Handlers |-> Null]
  /\ risk = [h \in Handlers |-> Null]
  /\ reply = [h \in Handlers |-> "none"]

Goto(h, label) == pc' = [pc EXCEPT ![h] = label]

\* The handler returns; what it had read is gone.
Return(h, answer) ==
  /\ Goto(h, "idle")
  /\ snap' = [snap EXCEPT ![h] = Null]
  /\ risk' = [risk EXCEPT ![h] = Null]
  /\ reply' = [reply EXCEPT ![h] = answer]
  /\ UNCHANGED req

Keep == UNCHANGED <<req, snap, risk, reply>>

\* A request whose key has a row is answered with that row, whatever its
\* status.
Replay(h, r) ==
  /\ pc[h] = "idle"
  /\ transactions[TxId(r)] # Null
  /\ req' = [req EXCEPT ![h] = r]
  /\ reply' = [reply EXCEPT ![h] = transactions[TxId(r)].status]
  /\ UNCHANGED <<tables, pc, snap, risk>>

\* The error of the lookup is dropped: a failed lookup reads as "no such row".
Begin(h, r) ==
  /\ pc[h] = "idle"
  /\ transactions[TxId(r)] = Null \/ "error" \in Faults
  /\ req' = [req EXCEPT ![h] = r]
  /\ reply' = [reply EXCEPT ![h] = "none"]
  /\ Goto(h, "read")
  /\ UNCHANGED <<tables, snap, risk>>

\* GetByID, then the checks on the row.
ReadAccount(h) ==
  LET row == accounts[req[h].account] IN
  /\ pc[h] = "read"
  /\ Policy(req[h], row).allowed
  /\ snap' = [snap EXCEPT ![h] = row]
  /\ Goto(h, IF Policy(req[h], row).screened THEN "screen" ELSE "create")
  /\ UNCHANGED <<tables, req, risk, reply>>

Refuse(h) ==
  /\ pc[h] = "read"
  /\ \/ ~Policy(req[h], accounts[req[h].account]).allowed
     \/ "error" \in Faults
  /\ Return(h, "error")
  /\ UNCHANGED tables

\* ScoreTransaction answers: the score decides.
Screen(h, score) ==
  /\ pc[h] = "screen"
  /\ IF score < Policy(req[h], snap[h]).threshold
     THEN /\ risk' = [risk EXCEPT ![h] = score]
          /\ Goto(h, "create")
          /\ UNCHANGED <<req, snap, reply>>
     ELSE Return(h, "error")
  /\ UNCHANGED tables

\* ScoreTransaction fails: only a withdrawal stops here.
ScreenUnavailable(h) ==
  /\ pc[h] = "screen"
  /\ "riskDown" \in Faults
  /\ IF Policy(req[h], snap[h]).failOpen
     THEN Goto(h, "create") /\ Keep
     ELSE Return(h, "error")
  /\ UNCHANGED tables

Insert(h) ==
  /\ transactions' = [transactions EXCEPT ![Tx(h)] =
       [type |-> req[h].op, amount |-> req[h].amount,
        before |-> Policy(req[h], snap[h]).before,
        after |-> Policy(req[h], snap[h]).after,
        score |-> risk[h], status |-> "pending"]]
  /\ UNCHANGED <<accounts, ledger, events, commits>>

\* Mutants of Insertable: no CHECK on the amount; no UNIQUE key; a retry may
\* take over a failed row.
Insertable_AnyAmount(h) == transactions[Tx(h)] = Null

Insertable_NoUniqueKey(h) == req[h].amount > 0

Insertable_ReusesFailed(h) ==
  (transactions[Tx(h)] = Null \/ HasStatus(Tx(h), {"failed"})) /\ req[h].amount > 0

\* The table refuses a second row for a key and an amount that is not positive.
Insertable(h) == transactions[Tx(h)] = Null /\ req[h].amount > 0

CreateTx(h) ==
  /\ pc[h] = "create"
  /\ Insertable(h)
  /\ Insert(h)
  /\ Goto(h, "update")
  /\ Keep

CreateTxFails(h) ==
  /\ pc[h] = "create"
  /\ \/ (~Insertable(h) \/ "error" \in Faults) /\ UNCHANGED tables
     \/ Insertable(h) /\ "lostReply" \in Faults /\ Insert(h)
  /\ Return(h, "error")

\* Mutants of Updatable: no version test; the test against the next version; no
\* CHECK on the amounts.
Updatable_NoVersionTest(h) ==
  Policy(req[h], snap[h]).balance >= 0 /\ Policy(req[h], snap[h]).bonus >= 0

Updatable_NextVersion(h) ==
  /\ accounts[req[h].account].version = snap[h].version + 1
  /\ Policy(req[h], snap[h]).balance >= 0
  /\ Policy(req[h], snap[h]).bonus >= 0

Updatable_NoChecks(h) == accounts[req[h].account].version = snap[h].version

\* UPDATE ... WHERE version = expected, with the CHECKs of the row.
Updatable(h) ==
  /\ accounts[req[h].account].version = snap[h].version
  /\ Policy(req[h], snap[h]).balance >= 0
  /\ Policy(req[h], snap[h]).bonus >= 0

\* Mutant of WriteBalance: the version column is not advanced.
WriteBalance_KeepsVersion(h) ==
  LET a == req[h].account IN
  /\ accounts' = [accounts EXCEPT ![a] =
       [balance |-> Policy(req[h], snap[h]).balance,
        bonus   |-> Policy(req[h], snap[h]).bonus,
        status  |-> @.status,
        version |-> @.version]]
  /\ commits' = [commits EXCEPT ![a] = Append(@, req[h].key)]
  /\ UNCHANGED <<transactions, ledger, events>>

WriteBalance(h) ==
  LET a == req[h].account IN
  /\ accounts' = [accounts EXCEPT ![a] =
       [balance |-> Policy(req[h], snap[h]).balance,
        bonus   |-> Policy(req[h], snap[h]).bonus,
        status  |-> @.status,
        version |-> @.version + 1]]
  /\ commits' = [commits EXCEPT ![a] = Append(@, req[h].key)]
  /\ UNCHANGED <<transactions, ledger, events>>

\* Mutant of UpdateBalance: the test of the affected rows inverted.
UpdateBalance_Inverted(h) ==
  pc[h] = "update" /\ Updatable(h) /\ WriteBalance(h) /\ Goto(h, "fail") /\ Keep

UpdateBalance(h) ==
  /\ pc[h] = "update"
  /\ Updatable(h)
  /\ WriteBalance(h)
  /\ Goto(h, "ledger")
  /\ Keep

\* Mutants of UpdateBalanceFails: the error dropped like the later ones; the
\* handler returns without marking the row.
UpdateBalanceFails_Dropped(h) ==
  /\ pc[h] = "update"
  /\ ~Updatable(h) \/ "error" \in Faults
  /\ Goto(h, "ledger")
  /\ Keep
  /\ UNCHANGED tables

UpdateBalanceFails_Unmarked(h) ==
  pc[h] = "update" /\ ~Updatable(h) /\ Return(h, "error") /\ UNCHANGED tables

UpdateBalanceFails(h) ==
  /\ pc[h] = "update"
  /\ \/ (~Updatable(h) \/ "error" \in Faults) /\ UNCHANGED tables
     \/ Updatable(h) /\ "lostReply" \in Faults /\ WriteBalance(h)
  /\ Goto(h, "fail")
  /\ Keep

SetStatus(h, status) ==
  /\ transactions' = [transactions EXCEPT ![Tx(h)] =
       [type |-> @.type, amount |-> @.amount, before |-> @.before,
        after |-> @.after, score |-> @.score, status |-> status]]
  /\ UNCHANGED <<accounts, ledger, events, commits>>

\* The error of this update, of the ledger insert, of the completion and of
\* the publication is logged or dropped, and the handler goes on.
MarkFailed(h) ==
  /\ pc[h] = "fail"
  /\ SetStatus(h, "failed") \/ ("error" \in Faults /\ UNCHANGED tables)
  /\ Return(h, "error")

CreateLedgerEntry(h) ==
  /\ pc[h] = "ledger"
  /\ \/ /\ ledger' = Append(ledger,
             [tx |-> Tx(h), entry |-> EntryType(req[h]),
              amount |-> req[h].amount,
              after |-> Policy(req[h], snap[h]).after])
        /\ UNCHANGED <<accounts, transactions, events, commits>>
     \/ "error" \in Faults /\ UNCHANGED tables
  /\ Goto(h, "complete")
  /\ Keep

Complete(h) ==
  /\ pc[h] = "complete"
  /\ SetStatus(h, "completed") \/ ("error" \in Faults /\ UNCHANGED tables)
  /\ Goto(h, "publish")
  /\ Keep

Publish(h) ==
  /\ pc[h] = "publish"
  /\ \/ /\ events' = Append(events, Tx(h))
        /\ UNCHANGED <<accounts, transactions, ledger, commits>>
     \/ "error" \in Faults /\ UNCHANGED tables
  /\ Return(h, "ok")

Crash(h) ==
  /\ "crash" \in Faults
  /\ pc[h] # "idle"
  /\ Return(h, "none")
  /\ UNCHANGED tables

\* What a handler that serves a request does when it is scheduled.
Step(h) ==
  \/ ReadAccount(h)
  \/ Refuse(h)
  \/ \E score \in Scores : Screen(h, score)
  \/ ScreenUnavailable(h)
  \/ CreateTx(h)
  \/ CreateTxFails(h)
  \/ UpdateBalance(h)
  \/ UpdateBalanceFails(h)
  \/ MarkFailed(h)
  \/ CreateLedgerEntry(h)
  \/ Complete(h)
  \/ Publish(h)

Next ==
  \E h \in Handlers :
    \/ \E r \in Requests : Replay(h, r) \/ Begin(h, r)
    \/ Step(h)
    \/ Crash(h)

Spec == Init /\ [][Next]_vars

\* A goroutine that serves a request is scheduled, and its calls return.
FairSpec == Spec /\ \A h \in Handlers : WF_vars(Step(h))

-----------------------------------------------------------------------------
(* Properties.                                                             *)

LedgerEntry ==
  [tx : TxIds, entry : {"credit", "debit"}, amount : 1..MaxInt, after : Money]

Labels == {"idle", "read", "screen", "create", "update", "fail", "ledger",
           "complete", "publish"}

Replies == {"none", "ok", "error", "pending", "completed", "failed"}

\* Every variable has the shape the tables and the Go types give it; in
\* particular no stored balance is negative or beyond int64.
TypeOK ==
  /\ accounts \in [Accounts -> AccountRow]
  /\ transactions \in [TxIds -> TxRow \union {Null}]
  /\ ledger \in Seq(LedgerEntry)
  /\ events \in Seq(TxIds)
  /\ commits \in [Accounts -> Seq(Keys)]
  /\ pc \in [Handlers -> Labels]
  /\ req \in [Handlers -> Requests \union {Null}]
  /\ snap \in [Handlers -> AccountRow \union {Null}]
  /\ risk \in [Handlers -> Scores \union {Null}]
  /\ reply \in [Handlers -> Replies]

\* Optimistic locking (postgres.go UpdateBalance): a handler whose snapshot
\* has the current version holds the current row, whatever the other handlers
\* did since it read it; so a write that passes the version test is computed
\* from current data.
SnapshotCoherent ==
  \A h \in Handlers :
    pc[h] \in {"screen", "create", "update"} =>
      LET row == accounts[req[h].account] IN
      /\ snap[h].version <= row.version
      /\ snap[h].version = row.version => snap[h] = row

\* The CHECKs of the accounts table are a safety net that debits never fall
\* into: a bet or a withdrawal whose version test passes never asks for a
\* negative balance or bonus, although the sufficiency test was made on a row
\* read several statements before.  Only a credit beyond int64 is caught there.
DebitsNeverOverdraw ==
  \A h \in Handlers :
    /\ pc[h] = "update"
    /\ accounts[req[h].account].version = snap[h].version
    => \/ Updatable(h)
       \/ /\ EntryType(req[h]) = "credit"
          /\ accounts[req[h].account].balance + req[h].amount > MaxInt

\* Idempotency across retries, races and crashes: a key moves money at most
\* once, and a completed row, like an "ok" answer to the client, stands for
\* money that has moved.
AtMostOnce ==
  /\ \A a \in Accounts : \A i, j \in 1..Len(commits[a]) :
       commits[a][i] = commits[a][j] => i = j
  /\ \A t \in TxIds : Committed(t) => transactions[t] # Null
  /\ \A t \in TxIds :
       HasStatus(t, {"completed"}) => Committed(t)
  /\ \A h \in Handlers :
       reply[h] \in {"ok", "completed"} => Committed(Tx(h))

\* A row marked failed has moved no money, provided the database never
\* applies an update and reports it failed.
FailedMovedNothing ==
  "lostReply" \notin Faults =>
    \A t \in TxIds :
      HasStatus(t, {"failed"}) => ~Committed(t)

\* The journal never invents or repeats: each ledger entry and each published
\* event belongs to money that has moved, no transaction has two of either,
\* and an entry carries the amount, direction and balance of its row.
JournalFollowsCommits ==
  /\ \A i \in 1..Len(ledger) :
       LET tx == transactions[ledger[i].tx] IN
       /\ Committed(ledger[i].tx)
       /\ tx # Null
       /\ ledger[i].amount = tx.amount
       /\ ledger[i].after = tx.after
       /\ ledger[i].entry = "credit" <=> tx.type \in {"deposit", "win"}
  /\ \A i, j \in 1..Len(ledger) : ledger[i].tx = ledger[j].tx => i = j
  /\ \A i \in 1..Len(events) : Committed(events[i])
  /\ \A i, j \in 1..Len(events) : events[i] = events[j] => i = j

\* The row of the transaction that moved money last on an account records the
\* balance the account has now (the real balance alone for a deposit), so the
\* balance_after column, although computed from a snapshot, is never stale for
\* a transaction that took effect.
LastCommitRecorded ==
  \A a \in Accounts :
    commits[a] # <<>> =>
      LET tx == transactions[<<a, commits[a][Len(commits[a])]>>] IN
      tx.after = IF tx.type = "deposit" THEN accounts[a].balance
                 ELSE Total(accounts[a])

\* No withdrawal moves money without a score below the review threshold, even
\* when the risk service is down; deposits and bets never move money on a score
\* at or above the block threshold.
RiskRespected ==
  \A a \in Accounts : \A i \in 1..Len(commits[a]) :
    LET tx == transactions[<<a, commits[a][i]>>] IN
    /\ tx.type = "withdraw" /\ RiskEnabled =>
         tx.score # Null /\ tx.score < ReviewThreshold
    /\ tx.type \in {"deposit", "bet"} =>
         tx.score = Null \/ tx.score < BlockThreshold

\* Rows of the transactions table are never deleted or rewritten: only the
\* status of a pending row changes, and it changes once.
TxRowsOnlySettle ==
  [][\A t \in TxIds :
       transactions[t] # Null /\ transactions'[t] # transactions[t] =>
         /\ transactions[t].status = "pending"
         /\ \E status \in {"completed", "failed"} :
              transactions'[t] = [transactions[t] EXCEPT !.status = status]
    ]_vars

\* The service implements the atomic wallet: every change of an account is one
\* request applied to the funds of that moment, at most once per key.
Funds == [a \in Accounts |-> [balance |-> accounts[a].balance,
                              bonus   |-> accounts[a].bonus,
                              status  |-> accounts[a].status]]

Settled == {t \in TxIds : Committed(t)}

AW == INSTANCE AtomicWallet WITH funds <- Funds, settled <- Settled

RefinesAtomicWallet == AW!Spec

\* Without failures, an update is refused only because a credit overflows or
\* because another request moved money of that account since the row was read:
\* a conflict costs one request a retry but never stops the account.
ConflictMeansProgress ==
  Faults = {} =>
    \A h \in Handlers :
      pc[h] = "fail" =>
        \/ snap[h].version < accounts[req[h].account].version
        \/ /\ EntryType(req[h]) = "credit"
           /\ snap[h].balance + req[h].amount > MaxInt

\* Without failures, once no handler works on an account its books agree:
\* the completed rows, the rows that moved money, the ledger entries and the
\* events are the same transactions, and every other row is failed.
Quiet(a) == \A h \in Handlers : pc[h] # "idle" => req[h].account # a

QuietBooksAgree ==
  Faults = {} =>
    \A t \in TxIds :
      Quiet(t[1]) /\ transactions[t] # Null =>
        /\ transactions[t].status = IF Committed(t) THEN "completed" ELSE "failed"
        /\ Committed(t) <=> \E i \in 1..Len(ledger) : ledger[i].tx = t
        /\ Committed(t) <=> \E i \in 1..Len(events) : events[i] = t

\* Without failures every pending transaction reaches a final status.
PendingResolves ==
  \A t \in TxIds :
    HasStatus(t, {"pending"}) ~> HasStatus(t, {"completed", "failed"})
=============================================================================
