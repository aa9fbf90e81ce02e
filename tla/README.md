# A TLA+ model of the iGaming platform

This directory models, checks and proves the core logic of the platform: the
wallet service and its tables, the life cycle of accounts, the bonus engine and
what it offers, the event publisher and consumer, the scoring engine over its
feature store, and the pure computations beside them - the fraud model, the
lifetime value predictor, money and the domain package. The models are
translated from the Go source and the SQL schema, statement by statement; the
paths below are relative to the repository.

## 1. Inventory

The repository holds three services and two shared packages. The mains
(`services/wallet/cmd/main.go`, `services/risk/cmd/main.go`) have their wiring
commented out and there are no tests, so what calls what is read off the
packages themselves.

| Part | State | Operations | Interacts with |
|---|---|---|---|
| Wallet service (`services/wallet/internal/service/wallet_service.go`) | none of its own | CreateAccount, Deposit, Bet, Win, Withdraw; GetBalance, GetTransactionHistory read | repositories, risk client, event publisher |
| Wallet repository and schema (`.../repository/postgres.go`, `deploy/init-db.sql`) | tables accounts, transactions, ledger_entries | Create, GetByID, GetByPlayerID, UpdateBalance (version test), UpdateStatus, GetByIdempotencyKey, Update, ledger Create, GetAccountBalance, VerifyBalance, GetDailyStats | PostgreSQL: UNIQUE and CHECK constraints, the version trigger |
| Wallet domain (`.../domain/models.go`) | a transaction's status | NewTransaction, Complete, Fail, IsCredit, IsDebit | unused by the service |
| Bonus engine (`services/bonus/internal/service/bonus_engine.go`) | rules (read once), player bonuses through an interface | AwardBonus, ProcessWager, CheckMaxBet, ExpireOldBonuses, ForfeitBonus; GetEligibleBonuses, GetRule, GetAllRules read | bonus repository, risk checker, player data |
| Events (`pkg/events/publisher.go`) | channel, confirmation channel, closed flag; consumer subscriptions | Publish, PublishWithRouting, Close; Subscribe, Start, Stop | RabbitMQ |
| Risk scoring (`services/risk/internal/scoring/engine.go`) | thresholds, rules | Score, Get/SetThresholds | feature store, model, blacklist |
| Feature store (`.../features/redis_store.go`) | Redis counters, sorted sets, sets | UpdateRealTimeFeatures, GetRealTimeFeatures, GetVelocity, CheckRateLimit, blacklist | Redis |
| Fraud model (`.../ml/onnx_model.go`) | an inference session; the caller's vector, changed in place | Predict, PredictBatch, Close | nothing: its vector type is not the engine's |
| LTV (`.../prediction/ltv.go`, LTVModel in `.../ml/onnx_model.go`) | thresholds | Predict, BatchPredict, SegmentPlayers | a data source |
| Money (`pkg/money/money.go`) | immutable values | arithmetic, conversion | imported by no service |
| Mains, proto, deployment | - | start-up, shutdown, interfaces | - |

What is hard in them:

* **Wallet.** No database transaction spans two statements: handlers of one
  account interleave between any two, the process may die there, a statement may
  fail, or take effect and be reported failed. Errors of the idempotency lookup,
  of the ledger insert, of the status updates and of the publication are
  dropped. What must hold: a key moves money once; a debit never overdraws; each
  change of a balance is computed from the current row; rows settle once;
  journal and statistics agree with the money.
* **Accounts.** CreateAccount looks up, inserts and announces in three steps,
  each of which may fail or lose its reply, while others do the same for the
  same player; the version trigger judges every update of a row. What must hold:
  all answers name one account; a refusal needs a race or a failure; one
  announcement at most.
* **Bonus.** Each method reads rows, changes copies and stores whole rows, with
  no version. Overlapping calls lose updates and overwrite each other's status;
  the count of a one-time rule precedes the insert. What must hold: no wagering
  is invented, no bonus completes early; calls that do not overlap follow the
  life cycle of a bonus. What is listed and what is awarded are decided by
  different code: what is listed should be awardable.
* **Events.** Concurrent publishers read one confirmation channel without
  looking at delivery tags, and give up with their context; Close may run
  between the test of the closed flag and the use of the channel. A consumer
  answers each delivery once, on every path; a failing handler has its message
  requeued at once and for ever; a channel may close between a handler's success
  and its Ack. What must hold: a confirmation vouches for one publication at
  most; Close returns; no message leaves the queue unhandled; duplicates need a
  stop.
* **Risk.** Features are collected by three goroutines whose failures read as
  zero; thresholds are read without the lock they are written under. The feature
  store sends pipelines of commands that others interleave with and that a
  broken connection cuts; its window slides by the time of the events, its
  counters expire as a whole. What must hold: what is flagged took place; no
  transaction leaves its window early; a decision is right by thresholds in
  force.
* **Pure computations.** Thresholds at their boundaries, ranges that comments
  promise, two predictors of one quantity, a vector normalised in place. What
  must hold for every input is stated as theorems about operators.

## 2. Modules

| Module | Models | Role |
|---|---|---|
| `AtomicWallet` | what the wallet promises: one request applied at a time, at most once per key | abstract specification |
| `Wallet` | Deposit, Bet, Win, Withdraw over the three tables | detailed specification, its properties |
| `AccountLifeCycle` | CreateAccount, UpdateStatus, the version trigger | specification of the accounts table, its properties |
| `MCAccountLifeCycle` | - | instances for TLC |
| `WalletDomain` | NewTransaction, Complete, Fail, IsCredit, IsDebit | operators |
| `Money` | amounts and their arithmetic | operators |
| `DomainProofs` | - | theorems about `AccountLifeCycle`, `WalletDomain`, `Money` |
| `WalletAudit` | GetAccountBalance, VerifyBalance, GetDailyStats | extends `Wallet` |
| `WalletProofs` | - | theorems about `Wallet` and `WalletAudit` |
| `MCWallet` | - | instances for TLC |
| `BonusLifeCycle` | what the bonus engine promises | abstract specification |
| `Bonus` | AwardBonus, ProcessWager, CheckMaxBet, ExpireOldBonuses, ForfeitBonus | detailed specification, its properties |
| `BonusOffers` | GetEligibleBonuses with its schedule, GetAllRules | operators, extends `Bonus` |
| `BonusProofs` | - | theorems about `Bonus` and `BonusOffers` |
| `MCBonus` | - | instances for TLC |
| `Publisher` | PublishWithRouting, Close | specification of the publisher, its properties |
| `PublisherProofs` | - | theorems about `Publisher` |
| `MCPublisher` | - | instances for TLC |
| `Consumer` | Start, processMessages, Stop | specification of the consumers of a queue, its properties |
| `ConsumerProofs` | - | theorems about `Consumer` |
| `MCConsumer` | - | instances for TLC |
| `FeatureStore` | UpdateRealTimeFeatures, the readings of GetRealTimeFeatures, GetVelocity, CheckRateLimit | specification of one account's features, its properties |
| `MCFeatureStore` | - | instances for TLC |
| `Scoring` | Score, SetThresholds, the blacklist | extends `FeatureStore`: scoring composed with the store |
| `ScoringProofs` | - | theorems about `FeatureStore` and `Scoring` |
| `MCScoring` | - | instances for TLC |
| `FraudModel` | Normalize, Predict, mockPredict, PredictBatch | operators |
| `LTV` | LTVPredictor and LTVModel | operators |
| `PredictionProofs` | - | theorems about `FraudModel` and `LTV` |
| `Sums` | - | lemmas about sums over finite sets, for `WalletProofs` and `ScoringProofs` |

### Wallet

`accounts`, `transactions` and `ledger` are the tables; a transaction row is
indexed by its UNIQUE pair of account and idempotency key, so the uuid the code
gives it is left out. `events` are the publications. A handler is a goroutine
serving one request: `pc` names the statement it runs next, `req` the request,
`snap` the account row it read, `risk` the score, `reply` what it answered.
`commits` is a history variable: per account, the keys whose update of the
balance took effect, in order.

The four handlers run the same statements in the same order, so the statements
are actions shared by them - `Begin`/`Replay` (idempotency lookup),
`ReadAccount`/`Refuse`, `Screen`/`ScreenUnavailable`, `CreateTx`,
`UpdateBalance`, `MarkFailed`, `CreateLedgerEntry`, `Complete`, `Publish` - and
`Deposit`, `Bet`, `Win` and `Withdraw` are operators that say what is particular
to each: the checks on the row, whether and how the risk service decides, and
the amounts computed from the row read. Amounts are int64 (`Wrap`).

`Faults` says what may go wrong: a statement fails without effect, takes effect
but is reported failed, the risk service is down, the process dies.

Left out: descriptions, references, game and round ids, timestamps (all rows are
of one day), the currency. Accounts are there from the start and keep their
status: how they come into being is `AccountLifeCycle`, which also shows that no
status ever changes. The published event types (`transaction.completed`,
`withdrawal.completed`) are told apart by the row they carry.

### AccountLifeCycle

`accounts` is the table as a set of rows, `call` what each goroutine in
CreateAccount does, `announced` the `account.created` events per player,
`unheeded` a history of the accounts without the status last asked for them,
`harmed` one of the players one of whose calls met a failure. The lookup (`Find`,
`Miss`, `LookupFails`, whose error reads as no row), the insert (`Create`,
`Duplicate`, `CreateFails`, `CreateReplyLost`) and the event (`Publish`,
`PublishFails`) are steps that other calls and updates come between.
`Insertable` is the schema's PRIMARY KEY and UNIQUE player_id, `PassesTrigger`
the trigger of `deploy/init-db.sql:224`: it lets UpdateBalance pass, which
advances the version, and refuses UpdateStatus, which does not. An account
cannot be suspended through the repository (the run `account_status`), so the tests of the status in the
four handlers of the wallet only bite on rows changed by other means.

### WalletDomain, Money

Operators only. Money counts in hundredths of a cent, in which all modelled
operations are exact; an operation that may fail answers with an amount or the
name of its error.

### Bonus

`bonuses` is the table behind the repository interface. Four histories go with
it: `due`, the contributions of the wagers that read a bonus; `wagered`, those
whose Update took effect; `missed`, those whose Update failed or was never made
because the process died; and `miscounts`, the failed counts. A worker is a goroutine making one call at a time: `job` is the call,
`copy` the rows as it read them, `todo` the ids it has still to write. The
interface has no implementation in the source: GetActiveByAccount and
GetExpiredBonuses are modelled as reads of the active rows, Update as a store of
the whole row, which is how the engine uses them. Calls are a finite set and
each is made once, which bounds every run. Rules, games and players are
constants; the clock counts days.

Amounts are integers assumed far below int64's limits. The engine refuses no
negative one: a negative deposit makes a negative bonus, and `Percent` truncates
as Go's division does.

`BonusOffers` adds what GetEligibleBonuses lists: time in seconds since Go's zero
time, dates as days, the zone of the server apart from UTC, in which dates are
parsed. StartTime and EndTime are read nowhere in the source.

### Publisher

`pc`, `job` and `outcome` are the goroutines in PublishWithRouting, `closed` the
flag, `closing` the time Close spends under the lock, `confirms` the Go channel
of confirmations. The broker and the AMQP library are external: `wire` and
`acks` are the two directions of the connection, `stored` and `refused` what the
broker decided, `Notify` the library's reader, which stops when `confirms` is
full. A confirmation carries its event in the model only so that the properties
can name it: the code looks at Ack alone. `abandoned` is a history of the events
whose caller does not wait. What is sent while Close runs may be dropped by the
broker without an answer. Publisher confirms are on, as in
DefaultPublisherConfig; bodies, routing keys and exchanges are left out.

### Consumer

Each consumer is a process with its own RabbitMQConsumer and one loop; several
consume one queue. `phase` and `current` are the loop, `inbox` the Go channel
`msgs`, `held` what the broker waits for an answer about. The broker is
external: it delivers the oldest message to a consumer with room under the
prefetch count (`Room`), puts a requeued message back where it was, and takes
back what a closed channel held. `Stop` (or a lost connection) closes the
channel and leaves the loop to finish, with deliveries it may still find in
`msgs`; `Crash` ends both; `Cancel` ends the context, and the channel stays
open until something closes it. `handled`, `failures` and `stops` are histories.
A PrefetchCount of 0 (no limit) is a `Prefetch` above the number of messages.

### Feature store

`history`, `total`, `sketch`, `lastTx` and `session` are the Redis keys of one
account, `expires` when each expires. `pipe` holds the commands of an update
that Redis has not run: it runs one at a time, between those of other updaters,
and `Break` loses the rest. An event is applied at any time from its own on, in
any order and again (`MaxApplies`); its timestamp is assumed not to lie ahead of
Redis's clock. `Tick` passes time and drops expired keys, each as a whole: the
history lives two hours, the sum one, a sketch a day, the last transaction a
week and the session half an hour from the last EXPIRE. A key whose old time
runs out between a write and the EXPIRE behind it takes the write with it, and
that EXPIRE then finds nothing. Two histories tell these cases apart: `lapsed`
holds the events whose update lost a key that way, `torn` the keys that a broken
connection left without an expiry. The sketches count exactly, as HyperLogLog
does for the few values that the rules tell apart; the windows are small numbers
in the order of the source's. `GetVelocity` and `CheckRateLimit`, which nothing
in the source calls, are operators over the same store.

### Scoring

`stage` is where each Score is, `pending` the sources it waits for, `features`
what they answered; `config` are the two thresholds, which SetThresholds stores
one after the other. The pipeline that reads the store is two steps, between
which an update may run. Rules, weights and the ensemble are computed as in the
source; its floating-point sum is that of integers for the weights 0.4 and 0.6
and a model that answers in whole percents. A model's failure counts as 50, a
missing model as 0. `seen`, `countedAt` and `blind` are histories.

With these weights the rules alone reach a score of 40, below both default
thresholds: without a model everything is approved, blacklisted or not. The
commented-out wiring of `services/risk/cmd/main.go:121` sets no weights at all.

### FraudModel

A feature is a fraction, because the thresholds are compared with scaled ones;
scores are hundredths. `Predict` answers with the score and with what it leaves
of the caller's vector. The trained model is an input: any number, NaN, which
neither comparison of the clamp catches, or a failure.
Nothing connects the model to the scoring engine: the two declare different
vectors, and the engine's adapter is not in the source.

### LTV

Scores, risks and rates are hundredths, values fractions of dollars. Two places
depend on how floats round and are modelled as they do: `ExceedsThirty`, where
0.2 + 0.1 exceeds 0.3 and 0.3 does not, and `predictSurvival`, where a whole
number of days may be truncated to the one before.

## 3. Runs

| Run | Instance | Checks |
|---|---|---|
| `wallet_faults` | 2 handlers, 3 requests (two share a key), all four faults | `SnapshotCoherent`, `AtMostOnce`, `JournalFollowsCommits`, `RiskRespected`, `TxRowsOnlySettle`, `RefinesAtomicWallet` |
| `wallet_races` | 2 handlers, 5 requests over 3 keys, active and suspended account, amounts up to int64's limit (6), no faults, fairness | `TypeOK`, `DebitsNeverOverdraw`, `LastCommitRecorded`, `FailedMovedNothing`, `ConflictMeansProgress`, `QuietBooksAgree`, `BooksExplainTotal`, `PendingResolves` |
| `wallet_verify_balance` | 2 requests, failing statements, crashes | `LedgerMatchesBalance` - violated |
| `account_life` | 3 callers, 2 players, 3 ids, all four faults, one balance update per account, status updates | `TypeOK`, `AnswersAgree`, `RefusalsNeedRace`, `AnnouncedOnce` |
| `account_status` | 1 caller, 1 player, balance and status updates, no faults | `StatusTakes` - violated |
| `bonus_races` | 2 workers, 3 awards of a one-time rule, 2 wagers, an expiry, failing counts | `ProgressEarned`, `ClaimsBoundedByOverlap` |
| `bonus_serial` | 1 worker, 8 calls on 2 accounts, one with a negative deposit, an opening freebet, failed writes and reads, lost replies, crashes | `OneTimeOnce`, `ProgressExact`, `ForfeitTakesAll`, `RefinesBonusLifeCycle` |
| `publisher_races` | 2 publishers, 3 events, a channel of 2 confirmations, cancelled waits, failed sends, refusals, a lost connection; fairness | `SuccessesAreStored`, `BacklogIsAbandoned`, `OkIsDecided`, `CloseReturns` |
| `publisher_confirms` | 2 publishers, 3 events, refusals | `OkMeansStored` - violated |
| `consumer_races` | 2 consumers of prefetch 2, 3 messages, one malformed and one poisoned, 2 stops, 1 passing handler error; fairness | `NoDeliveryForgotten`, `AnsweredRightly`, `DuplicatesNeedStops`, `EventsAreHandled` |
| `feature_updates` | 2 updaters, 4 events (two the sorted set cannot tell apart), 2 updates, windows of 1, 2, 4 and 5, clock to 6, breaks | `WindowComplete`, `SumCoversWindow`, `CountersExpire` |
| `risk_scoring` | 1 scorer, 1 updater, 2 events, 2 updates, two settings of the thresholds, sources failing | `TypeOK`, `VelocityJustified`, `RapidJustified`, `DecisionJustified` |

What the violated runs show, each against a sentence of the repository:

* `wallet_verify_balance`: the balance update, the ledger insert and the
  completion are statements that no database transaction spans, and a ledger
  insert that fails is only logged. After one failed insert, or one crash, an
  idle account fails VerifyBalance; README.md:148 says double-entry bookkeeping
  ensures balance consistency, README.md:41 says ACID.
* `account_status`: UpdateStatus leaves the version alone, and the trigger of
  init-db.sql:227 refuses every update that does; postgres.go:150 says it updates
  the status. No account is ever suspended or closed.
* `publisher_confirms`: of two concurrent publications the broker refuses one,
  and its caller takes the other's confirmation and reports success;
  publisher.go:199 says it waits for the confirm.

**Bounds.** One account suffices for the wallet: handlers of different accounts
share no row. Two handlers make every pairwise interleaving; two requests under
one key of different kinds, one with an amount the table refuses, amounts at the
int64 limit (`MaxInt = 6`, so that a deposit followed by the win overflows) and
one score per side of the two thresholds make each guard decide both ways. The
transactions table bounds the behaviours: a key moves money at most once. For
the bonus engine, three awards against two workers separate "once" from "once
per worker" - two overlapping awards do claim a rule twice, although
bonus_engine.go:72 says of it that it "can only be claimed once"; the two wagers
complete a bonus only together. In `bonus_serial` one wager reads two bonuses, so
that a failed Update of the first must leave the second to be written. For `account_life`,
three callers let two race for one player while a third is early or late, two
players keep rows apart, and three ids leave one for an UpdateStatus that finds
no account; one balance update is as much as the trigger tells apart. Handlers,
workers and callers are interchangeable: the runs without liveness use symmetry.
The clock of `feature_updates` runs until each key but the week's can have
expired between two commands and been written again; `risk_scoring` needs one scorer, because scorers share nothing
they write, and a store small enough to be combined with it: the other run
explores the store. A deadlock is checked in the wallet and account runs, where
a new request can always arrive; not in the bonus runs, where the calls run out,
nor in the risk runs, where the clock does.

**Fairness.** `FairSpec` of the wallet says that a goroutine serving a request
is scheduled and that its database and HTTP calls return - the drivers' calls
carry a context and end in a reply or an error. It does not make requests
arrive, statements fail, or processes crash.

For the publisher: goroutines in PublishWithRouting are scheduled, the broker
decides on what it receives and answers a close, the library reads until the Go
channel is full. No caller's context has to end. For the consumers: a loop is
scheduled and its handler returns - an assumption on the handlers, which are
callbacks; each message that is again and again deliverable is delivered (strong
fairness: the broker fills a consumer's room while others are still being
answered). Consumers need not restart: `EventsAreHandled` speaks of the
behaviours in which each of them runs again and again. Its bound on the
poisoned messages is exact: with as many as all consumers may hold together
(prefetch 1, one consumer, one such message) TLC finds the queue stuck.

A deadlock is not checked in the event runs: publications run out, and a queue
that is empty has nothing more to do. The confirmation channel has 100 places in
the source and 2 in the run, fewer than the events, so that it fills up.

## 4. Proofs

TLAPS proves the following for every value of the constants that meets the named
assumptions: any accounts, requests, handlers, opening rows, thresholds and
faults.

`DomainProofs`, on accounts: `AccountTypeCorrect`, `CreateIsIdempotent`,
`RefusalsAreRaces`, `AccountsAnnouncedOnce`, for any players, callers, ids and
faults; and `AccountsStayActive`, which contradicts the comment at
`postgres.go:150` and generalises the counterexample of `account_status`: no
update makes an account anything but active. The inductive invariant (`Inv`) adds that rows
are unique in both keys, that a call past its insert has a row of its own
(`CallsHaveRows`), that an account which was there when a call began is found
unless the call meets a failure (`KnownIsFound`), and that at most one call per
player is about to announce (`Announcements`). On money: `CentsRoundTrip`,
`SubThenAdd`, `PercentSplit`; on transactions: `BalanceDirection`, that the
balance also moves for the two bonus types that neither IsCredit nor IsDebit
names, and that Fail undoes Complete but for its time.

`WalletProofs`: `TypeCorrect`, `SnapshotsCoherent`, `KeysMoveMoneyOnce`,
`FailuresMoveNothing`, `DebitsCovered`, `RowsOnlySettle` and
`ImplementsAtomicWallet`, each about the property of the runs it names. The
argument: `TypeOK` is not inductive, because what a statement stores depends on
what the handler read before. `WalletInv` adds (1) that a handler past its read
holds a row it was allowed to act on, and past its insert owns the row of its
transaction; (2) `SnapshotCoherent`: versions only grow, and a snapshot with the
current version is the current row - every write advances the version, so two
handlers cannot both pass the version test from one read; (3) `OnceInv`: a
pending row whose money has not moved has one owner at most, a committed key
has a row, and a handler knows whether its own key has moved. At-most-once
follows because the only handler that may append a key to `commits` is the one
that inserted its row, which it does once. The refinement follows because an
update that passes the version test was computed from the current row
(`SnapshotCoherent`), so it equals the abstract step from the current funds;
all other steps leave funds and commits alone.

On the books it proves `JournalIsSound`, `RiskIsRespected`,
`LastCommitIsRecorded`, `ConflictsMeanProgress` and `QuietBooksDoAgree`, from
`WalletInv` and a second invariant, `BookInv`: a row keeps the request and the
score of the handler that inserted it, and the score is fixed at the insert; a
row has neither ledger entry nor event before the handler that owns it writes
them, after its update; and without failures a row that nobody owns any more
agrees in its status, its commit, its entry and its event. That a handler owns
its row alone (`OnceInv`) is what keeps a second entry or event out. A row's
balance_after is computed from a snapshot before the update; the update that
passes its version test stores the same amount (`SnapshotCoherent`), and every
later change of the balance is a later commit: hence `LastCommitIsRecorded`.

What the books add up to is two theorems. `TotalsExplained` says that under every
fault the total of an account is that of its opening row plus the signed amounts
of its committed transactions (`Explained`). It is inductive because an update
that passes its version test adds or takes exactly the amount of the request,
however a debit is split between balance and bonus (`PolicySum`), and because a
committed row keeps its type and amount. `BooksDoExplain` is what the audit
queries may rely on: without failures, an account no handler works on has one
ledger entry per committed transaction, so that the ledger sums the same numbers
(`LedgerSum`), and the daily statistics sum them by type (`StatsSum`).
`VerifyBalanceIgnoresBonus` is about the audit query VerifyBalance: without
failures an account no handler works on passes it exactly when its bonus is all
that it was opened with.

`Sums` holds the lemmas on SumFunctionOnSet those proofs cite: taking out,
adding and joining (`SumRemove`, `SumAdd`, `SumUnion`), order (`SumMonotone`,
`SumAtLeast`), opposite terms and renamed indices (`SumOpposite`, `SumImage`).
The community module sums by a recursive function that takes elements out in the
order of CHOOSE; `SumRemove` says that the order does not matter. Induction on
the cardinality would need a library theorem over an arbitrary predicate;
`SetInduction` states it for a set of numbers instead and derives it from the
pigeonhole principle of FiniteSetTheorems.

`BonusProofs`, for any number of workers: `BonusTypeCorrect`, whatever integers
the calls pass, and `WageringEarned`, as long as no bet is negative
(`BetsAreNatural`). The engine does not test that; the wallet's table of
transactions does (`CHECK (amount > 0)`, `init-db.sql:34`). A copy of a row stays
useful however old it is, because the terms of a bonus never change and
`wagered` only grows: stale progress is at most what has been wagered
(`Copies`), so the row computed from it satisfies `ProgressEarned` again.
`ClaimsAreBounded`, also for any number of workers and all faults, counts: the
claims of a one-time rule and the calls past the test of the count but not past
their insert are together at most the workers and the counts that failed
(`Claimants`). A call that passes the test has seen no claim, so at that moment
the claims are none and the calls past it at most the workers; an insert
turns a call into a claim; a failed count is paid for by `miscounts`.

Three theorems hold of calls that do not overlap (`Alone`: one worker):
`SerialClaimsOnce`, `SerialProgressIsExact` and `SerialForfeitTakesAll`, under
every failed write, lost reply and crash the runs allow. The invariant,
`SerialInv`, says that a lone worker's copies are current (`Fresh`), that what
a forfeit has left to write is every bonus of the account still active
(`Remaining`), and where each contribution is (`Exact`): in the progress, in
`missed`, or, while a wager is being processed, still to be written. An Update
that fails is logged and the wager answered without an error, so a wager can be
lost; `SerialProgressIsExact` says that it is lost in no other way but a crash.
`ImplementsBonusLifeCycle` is the refinement of `BonusLifeCycle` under the same
hypothesis, without negative bets and without failing counts: AwardBonus drops
the count's error and takes the zero that comes with it for the number of claims.
The hypotheses are needed, and they are not what the code guarantees: it takes no
lock between read and write, so that two overlapping awards may both count zero
claims and both pay (the bound of `ClaimsAreBounded` is reached), although
`bonus_engine.go:277` calls the count the check for one-time bonuses.
`WorkersAssumption` (finitely many workers, one at least) and
`OpeningClaimsAssumption` (no one-time rule claimed twice when the engine
starts) are what the bound is relative to.

About offers `BonusProofs` proves that a listed rule passes every test of
AwardBonus (`OffersAreAwardable`); that cashback, and free spins without a fixed amount,
are nevertheless never awarded, as their amount is zero
(`CashbackIsNeverAwarded`; `bonus_rules.yaml` has an active cashback rule); that
a rule is gone one second into its end date (`EndDateIsExcluded`), so the
promotion that `bonus_rules.yaml:115` ends on January 31 ends with the 30th;
what malformed dates do (`MalformedDates`); and that days written "monday,
tuesday", as the comment at `bonus_engine.go:78` has them, never match
(`UncapitalisedDaysNeverMatch`).

`ConsumerProofs`: `ConsumerTypeCorrect`, `NothingUnhandled`, `NothingForgotten`
and `DuplicatesAreStops`. The first invariant
adds what each phase of the loop knows of its delivery: about to Ack, the
handler has succeeded; about to Reject, the body is malformed
(`AnswersJustified`). Deliver, the answers and a closing channel only move
messages between the queue, the consumers and the two final sets. The second
(`PlacesInv`) says that a message is held by one consumer at most, and comes once
in what a loop has or will see, also after its channel has closed. Duplicates are
then counted (`CreditInv`): the successes of a message, the consumers that may
still handle it and the queue that may still deliver it are together at most one
more than the closed channels, because only a closing channel puts a message back
that some loop still has or has finished.

`PublisherProofs`: `PublisherTypeCorrect`, `ConfirmationsVouchOnce`,
`BacklogNeverShrinks`. Both count, and both are inductive only because an event
is in one place at a time: an event nobody has sent is nowhere (`Unsent`), and
what was sent is decided once and confirmed once, as it was decided (`Decided`).
Then the successes and the positive confirmations under way are together at most
the stored events (`Vouched`), and what is on its way is what is waited for or
abandoned (`Counted`).

`ScoringProofs`, on the feature store: `HistoryIsComplete`,
`CountersCoverWindows`, `CountersAreTemporary`, and `RateLimitIsRight` for
CheckRateLimit. All rest on `StoreInv`. What is left of a pipeline is a suffix of
one (`Pipelines`), so an update that has run the write of a key either has run
the EXPIRE behind it or still will (`Unrenewed`). Once an event's write has been
run, its key tells of it - the member is in the history, the device in its
sketch, the session open (`Seen`) -, and once the EXPIRE has been run the key
lives as long as the event's window (`Renewed`). Both hold until the event leaves
the window, except for events whose update was overtaken between the two
commands by the key's old expiry: those are in `lapsed`, which names each such
loss instead of ruling it out. The two-hour expiry of the history can lose an
applied transaction in this way and in no other. The total is at least the sum
of the amounts that it should tell of, by `SumAdd` and `SumMonotone`; connections
may break anywhere. The rate limit is exact up to updates that lapsed, and
transactions of the same second and amount, which are one member. On scoring:
`ScoringTypeCorrect`, `VelocityIsReal`, `RapidIsRecent`,
`DecisionsAreJustified`: a scorer's features vouch for transactions of the store
at the time they were counted, its reasons for its features, and its comparisons
for thresholds it has seen in force.

`PredictionProofs`, on the fraud model: `ScoreBounded`, whose one exception is a
NaN of the runtime: it passes both comparisons of the clamp and is returned;
`RawThresholds`, the
thresholds of the mock prediction in the units of the raw features, some not
those of the comments beside them (rapid is 864 seconds and not 15 minutes,
large is an amount of 1); and `SecondPredictionForgets`: Predict normalises the
caller's vector in place, so predicting it again scores another player. On
lifetime value: `SurvivalBounded`, `ActiveNeverChurning`, `UnprofitableIsLow`,
`ChurningBeforeThreshold` (the 14 days of NewLTVPredictor are read by nothing),
`ValueDropsAtDay30`, `EqualRisksDiffer`, and the relation of the two predictors,
`ModelFindsLessChurn` and `ModelValuesNewPlayersLess`.

Every invariant, action property and refinement that a passing run checks is
thus a theorem; the bonus properties of `bonus_serial` with the hypothesis that
calls do not overlap, and `ProgressEarned` and the bonus refinement with the one
that bets are not negative. Only model-checked are the four liveness properties,
`PendingResolves`, `OkIsDecided`, `CloseReturns` and `EventsAreHandled`: fairness
is stated through ENABLED, which is out of the prover's reach. So are the
counterexamples of the three violated runs, which are TLC's to find. Sums are
taken over sets of rows, commits and commands and never by recursion over a
sequence, because what a recursive definition over a sequence computes cannot be
proved with these provers.

## 5. Plan

Done: the wallet with its abstract specification, refinement and proofs; the
bonus engine with its life cycle; publisher and consumer; accounts; feature store
and scoring; fraud model, LTV, money and domain operators; the proofs of all
safety properties and of both refinements. Left, in order of importance:

1. What overlapping bonus calls still keep: how much progress can be lost, by
   the number of workers, as `ClaimsBoundedByOverlap` says it of claims.
2. Subscribe, should a main come to call it before or after Start.
3. A status change in the middle of a bonus call: an Update from a stale copy
   may make an expired bonus active again.
4. Thresholds read one old and one new: each comparison has a threshold to
   justify it, but no property says that the pair was ever in force.
5. A model that answers NaN to Score, whose conversion to an integer is left to
   the platform.

Not modelled, and why:

* The mains (`services/*/cmd/main.go`): flags, logging, interceptors and the
  order of start-up and shutdown; the wiring of services, stores and consumers
  is commented out, so there is no composition of wallet, events and bonus to
  model: nothing in the source subscribes a bonus engine to the wallet's events.
* Subscribe after Start, and a Start that fails at its second queue: only the
  commented-out mains say in which order they are called. Subscribe binds no
  queue to an exchange, so what the publisher sends reaches no consumer of this
  source.
* `UnitOfWork` and `Lock` of the repository: called by nothing.
* SetFeature, GetFeature, IncrementCounter and DeleteAccountFeatures of the
  feature store: single commands that nothing calls.
* The trained model's inference: external; its answer is an input.
* Event constructors, Money's strings and JSON, Mul and Div by decimals, and the
  records and accessors of the domain package: data without decisions.
* `proto/`, `deploy/` but for the schema, Makefile: no behaviour of their own.
