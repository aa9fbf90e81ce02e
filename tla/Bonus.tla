------------------------------- MODULE Bonus -------------------------------
(***************************************************************************)
(* The bonus engine, services/bonus/internal/service/bonus_engine.go:      *)
(* AwardBonus, ProcessWager, CheckMaxBet, ExpireOldBonuses and             *)
(* ForfeitBonus, called by any number of goroutines over one repository.   *)
(*                                                                         *)
(* A call of the repository, of the player data provider or of the risk    *)
(* checker is one action.  The repository is an interface without an       *)
(* implementation in the source: GetActiveByAccount and GetExpiredBonuses  *)
(* return copies of rows, Update stores the whole row it is given.         *)
(***************************************************************************)
EXTENDS Integers, Sequences, FiniteSets

CONSTANTS
  Accounts,
  Workers,          \* the goroutines calling the engine
  RuleIds,          \* the rule ids that calls and rows may name
  Rules,            \* the configuration: rule id -> rule, as rulesByID
  Players,          \* what GetPlayerInfo may answer
  Abusers,          \* the accounts CheckBonusAbuse answers TRUE for
  RiskEnabled,      \* whether the engine was built with a risk checker
  Calls,            \* the calls made; each is made once (a bound)
  OpeningBonuses,   \* the rows the repository holds when the engine starts
  MaxDay,           \* the last day of the clock (a bound)
  Faults,           \* the failures that may happen, see FaultKinds
  Null              \* no call

\* "error":     a repository write fails and changes nothing
\* "lostReply": a write takes effect but the engine is told it failed
\* "lookup":    a read of the repository or of the player data fails
\* "count":     the count of the claims fails
\* "riskDown":  the risk checker cannot be reached
\* "crash":     the process making a call dies
FaultKinds == {"error", "lostReply", "lookup", "count", "riskDown", "crash"}

BonusTypes == {"deposit_match", "free_spins", "cashback", "no_deposit", "freebet"}

BonusStatus == {"active", "completed", "expired", "forfeited"}

Bonus ==
  [account : Accounts, rule : RuleIds, amount : Int, required : Int,
   deposit : Int, expires : Nat, progress : Int, status : BonusStatus]

ASSUME RulesAssumption ==
  /\ DOMAIN Rules \subseteq RuleIds
  /\ \A id \in DOMAIN Rules :
    /\ Rules[id].type \in BonusTypes
    /\ {Rules[id].active, Rules[id].oneTime} \subseteq BOOLEAN
    /\ {Rules[id].matchPercent, Rules[id].maxBonus, Rules[id].fixedAmount,
        Rules[id].multiplier, Rules[id].maxBetPercent,
        Rules[id].maxBetAbsolute,
        Rules[id].expiryDays} \subseteq Nat
    /\ \A game \in DOMAIN Rules[id].weights : Rules[id].weights[game] \in Nat

\* Amounts are cents small enough that no product below exceeds int64; the
\* engine takes negative ones too.
ASSUME CallsAssumption ==
  \A call \in Calls :
    /\ call.kind \in {"award", "wager", "maxbet", "forfeit", "expire"}
    /\ call.amount \in Int
    /\ call.account \in Accounts
    /\ call.rule \in RuleIds

ASSUME WorkersAssumption == IsFiniteSet(Workers) /\ Workers # {}

ASSUME OpeningAssumption ==
  /\ OpeningBonuses \in Seq(Bonus)
  /\ \A i \in 1..Len(OpeningBonuses) :
       OpeningBonuses[i].status = "active" /\ OpeningBonuses[i].progress = 0

\* The table the engine starts on has no second claim of a one-time rule.
ASSUME OpeningClaimsAssumption ==
  \A i, j \in 1..Len(OpeningBonuses) :
    /\ OpeningBonuses[i].account = OpeningBonuses[j].account
    /\ OpeningBonuses[i].rule = OpeningBonuses[j].rule
    /\ OpeningBonuses[i].rule \in DOMAIN Rules
    /\ Rules[OpeningBonuses[i].rule].oneTime
    => i = j

ASSUME MaxDayAssumption == MaxDay \in Nat

ASSUME FaultsAssumption == Faults \subseteq FaultKinds

ASSUME NullAssumption == Null \notin Calls

-----------------------------------------------------------------------------
(* The rules of a bonus.                                                   *)

\* The division of int64 values truncates.
Percent(amount, percent) ==
  LET n == amount * percent IN IF n >= 0 THEN n \div 100 ELSE -((-n) \div 100)

BonusAmount(rule, deposit) ==
  IF rule.type = "deposit_match"
  THEN IF Percent(deposit, rule.matchPercent) > rule.maxBonus
       THEN rule.maxBonus
       ELSE Percent(deposit, rule.matchPercent)
  ELSE IF rule.type = "cashback" THEN 0
  ELSE rule.fixedAmount

Weight(rule, game) ==
  IF game \in DOMAIN rule.weights THEN rule.weights[game] ELSE 100

Contribution(rule, game, bet) ==
  IF \/ game \in rule.excludedGames
     \/ rule.eligibleGames # {} /\ game \notin rule.eligibleGames
  THEN 0
  ELSE Percent(bet, Weight(rule, game))

\* A limit of 0 and an empty set stand for a condition the rule leaves out.
MeetsConditions(rule, player) ==
  /\ player.deposits >= rule.minDeposits
  /\ player.age >= rule.minAge
  /\ rule.maxAge > 0 => player.age <= rule.maxAge
  /\ rule.segments # {} => player.segment \in rule.segments
  /\ player.segment \notin rule.excludedSegments
  /\ rule.countries # {} => player.country \in rule.countries
  /\ player.country \notin rule.excludedCountries

\* The bet a bonus forbids while it is active.
ExceedsLimit(rule, bonus, bet) ==
  \/ rule.maxBetPercent > 0 /\ bet > Percent(bonus.amount, rule.maxBetPercent)
  \/ rule.maxBetAbsolute > 0 /\ bet > rule.maxBetAbsolute

-----------------------------------------------------------------------------
(* State.                                                                  *)

VARIABLES
  bonuses,   \* table player_bonuses, in creation order; the index is the id
  today,     \* the clock, in days
  wagered,   \* history: per id, the contributions whose Update took effect
  due,       \* history: per id, the contributions of the wagers that read it
  missed,    \* history: per id, the contributions whose Update failed, or was
             \* never made because the process died
  miscounts, \* history: how many counts of the claims failed
  calls,     \* the calls not made yet
  pc,        \* what a worker does next
  job,       \* the call it makes or made last
  copy,      \* the rows as it read them
  todo,      \* the ids of the rows it has still to write
  reply      \* what its last call returned

store == <<bonuses, wagered, due, missed, miscounts>>
vars == <<store, today, calls, pc, job, copy, todo, reply>>

Ids == 1..Len(bonuses)

Claims(account, rule) ==
  {i \in Ids : bonuses[i].account = account /\ bonuses[i].rule = rule}

Init ==
  /\ bonuses = OpeningBonuses
  /\ today = 0
  /\ wagered = [i \in 1..Len(OpeningBonuses) |-> 0]
  /\ due = wagered
  /\ missed = wagered
  /\ miscounts = 0
  /\ calls = Calls
  /\ pc = [w \in Workers |-> "idle"]
  /\ job = [w \in Workers |-> Null]
  /\ copy = [w \in Workers |-> <<>>]
  /\ todo = [w \in Workers |-> {}]
  /\ reply = [w \in Workers |-> "none"]

Goto(w, label) ==
  /\ pc' = [pc EXCEPT ![w] = label]
  /\ UNCHANGED <<today, calls, job, copy, todo, reply>>

Return(w, answer) ==
  /\ pc' = [pc EXCEPT ![w] = "idle"]
  /\ copy' = [copy EXCEPT ![w] = <<>>]
  /\ todo' = [todo EXCEPT ![w] = {}]
  /\ reply' = [reply EXCEPT ![w] = answer]
  /\ UNCHANGED <<today, calls, job>>

Begin(w, call) ==
  /\ pc[w] = "idle"
  /\ calls' = calls \ {call}
  /\ job' = [job EXCEPT ![w] = call]
  /\ reply' = [reply EXCEPT ![w] = "none"]
  /\ pc' = [pc EXCEPT ![w] = IF call.kind = "award" THEN "player" ELSE "load"]
  /\ UNCHANGED <<store, today, copy, todo>>

-----------------------------------------------------------------------------
(* AwardBonus.                                                             *)

Rule(w) == Rules[job[w].rule]

NextAfterAbuse(w) == IF Rule(w).oneTime THEN "count" ELSE "create"

Awardable(w, player) ==
  /\ job[w].rule \in DOMAIN Rules
  /\ Rule(w).active
  /\ MeetsConditions(Rule(w), player)

CheckPlayer(w) ==
  /\ pc[w] = "player"
  /\ \/ \E player \in Players :
          IF Awardable(w, player)
          THEN Goto(w, IF RiskEnabled THEN "abuse" ELSE NextAfterAbuse(w))
          ELSE Return(w, "error")
     \/ "lookup" \in Faults /\ Return(w, "error")
  /\ UNCHANGED store

\* A risk checker that does not answer lets the award pass.
CheckAbuse(w) ==
  /\ pc[w] = "abuse"
  /\ \/ /\ job[w].account \notin Abusers \/ "riskDown" \in Faults
        /\ Goto(w, NextAfterAbuse(w))
     \/ job[w].account \in Abusers /\ Return(w, "error")
  /\ UNCHANGED store

\* Mutant of CheckOneTime: the count compared with 1.
CheckOneTime_OffByOne(w) ==
  /\ pc[w] = "count"
  /\ IF Cardinality(Claims(job[w].account, job[w].rule)) > 1
     THEN Return(w, "error")
     ELSE Goto(w, "create")
  /\ UNCHANGED store

\* The error of the count is dropped: it reads as 0.
CheckOneTime(w) ==
  /\ pc[w] = "count"
  /\ \/ /\ IF Claims(job[w].account, job[w].rule) # {}
           THEN Return(w, "error")
           ELSE Goto(w, "create")
        /\ UNCHANGED store
     \/ /\ "count" \in Faults
        /\ miscounts' = miscounts + 1
        /\ Goto(w, "create")
        /\ UNCHANGED <<bonuses, wagered, due, missed>>

NewBonus(w) ==
  LET amount == BonusAmount(Rule(w), job[w].amount) IN
  [account |-> job[w].account, rule |-> job[w].rule, amount |-> amount,
   required |-> amount * Rule(w).multiplier, deposit |-> job[w].amount,
   expires |-> today + Rule(w).expiryDays, progress |-> 0, status |-> "active"]

CreateBonus(w) ==
  /\ bonuses' = Append(bonuses, NewBonus(w))
  /\ wagered' = Append(wagered, 0)
  /\ due' = Append(due, 0)
  /\ missed' = Append(missed, 0)
  /\ UNCHANGED miscounts

\* The deposit is not compared with the rule's MinDeposit, nor the day with its
\* schedule.
Create(w) ==
  /\ pc[w] = "create"
  /\ IF NewBonus(w).amount = 0
     THEN Return(w, "error") /\ UNCHANGED store
     ELSE \/ CreateBonus(w) /\ Return(w, "ok")
          \/ "error" \in Faults /\ Return(w, "error") /\ UNCHANGED store
          \/ "lostReply" \in Faults /\ CreateBonus(w) /\ Return(w, "error")

-----------------------------------------------------------------------------
(* ProcessWager, ForfeitBonus, ExpireOldBonuses, CheckMaxBet: read the rows,*)
(* then write them one by one.                                             *)

\* GetExpiredBonuses and GetActiveByAccount.
Selected(call, i) ==
  /\ bonuses[i].status = "active"
  /\ IF call.kind = "expire" THEN bonuses[i].expires < today
     ELSE bonuses[i].account = call.account

Counts(call, bonus) ==
  IF bonus.rule \in DOMAIN Rules
  THEN Contribution(Rules[bonus.rule], call.game, call.amount)
  ELSE 0

\* What a call adds to the progress of a bonus.
Added(call, bonus) == IF call.kind = "wager" THEN Counts(call, bonus) ELSE 0

\* What worker w adds to each bonus of a set.
Shares(w, ids, rows) ==
  [i \in Ids |-> IF i \in ids THEN Added(job[w], rows[i]) ELSE 0]

Plus(f, g) == [i \in Ids |-> f[i] + g[i]]

\* The rows a call writes: a wager leaves out those it does not contribute to.
Load(w) ==
  /\ pc[w] = "load"
  /\ job[w].kind # "maxbet"
  /\ copy' = [copy EXCEPT ![w] = bonuses]
  /\ todo' = [todo EXCEPT ![w] =
       {i \in Ids : /\ Selected(job[w], i)
                    /\ job[w].kind = "wager" => Counts(job[w], bonuses[i]) # 0}]
  /\ due' = Plus(due, Shares(w, todo'[w], bonuses))
  /\ pc' = [pc EXCEPT ![w] = "write"]
  /\ UNCHANGED <<bonuses, wagered, missed, miscounts, today, calls, job, reply>>

LoadFails(w) ==
  /\ pc[w] = "load"
  /\ "lookup" \in Faults
  /\ Return(w, "error")
  /\ UNCHANGED store

CheckMaxBet(w) ==
  /\ pc[w] = "load"
  /\ job[w].kind = "maxbet"
  /\ Return(w, IF \E i \in Ids :
                    /\ Selected(job[w], i)
                    /\ bonuses[i].rule \in DOMAIN Rules
                    /\ ExceedsLimit(Rules[bonuses[i].rule], bonuses[i], job[w].amount)
               THEN "error" ELSE "ok")
  /\ UNCHANGED store

\* Mutant of Written: wagering completes one cent early.
Written_Early(call, bonus) ==
  LET progress == bonus.progress + Added(call, bonus) IN
  [account |-> bonus.account, rule |-> bonus.rule, amount |-> bonus.amount,
   required |-> bonus.required, deposit |-> bonus.deposit,
   expires |-> bonus.expires, progress |-> progress,
   status |-> IF call.kind = "expire" THEN "expired"
              ELSE IF call.kind = "forfeit" THEN "forfeited"
              ELSE IF progress + 1 >= bonus.required THEN "completed"
              ELSE bonus.status]

\* The row a call stores in place of the one it read.
Written(call, bonus) ==
  LET progress == bonus.progress + Added(call, bonus) IN
  [account |-> bonus.account, rule |-> bonus.rule, amount |-> bonus.amount,
   required |-> bonus.required, deposit |-> bonus.deposit,
   expires |-> bonus.expires, progress |-> progress,
   status |-> IF call.kind = "expire" THEN "expired"
              ELSE IF call.kind = "forfeit" THEN "forfeited"
              ELSE IF progress >= bonus.required THEN "completed"
              ELSE bonus.status]

Update(w, i) ==
  /\ bonuses' = [bonuses EXCEPT ![i] = Written(job[w], copy[w][i])]
  /\ wagered' = [wagered EXCEPT ![i] = @ + Added(job[w], copy[w][i])]
  /\ UNCHANGED <<due, missed, miscounts>>

\* Rows that are not written.
Miss(w, ids) ==
  /\ missed' = Plus(missed, Shares(w, ids, copy[w]))
  /\ UNCHANGED <<bonuses, wagered, due, miscounts>>

Skip(w, i) ==
  /\ todo' = [todo EXCEPT ![w] = @ \ {i}]
  /\ UNCHANGED <<today, calls, pc, job, copy, reply>>

Write(w, i) ==
  /\ pc[w] = "write"
  /\ i \in todo[w]
  /\ Update(w, i)
  /\ Skip(w, i)

\* Mutants of WriteFails: a failed write is logged and skipped by all; it ends
\* any call, the rows behind it left out.
WriteFails_AllSkip(w, i) ==
  pc[w] = "write" /\ i \in todo[w] /\ "error" \in Faults /\ Miss(w, {i}) /\ Skip(w, i)

WriteFails_Ends(w, i) ==
  /\ pc[w] = "write"
  /\ i \in todo[w]
  /\ "error" \in Faults
  /\ Miss(w, {i})
  /\ Return(w, "error")

\* A failed write ends ForfeitBonus; the others log it and go on.
WriteFails(w, i) ==
  /\ pc[w] = "write"
  /\ i \in todo[w]
  /\ \/ "error" \in Faults /\ Miss(w, {i})
     \/ "lostReply" \in Faults /\ Update(w, i)
  /\ IF job[w].kind = "forfeit" THEN Return(w, "error") ELSE Skip(w, i)

Finish(w) ==
  /\ pc[w] = "write"
  /\ todo[w] = {}
  /\ Return(w, "ok")
  /\ UNCHANGED store

Crash(w) ==
  /\ "crash" \in Faults
  /\ pc[w] # "idle"
  /\ Miss(w, todo[w])
  /\ Return(w, "none")

NextDay ==
  /\ today < MaxDay
  /\ today' = today + 1
  /\ UNCHANGED <<store, calls, pc, job, copy, todo, reply>>

Next ==
  \/ \E w \in Workers :
       \/ \E call \in calls : Begin(w, call)
       \/ CheckPlayer(w)
       \/ CheckAbuse(w)
       \/ CheckOneTime(w)
       \/ Create(w)
       \/ Load(w)
       \/ LoadFails(w)
       \/ CheckMaxBet(w)
       \/ \E i \in todo[w] : Write(w, i) \/ WriteFails(w, i)
       \/ Finish(w)
       \/ Crash(w)
  \/ NextDay

Spec == Init /\ [][Next]_vars

-----------------------------------------------------------------------------
(* Properties.                                                             *)

CallKinds == {"award", "wager", "maxbet", "forfeit", "expire"}

\* Every variable has its shape, whatever the amounts of the calls.
TypeOK ==
  /\ bonuses \in Seq(Bonus)
  /\ today \in 0..MaxDay
  /\ \A tally \in {wagered, due, missed} :
       tally \in Seq(Int) /\ Len(tally) = Len(bonuses)
  /\ miscounts \in Nat
  /\ calls \subseteq Calls
  /\ pc \in [Workers -> {"idle", "player", "abuse", "count", "create", "load", "write"}]
  /\ job \in [Workers -> Calls \union {Null}]
  /\ copy \in [Workers -> Seq(Bonus)]
  /\ todo \in [Workers -> SUBSET Ids]
  /\ reply \in [Workers -> {"none", "ok", "error"}]

\* Whatever calls overlap, fail or die, the engine never credits wagering that
\* was not done, and never pays out a bonus early: the progress of a bonus is
\* at most what was wagered on it, a completed bonus was wagered in full, and
\* one that is still active was not (ProcessWager, the comparison with
\* WageringRequired after stale progress is overwritten).
ProgressEarned ==
  \A i \in Ids :
    LET bonus == bonuses[i] IN
    /\ bonus.progress <= wagered[i]
    /\ bonus.status = "completed" => bonus.progress >= bonus.required
    /\ bonus.status = "active" => bonus.progress < bonus.required \/ bonus.required <= 0

\* A one-time rule can be claimed more than once only by calls that overlap or
\* whose count failed: an account never holds more bonuses of it than there are
\* workers and failed counts (the count of AwardBonus precedes the insert, its
\* error is dropped, and nothing but the count prevents a second claim).
ClaimsBoundedByOverlap ==
  \A a \in Accounts, rule \in DOMAIN Rules :
    Rules[rule].oneTime =>
      Cardinality(Claims(a, rule)) <= Cardinality(Workers) + miscounts

\* The OneTime field: "can only be claimed once".
OneTimeOnce ==
  "count" \notin Faults =>
    \A a \in Accounts, rule \in DOMAIN Rules :
      Rules[rule].oneTime => Cardinality(Claims(a, rule)) <= 1

\* Nothing that a wager was to add to a bonus goes astray, or is added twice,
\* but where its Update failed, which ProcessWager logs and does not return, or
\* the process died before it: once no call is under way, the progress and
\* what was missed that way are all that was due.  Holds of calls that do not
\* overlap.
ProgressExact ==
  (\A w \in Workers : pc[w] = "idle") =>
    \A i \in Ids : bonuses[i].progress + missed[i] = due[i]

\* A ForfeitBonus that returns no error has taken every bonus of the account,
\* although it stops at the first write that fails.  Holds of calls that do
\* not overlap.
ForfeitTakesAll ==
  \A w \in Workers :
    /\ pc[w] = "idle"
    /\ reply[w] = "ok"
    /\ job[w].kind = "forfeit"
    => \A i \in Ids :
         bonuses[i].account = job[w].account => bonuses[i].status # "active"

\* Calls that do not overlap implement the life cycle of a bonus, through
\* failed writes, lost replies and crashes.
Row(bonus) ==
  [account |-> bonus.account, rule |-> bonus.rule, amount |-> bonus.amount,
   required |-> bonus.required, progress |-> bonus.progress,
   status |-> bonus.status]

Rows == [i \in Ids |-> Row(bonuses[i])]

LC == INSTANCE BonusLifeCycle WITH
        rows <- Rows,
        OneTimeRules <- {id \in DOMAIN Rules : Rules[id].oneTime},
        OpeningRows <- [i \in 1..Len(OpeningBonuses) |-> Row(OpeningBonuses[i])]

RefinesBonusLifeCycle == LC!Spec
=============================================================================
