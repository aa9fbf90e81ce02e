------------------------------- MODULE Scoring ------------------------------
(***************************************************************************)
(* The fraud scoring engine, services/risk/internal/scoring/engine.go, over *)
(* the feature store: Score collects features from three sources that may  *)
(* each fail, applies the rules, asks the model, and compares the result   *)
(* with thresholds that SetThresholds may be changing.                     *)
(*                                                                         *)
(* The ClickHouse features, the IP intelligence and the model have no      *)
(* implementation behind these interfaces in the source; they answer from  *)
(* given sets.                                                             *)
(***************************************************************************)
EXTENDS FeatureStore

CONSTANTS
  Scorers,          \* goroutines in Score
  Requests,         \* records [txType, large, ids]: large exceeds
                    \* LargeDepositAmount; ids are what the blacklist may hold
  BatchRows,        \* answers of GetBatchFeatures
  MLPercents,       \* answers of the model, in percent and never NaN; {} when
                    \* it is nil
  Settings,         \* thresholds: records [block, review]
  MaxTxPerMinute, MaxDevicesPerDay, MaxIPsPerDay, NewAccountDays,
  Unavailable       \* sources that may fail

ASSUME SettingsAssumption ==
  Settings \subseteq [block : Nat, review : Nat] /\ None \notin Settings

ASSUME AnswersAssumption ==
  /\ MLPercents \subseteq 0..100
  /\ {MaxTxPerMinute, MaxDevicesPerDay, MaxIPsPerDay, NewAccountDays} \subseteq Nat
  /\ Unavailable \subseteq {"store", "batch", "ip", "blacklist", "model"}

VARIABLES
  config,       \* the thresholds as they are stored
  inForce,      \* history: the thresholds that were last set
  tuning,       \* what SetThresholds is storing; None when it is not
  blacklist,    \* identifiers on the blacklist
  stage,        \* where each Score is
  request,      \* what it scores
  pending,      \* sources it waits for
  features,     \* what they answered
  reasons,      \* reason codes
  score,        \* rule score, then final score
  action,       \* the decision
  seen,         \* history: thresholds in force while it decides
  countedAt,    \* history: when the transactions were counted, or Never
  blind         \* history: it was told of no last transaction

engine == <<config, inForce, tuning, blacklist>>
scorers == <<stage, request, pending, features, reasons, score, action, seen,
             countedAt, blind>>
vars == <<storeVars, engine, scorers>>

\* A feature that no source fills in is zero.
NoFeatures ==
  [count |-> 0, devices |-> 0, ips |-> 0, sinceLast |-> 0, accountAge |-> 0, deposits |-> 0,
   withdrawals |-> 0, depositCount |-> 0, bonusOnly |-> FALSE, anonymous |-> FALSE]

Sources == {"history", "counters", "batch", "ip"}

Init ==
  /\ StoreInit
  /\ config \in Settings
  /\ inForce = config
  /\ tuning = None
  /\ blacklist = {}
  /\ stage = [s \in Scorers |-> "idle"]
  /\ request = [s \in Scorers |-> None]
  /\ pending = [s \in Scorers |-> {}]
  /\ features = [s \in Scorers |-> NoFeatures]
  /\ reasons = [s \in Scorers |-> {}]
  /\ score = [s \in Scorers |-> 0]
  /\ action = [s \in Scorers |-> "none"]
  /\ seen = [s \in Scorers |-> {}]
  /\ countedAt = [s \in Scorers |-> Never]
  /\ blind = [s \in Scorers |-> TRUE]

-----------------------------------------------------------------------------
(* extractFeatures: three goroutines, one of which sends a pipeline to     *)
(* Redis and assigns its answers only when none of its commands failed.    *)

Score(s, r) ==
  /\ stage[s] \in {"idle", "done"}
  /\ stage' = [stage EXCEPT ![s] = "extract"]
  /\ request' = [request EXCEPT ![s] = r]
  /\ pending' = [pending EXCEPT ![s] = Sources]
  /\ reasons' = [reasons EXCEPT ![s] = {}]
  /\ score' = [score EXCEPT ![s] = 0]
  /\ action' = [action EXCEPT ![s] = "none"]
  /\ seen' = [seen EXCEPT ![s] = {}]
  /\ countedAt' = [countedAt EXCEPT ![s] = Never]
  /\ blind' = [blind EXCEPT ![s] = TRUE]
  /\ UNCHANGED <<storeVars, engine, features>>

Answer(s, sources, f) ==
  /\ stage[s] = "extract"
  /\ sources \subseteq pending[s]
  /\ pending' = [pending EXCEPT ![s] = @ \ sources]
  /\ features' = [features EXCEPT ![s] = f]
  /\ UNCHANGED <<storeVars, engine, stage, request, reasons, score, action, seen>>

CountTransactions(s) ==
  /\ Answer(s, {"history"}, [features[s] EXCEPT !.count = TxCount(Minute)])
  /\ countedAt' = [countedAt EXCEPT ![s] = now]
  /\ UNCHANGED blind

ReadCounters(s) ==
  /\ "history" \notin pending[s]
  /\ Answer(s, {"counters"},
            [features[s] EXCEPT !.devices = PFCount("devices"), !.ips = PFCount("ips"),
                                !.sinceLast = TimeSinceLastTx])
  /\ blind' = [blind EXCEPT ![s] = lastTx = 0]
  /\ UNCHANGED countedAt

StoreFails(s) ==
  /\ "store" \in Unavailable
  /\ "counters" \in pending[s]
  /\ Answer(s, pending[s] \intersect {"history", "counters"}, [features[s] EXCEPT !.count = 0])
  /\ countedAt' = [countedAt EXCEPT ![s] = Never]
  /\ UNCHANGED blind

\* Total deposits under 5000 cents after more than three bonuses.
BonusOnlyPlayer(b) == b.claims > 3 /\ b.deposits < 5000

GetBatchFeatures(s) ==
  /\ \/ \E b \in BatchRows :
          Answer(s, {"batch"},
                 [features[s] EXCEPT !.accountAge = b.accountAge, !.deposits = b.deposits,
                    !.withdrawals = b.withdrawals, !.depositCount = b.depositCount,
                    !.bonusOnly = BonusOnlyPlayer(b)])
     \/ "batch" \in Unavailable /\ Answer(s, {"batch"}, features[s])
  /\ UNCHANGED <<countedAt, blind>>

\* A VPN, a proxy or Tor: the rules tell them apart no further.
AnalyzeIP(s) ==
  /\ \/ \E anonymous \in BOOLEAN :
          Answer(s, {"ip"}, [features[s] EXCEPT !.anonymous = anonymous])
     \/ "ip" \in Unavailable /\ Answer(s, {"ip"}, features[s])
  /\ UNCHANGED <<countedAt, blind>>

-----------------------------------------------------------------------------
(* applyRules.                                                             *)

RuleCodes ==
  {"HIGH_VELOCITY", "NEW_ACCOUNT_LARGE_TX", "MULTIPLE_DEVICES",
   "IP_COUNTRY_MISMATCH", "VPN_DETECTED", "RAPID_DEPOSIT_WITHDRAW",
   "BONUS_ABUSE", "KNOWN_FRAUDSTER"}

Weight(code) ==
  IF code \in {"MULTIPLE_DEVICES", "VPN_DETECTED"} THEN 15
  ELSE IF code \in {"HIGH_VELOCITY", "BONUS_ABUSE"} THEN 20
  ELSE IF code \in {"IP_COUNTRY_MISMATCH", "RAPID_DEPOSIT_WITHDRAW"} THEN 25
  ELSE IF code = "NEW_ACCOUNT_LARGE_TX" THEN 30
  ELSE 50

\* Mutant of RapidWithdraw: off by one at five minutes.
RapidWithdraw_Late(r, f) ==
  /\ f.sinceLast <= Rapid
  /\ r.txType = "withdraw"
  /\ f.depositCount > 0
  /\ f.withdrawals > (f.deposits * 80) \div 100

RapidWithdraw(r, f) ==
  /\ f.sinceLast < Rapid
  /\ r.txType = "withdraw"
  /\ f.depositCount > 0
  /\ f.withdrawals > (f.deposits * 80) \div 100

Triggered(r, f, listed) ==
  {code \in RuleCodes :
     \/ code = "HIGH_VELOCITY" /\ f.count > MaxTxPerMinute
     \/ code = "NEW_ACCOUNT_LARGE_TX" /\ f.accountAge < NewAccountDays /\ r.large
     \/ code = "MULTIPLE_DEVICES" /\ f.devices > MaxDevicesPerDay
     \/ code = "IP_COUNTRY_MISMATCH" /\ f.ips > MaxIPsPerDay
     \/ code = "VPN_DETECTED" /\ f.anonymous
     \/ code = "RAPID_DEPOSIT_WITHDRAW" /\ RapidWithdraw(r, f)
     \/ code = "BONUS_ABUSE" /\ f.bonusOnly
     \/ code = "KNOWN_FRAUDSTER" /\ listed}

Sum(codes) ==
  LET points(code) == IF code \in codes THEN Weight(code) ELSE 0 IN
  points("HIGH_VELOCITY") + points("NEW_ACCOUNT_LARGE_TX")
    + points("MULTIPLE_DEVICES") + points("IP_COUNTRY_MISMATCH")
    + points("VPN_DETECTED") + points("RAPID_DEPOSIT_WITHDRAW")
    + points("BONUS_ABUSE") + points("KNOWN_FRAUDSTER")

\* Mutant of RuleScore: no cap.
RuleScore_Uncapped(codes) == Sum(codes)

RuleScore(codes) == Min({100, Sum(codes)})

CheckBlacklist(r) == r.ids \intersect blacklist # {}

\* The error of the blacklist is dropped: it reads as not listed.
ApplyRules(s) ==
  /\ stage[s] = "extract"
  /\ pending[s] = {}
  /\ \E listed \in {CheckBlacklist(request[s])}
                     \union (IF "blacklist" \in Unavailable THEN {FALSE} ELSE {}) :
       LET codes == Triggered(request[s], features[s], listed) IN
       /\ reasons' = [reasons EXCEPT ![s] = codes]
       /\ score' = [score EXCEPT ![s] = RuleScore(codes)]
  /\ request' = [request EXCEPT ![s] = None]           \* read no more
  /\ features' = [features EXCEPT ![s] = NoFeatures]
  /\ stage' = [stage EXCEPT ![s] = "predict"]
  /\ UNCHANGED <<storeVars, engine, pending, action, seen, countedAt, blind>>

-----------------------------------------------------------------------------
(* The model, the ensemble and the decision.                               *)

\* Weights 0.4 and 0.6; the result is truncated.
FinalScore(rules, ml) == Min({100, (40 * rules + 60 * ml) \div 100})

Predict(s) ==
  /\ stage[s] = "predict"
  /\ \E ml \in MLPercents
                 \union (IF MLPercents = {} THEN {0} ELSE {})
                 \union (IF MLPercents # {} /\ "model" \in Unavailable THEN {50} ELSE {}) :
       /\ score' = [score EXCEPT ![s] = FinalScore(@, ml)]
       /\ reasons' = [reasons EXCEPT ![s] =
                        @ \union (IF ml > 70 THEN {"ML_HIGH_RISK"} ELSE {})]
  /\ stage' = [stage EXCEPT ![s] = "block"]
  /\ seen' = [seen EXCEPT ![s] = {inForce, tuning} \ {None}]
  /\ UNCHANGED <<storeVars, engine, request, pending, features, action, countedAt, blind>>

\* Mutant of Reaches: a threshold must be exceeded.
Reaches_Exceeds(n, threshold) == n > threshold

Reaches(n, threshold) == n >= threshold

Decide(s, a) ==
  /\ action' = [action EXCEPT ![s] = a]
  /\ stage' = [stage EXCEPT ![s] = "done"]

\* The two thresholds are read one after the other, without the lock.
CompareBlock(s) ==
  /\ stage[s] = "block"
  /\ IF Reaches(score[s], config.block)
     THEN Decide(s, "block")
     ELSE stage' = [stage EXCEPT ![s] = "review"] /\ UNCHANGED action
  /\ UNCHANGED <<storeVars, engine, request, pending, features, reasons, score, seen,
                 countedAt, blind>>

CompareReview(s) ==
  /\ stage[s] = "review"
  /\ Decide(s, IF Reaches(score[s], config.review) THEN "review" ELSE "approve")
  /\ UNCHANGED <<storeVars, engine, request, pending, features, reasons, score, seen,
                 countedAt, blind>>

-----------------------------------------------------------------------------
(* SetThresholds, one caller at a time under the lock, and AddToBlacklist. *)

SetBlock(p) ==
  /\ tuning = None
  /\ p # inForce
  /\ tuning' = p
  /\ config' = [config EXCEPT !.block = p.block]
  /\ seen' = [s \in Scorers |->
                IF stage[s] \in {"block", "review"} THEN seen[s] \union {p} ELSE seen[s]]
  /\ UNCHANGED <<storeVars, inForce, blacklist, stage, request, pending, features, reasons,
                 score, action, countedAt, blind>>

SetReview ==
  /\ tuning # None
  /\ config' = [config EXCEPT !.review = tuning.review]
  /\ inForce' = tuning
  /\ tuning' = None
  /\ UNCHANGED <<storeVars, blacklist, scorers>>

AddToBlacklist(id) ==
  /\ blacklist' = blacklist \union {id}
  /\ UNCHANGED <<storeVars, config, inForce, tuning, scorers>>

ScoreStep(s) ==
  \/ \E r \in Requests : Score(s, r)
  \/ CountTransactions(s)
  \/ ReadCounters(s)
  \/ StoreFails(s)
  \/ GetBatchFeatures(s)
  \/ AnalyzeIP(s)
  \/ ApplyRules(s)
  \/ Predict(s)
  \/ CompareBlock(s)
  \/ CompareReview(s)

Next ==
  \/ StoreNext /\ UNCHANGED <<engine, scorers>>
  \/ \E s \in Scorers : ScoreStep(s)
  \/ \E p \in Settings : SetBlock(p)
  \/ SetReview
  \/ \E r \in Requests : \E id \in r.ids : AddToBlacklist(id)

Spec == Init /\ [][Next]_vars

-----------------------------------------------------------------------------
(* Properties.                                                             *)

TypeOK ==
  /\ StoreTypeOK
  /\ config \in [block : Nat, review : Nat]
  /\ inForce \in Settings
  /\ tuning \in Settings \union {None}
  /\ tuning = None => config = inForce
  /\ blacklist \subseteq UNION {r.ids : r \in Requests}
  /\ stage \in [Scorers -> {"idle", "extract", "predict", "block", "review", "done"}]
  /\ request \in [Scorers -> Requests \union {None}]
  /\ pending \in [Scorers -> SUBSET Sources]
  /\ \A s \in Scorers : reasons[s] \subseteq RuleCodes \union {"ML_HIGH_RISK"}
  /\ score \in [Scorers -> 0..100]
  /\ action \in [Scorers -> {"none", "approve", "review", "block"}]
  /\ \A s \in Scorers : seen[s] \subseteq Settings
  /\ countedAt \in [Scorers -> 0..MaxTime]
  /\ blind \in [Scorers -> BOOLEAN]

\* High velocity is never a matter of delivery: more than MaxTxPerMinute
\* transactions took place within a minute of the count, however often and in
\* whatever order the store was told of them.
VelocityJustified ==
  \A s \in Scorers : "HIGH_VELOCITY" \in reasons[s] =>
    Cardinality({e \in Events : countedAt[s] - Minute <= e.ts /\ e.ts <= countedAt[s]})
      > MaxTxPerMinute

\* A withdrawal counts as rapid only if a transaction took place less than five
\* minutes before, or the store could name no last transaction at all: it was
\* down, had never heard of the account, or forgot it.
RapidJustified ==
  \A s \in Scorers : "RAPID_DEPOSIT_WITHDRAW" \in reasons[s] =>
    \/ blind[s]
    \/ \E e \in Events : countedAt[s] - Rapid < e.ts /\ e.ts <= now

\* Thresholds may change, and be read half changed, while a score is compared
\* with them; each comparison is still right by thresholds in force meanwhile.
DecisionJustified ==
  \A s \in Scorers :
    /\ action[s] = "block" => \E p \in seen[s] : score[s] >= p.block
    /\ action[s] = "review" => /\ \E p \in seen[s] : score[s] >= p.review
                               /\ \E p \in seen[s] : score[s] < p.block
    /\ action[s] = "approve" => /\ \E p \in seen[s] : score[s] < p.review
                                /\ \E p \in seen[s] : score[s] < p.block
=============================================================================
