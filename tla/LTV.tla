-------------------------------- MODULE LTV --------------------------------
(***************************************************************************)
(* The lifetime value predictor of the risk service,                       *)
(* services/risk/internal/prediction/ltv.go, and the other one, LTVModel   *)
(* of services/risk/internal/ml/onnx_model.go.                             *)
(*                                                                         *)
(* Scores, risks, rates and frequencies are hundredths; a value in dollars *)
(* is a fraction.  Sums of the code's constants are exact in hundredths    *)
(* for every comparison the code makes, but for the one that ExceedsThirty *)
(* spells out.                                                             *)
(***************************************************************************)
EXTENDS Integers

Features ==
  [registered : Nat, lastDeposit : Nat, lastBet : Nat, sessions : Nat,
   deposits : Nat, withdrawals : Nat, revenue : Int, depositRate : Nat,
   bets : Nat, games : Nat, bonuses : Nat, conversion : Nat,
   push : BOOLEAN, email : BOOLEAN, vipManager : BOOLEAN, tickets : Nat]

Segments == {"vip", "high", "medium", "low", "churning"}

vipThreshold == 10000
highThreshold == 1000
mediumThreshold == 100
churnInactiveDays == 14   \* read by nothing

Part(condition, n) == IF condition THEN n ELSE 0

AtMost(n, max) == IF n > max THEN max ELSE n

-----------------------------------------------------------------------------
(* LTVPredictor                                                            *)

Recency(f) ==
  IF f.lastBet < 3 THEN 30
  ELSE IF f.lastBet < 7 THEN 20
  ELSE Part(f.lastBet < 14, 10)

\* The steps of the session and of the deposit frequency.
Frequency(rate, often, sometimes) ==
  IF rate >= often THEN 20
  ELSE IF rate >= sometimes THEN 15
  ELSE Part(rate >= 100, 10)

calculateEngagementScore(f) ==
  AtMost(Recency(f) + Frequency(f.sessions, 500, 300)
         + Frequency(f.depositRate, 400, 200)
         + Part(f.push, 10) + Part(f.email, 10) + Part(f.vipManager, 10),
         100)

Inactivity(f) ==
  IF f.lastBet > 30 THEN 50
  ELSE IF f.lastBet > 14 THEN 30
  ELSE Part(f.lastBet > 7, 15)

calculateChurnRisk(f) ==
  AtMost(Inactivity(f)
         + Part(f.sessions < 100 /\ f.registered > 30, 20)
         + Part(f.lastDeposit > 30, 20) + Part(f.tickets > 3, 10)
         + Part(f.withdrawals > f.deposits, 10), 100)

\* churnRisk > 0.3: of the sums that make 30 hundredths, 0.2 + 0.1 is a float
\* above 0.3, and 0.3 itself is not.
ExceedsThirty(f) ==
  \/ calculateChurnRisk(f) > 30
  \/ calculateChurnRisk(f) = 30 /\ f.lastBet <= 14

\* A new player's value is a year at the rate so far; to the revenue of an
\* established one up to a year at that rate is added: 12 months of 30 days
\* times E hundredths are 18 E / 5 days.
calculateLTV(f) ==
  IF f.registered < 30
  THEN [num |-> 360 * f.revenue,
        den |-> IF f.registered > 1 THEN f.registered ELSE 1]
  ELSE [num |-> f.revenue
                  * (5 * f.registered + 18 * calculateEngagementScore(f)),
        den |-> 5 * f.registered]

AdjustedLTV(f) ==
  [num |-> calculateLTV(f).num * (200 - calculateChurnRisk(f)),
   den |-> calculateLTV(f).den * 200]

Reaches(value, threshold) == value.num >= threshold * value.den

determineSegment(ltv, churnRisk) ==
  IF churnRisk > 70 THEN "churning"
  ELSE IF Reaches(ltv, vipThreshold) THEN "vip"
  ELSE IF Reaches(ltv, highThreshold) THEN "high"
  ELSE IF Reaches(ltv, mediumThreshold) THEN "medium"
  ELSE "low"

Segment(f) == determineSegment(AdjustedLTV(f), calculateChurnRisk(f))

\* The days the float may be truncated to: of an exact number of days it may
\* lack the last bit.
predictSurvival(f) ==
  LET days == 9 * ((100 + calculateEngagementScore(f))
                     * (100 - calculateChurnRisk(f)))
      whole == days \div 1000
  IN  {whole} \union (IF whole > 0 /\ whole * 1000 = days THEN {whole - 1} ELSE {})

getNextBestAction(f) ==
  IF Segment(f) = "churning"
  THEN IF f.revenue > 0 THEN "SEND_WINBACK_BONUS" ELSE "SEND_ENGAGEMENT_EMAIL"
  ELSE IF Segment(f) = "vip"
  THEN IF f.lastDeposit > 7 THEN "VIP_MANAGER_CALL" ELSE "EXCLUSIVE_EVENT_INVITE"
  ELSE IF Segment(f) = "high"
  THEN IF ~f.vipManager THEN "ASSIGN_VIP_MANAGER"
       ELSE IF ExceedsThirty(f) THEN "RETENTION_BONUS" ELSE "LOYALTY_REWARD"
  ELSE IF Segment(f) = "medium"
  THEN IF f.bonuses < 3 THEN "SUGGEST_BONUS"
       ELSE IF f.games < 5 THEN "RECOMMEND_NEW_GAMES" ELSE "STANDARD_PROMOTION"
  ELSE IF f.registered < 7 THEN "ONBOARDING_GUIDE"
  ELSE IF f.conversion > 80 THEN "NO_ACTION" ELSE "SMALL_DEPOSIT_BONUS"

calculateConfidence(f) ==
  AtMost((IF f.registered > 90 THEN 30 ELSE IF f.registered > 30 THEN 20 ELSE 10)
         + (IF f.bets > 100 THEN 30 ELSE IF f.bets > 20 THEN 20 ELSE 10)
         + (IF f.depositRate > 200 THEN 20 ELSE Part(f.depositRate > 0, 10))
         + (IF f.lastBet < 7 THEN 20 ELSE Part(f.lastBet < 30, 10)), 100)

\* known is what the data source answers: the features of some accounts.
\* Those it fails for are left out of the batch.
BatchPredict(ids, known) == ids \intersect DOMAIN known

SegmentPlayers(ids, known) ==
  [s \in Segments |-> {id \in BatchPredict(ids, known) : Segment(known[id]) = s}]

-----------------------------------------------------------------------------
(* LTVModel                                                                *)

ModelEngagement(f) ==
  AtMost((IF f.lastBet < 3 THEN 30 ELSE Part(f.lastBet < 7, 20))
         + (IF f.sessions >= 500 THEN 20 ELSE Part(f.sessions >= 300, 15))
         + (IF f.depositRate >= 400 THEN 20 ELSE Part(f.depositRate >= 200, 15))
         + Part(f.games >= 10, 15) + Part(f.conversion > 50, 15), 100)

ModelChurnRisk(f) ==
  AtMost((IF f.lastBet > 30 THEN 50 ELSE Part(f.lastBet > 14, 30))
         + Part(f.lastDeposit > 30, 20)
         + Part(f.sessions < 100 /\ f.registered > 30, 20), 100)

ModelLTV(f) ==
  LET days == IF f.registered < 1 THEN 1 ELSE f.registered IN
  [num |-> f.revenue * (5 * days + 18 * ModelEngagement(f))
             * (200 - ModelChurnRisk(f)),
   den |-> 5 * days * 200]
=============================================================================
