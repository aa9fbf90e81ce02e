-------------------------- MODULE PredictionProofs --------------------------
(***************************************************************************)
(* Theorems about the pure computations of the risk service, for every     *)
(* feature vector: the fraud model and the lifetime value predictors.      *)
(***************************************************************************)
EXTENDS FraudModel, LTV, TLAPS

-----------------------------------------------------------------------------
(* The fraud model.                                                        *)

\* A score lies between 0 and 1 whatever signals coincide, whatever number the
\* runtime answers and whether or not it fails (Predict, mockPredict,
\* PredictBatch).  Only its NaN passes the clamp, and the caller is given it.
THEOREM ScoreBounded ==
  ASSUME NEW f \in Vector, NEW hasSession \in BOOLEAN,
         NEW output \in Int \union {Failed, NaN}
  PROVE  IF hasSession /\ output = NaN
         THEN BatchScore(hasSession, output, f) = NaN
         ELSE BatchScore(hasSession, output, f) \in 0..100
<1> DEFINE g == Normalize(f)
<1>1. mockPredict(g) \in 0..100
  BY DEF mockPredict, Clamp, Points
<1>2. CASE ~hasSession
  <2>1. Predict(hasSession, output, f).score = mockPredict(g)
    BY <1>2 DEF Predict, Score
  <2>. QED  BY <1>1, <1>2, <2>1 DEF BatchScore, Failed
<1>3. CASE hasSession /\ output = Failed
  BY <1>3 DEF Predict, Score, BatchScore, Failed, NaN
<1>4. CASE hasSession /\ output = NaN
  BY <1>4 DEF Predict, Score, BatchScore, Failed, NaN
<1>5. CASE hasSession /\ output \notin {Failed, NaN}
  <2>1. output \in Int
    BY <1>5
  <2>2. Predict(hasSession, output, f).score
          = IF output < 0 THEN 0 ELSE Clamp(output, 100)
    BY <1>5 DEF Predict, Score
  <2>3. Predict(hasSession, output, f).score \in 0..100
    BY <2>1, <2>2 DEF Clamp
  <2>4. BatchScore(hasSession, output, f) \in 0..100
    BY <2>3 DEF BatchScore
  <2>. QED  BY <1>5, <2>4
<1>. QED  BY <1>2, <1>3, <1>4, <1>5

\* What minMaxScale makes of a raw feature, against each threshold.
LEMMA ScaleOnce ==
  ASSUME NEW x \in Raw
  PROVE  /\ Above(minMaxScale(x, 20), 50) <=> x.num > 10
         /\ Above(minMaxScale(x, 200), 50) <=> x.num > 100
         /\ Above(minMaxScale(x, 10), 30) <=> x.num > 3
         /\ Above(minMaxScale(x, 20), 25) <=> x.num > 5
         /\ Below(minMaxScale(x, 365), 2) <=> x.num <= 7
         /\ Below(minMaxScale(x, 86400), 1) <=> x.num < 864
<1>1. x.num \in Nat /\ x.den = 1 /\ x = [num |-> x.num, den |-> 1]
  BY DEF Raw
<1>2. Above(minMaxScale(x, 20), 50) <=> x.num > 10
  BY <1>1 DEF minMaxScale, Above, Whole
<1>3. Above(minMaxScale(x, 200), 50) <=> x.num > 100
  BY <1>1 DEF minMaxScale, Above, Whole
<1>4. Above(minMaxScale(x, 10), 30) <=> x.num > 3
  BY <1>1 DEF minMaxScale, Above, Whole
<1>5. Above(minMaxScale(x, 20), 25) <=> x.num > 5
  BY <1>1 DEF minMaxScale, Above, Whole
<1>6. Below(minMaxScale(x, 365), 2) <=> x.num <= 7
  BY <1>1 DEF minMaxScale, Below, Whole
<1>7. Below(minMaxScale(x, 86400), 1) <=> x.num < 864
  BY <1>1 DEF minMaxScale, Below, Whole
<1>. QED  BY <1>2, <1>3, <1>4, <1>5, <1>6, <1>7

\* What a second minMaxScale leaves of one.
LEMMA ScaleTwice ==
  ASSUME NEW x \in Raw
  PROVE  /\ ~Above(minMaxScale(minMaxScale(x, 20), 20), 50)
         /\ ~Above(minMaxScale(minMaxScale(x, 200), 200), 50)
         /\ ~Above(minMaxScale(minMaxScale(x, 10), 10), 30)
         /\ ~Above(minMaxScale(minMaxScale(x, 20), 20), 25)
         /\ Below(minMaxScale(minMaxScale(x, 365), 365), 2)
         /\ Below(minMaxScale(minMaxScale(x, 86400), 86400), 1)
<1>1. x.num \in Nat /\ x.den = 1 /\ x = [num |-> x.num, den |-> 1]
  BY DEF Raw
<1>2. ~Above(minMaxScale(minMaxScale(x, 20), 20), 50)
  <2>1. CASE x.num > 20
    <3>1. minMaxScale(x, 20) = [num |-> 1, den |-> 1]
      BY <1>1, <2>1 DEF minMaxScale, Whole
    <3>2. minMaxScale([num |-> 1, den |-> 1], 20) = [num |-> 1, den |-> 20]
      BY DEF minMaxScale
    <3>. QED  BY <3>1, <3>2 DEF Above
  <2>2. CASE ~(x.num > 20)
    <3> DEFINE n == x.num
    <3>1. minMaxScale(x, 20) = [num |-> n, den |-> 20]
      BY <1>1, <2>2 DEF minMaxScale
    <3>2. minMaxScale([num |-> n, den |-> 20], 20) = [num |-> n, den |-> 20 * 20]
      BY <1>1, <2>2 DEF minMaxScale
    <3>3. ~Above([num |-> n, den |-> 20 * 20], 50)
      BY <1>1, <2>2 DEF Above
    <3>. QED  BY <3>1, <3>2, <3>3
  <2>. QED  BY <2>1, <2>2
<1>3. ~Above(minMaxScale(minMaxScale(x, 200), 200), 50)
  <2>1. CASE x.num > 200
    <3>1. minMaxScale(x, 200) = [num |-> 1, den |-> 1]
      BY <1>1, <2>1 DEF minMaxScale, Whole
    <3>2. minMaxScale([num |-> 1, den |-> 1], 200) = [num |-> 1, den |-> 200]
      BY DEF minMaxScale
    <3>. QED  BY <3>1, <3>2 DEF Above
  <2>2. CASE ~(x.num > 200)
    <3> DEFINE n == x.num
    <3>1. minMaxScale(x, 200) = [num |-> n, den |-> 200]
      BY <1>1, <2>2 DEF minMaxScale
    <3>2. minMaxScale([num |-> n, den |-> 200], 200) = [num |-> n, den |-> 200 * 200]
      BY <1>1, <2>2 DEF minMaxScale
    <3>3. ~Above([num |-> n, den |-> 200 * 200], 50)
      BY <1>1, <2>2 DEF Above
    <3>. QED  BY <3>1, <3>2, <3>3
  <2>. QED  BY <2>1, <2>2
<1>4. ~Above(minMaxScale(minMaxScale(x, 10), 10), 30)
  <2>1. CASE x.num > 10
    <3>1. minMaxScale(x, 10) = [num |-> 1, den |-> 1]
      BY <1>1, <2>1 DEF minMaxScale, Whole
    <3>2. minMaxScale([num |-> 1, den |-> 1], 10) = [num |-> 1, den |-> 10]
      BY DEF minMaxScale
    <3>. QED  BY <3>1, <3>2 DEF Above
  <2>2. CASE ~(x.num > 10)
    <3> DEFINE n == x.num
    <3>1. minMaxScale(x, 10) = [num |-> n, den |-> 10]
      BY <1>1, <2>2 DEF minMaxScale
    <3>2. minMaxScale([num |-> n, den |-> 10], 10) = [num |-> n, den |-> 10 * 10]
      BY <1>1, <2>2 DEF minMaxScale
    <3>3. ~Above([num |-> n, den |-> 10 * 10], 30)
      BY <1>1, <2>2 DEF Above
    <3>. QED  BY <3>1, <3>2, <3>3
  <2>. QED  BY <2>1, <2>2
<1>5. ~Above(minMaxScale(minMaxScale(x, 20), 20), 25)
  <2>1. CASE x.num > 20
    <3>1. minMaxScale(x, 20) = [num |-> 1, den |-> 1]
      BY <1>1, <2>1 DEF minMaxScale, Whole
    <3>2. minMaxScale([num |-> 1, den |-> 1], 20) = [num |-> 1, den |-> 20]
      BY DEF minMaxScale
    <3>. QED  BY <3>1, <3>2 DEF Above
  <2>2. CASE ~(x.num > 20)
    <3> DEFINE n == x.num
    <3>1. minMaxScale(x, 20) = [num |-> n, den |-> 20]
      BY <1>1, <2>2 DEF minMaxScale
    <3>2. minMaxScale([num |-> n, den |-> 20], 20) = [num |-> n, den |-> 20 * 20]
      BY <1>1, <2>2 DEF minMaxScale
    <3>3. ~Above([num |-> n, den |-> 20 * 20], 25)
      BY <1>1, <2>2 DEF Above
    <3>. QED  BY <3>1, <3>2, <3>3
  <2>. QED  BY <2>1, <2>2
<1>6. Below(minMaxScale(minMaxScale(x, 365), 365), 2)
  <2>1. CASE x.num > 365
    <3>1. minMaxScale(x, 365) = [num |-> 1, den |-> 1]
      BY <1>1, <2>1 DEF minMaxScale, Whole
    <3>2. minMaxScale([num |-> 1, den |-> 1], 365) = [num |-> 1, den |-> 365]
      BY DEF minMaxScale
    <3>. QED  BY <3>1, <3>2 DEF Below
  <2>2. CASE ~(x.num > 365)
    <3> DEFINE n == x.num
    <3>1. minMaxScale(x, 365) = [num |-> n, den |-> 365]
      BY <1>1, <2>2 DEF minMaxScale
    <3>2. minMaxScale([num |-> n, den |-> 365], 365) = [num |-> n, den |-> 365 * 365]
      BY <1>1, <2>2 DEF minMaxScale
    <3>3. Below([num |-> n, den |-> 365 * 365], 2)
      BY <1>1, <2>2 DEF Below
    <3>. QED  BY <3>1, <3>2, <3>3
  <2>. QED  BY <2>1, <2>2
<1>7. Below(minMaxScale(minMaxScale(x, 86400), 86400), 1)
  <2>1. CASE x.num > 86400
    <3>1. minMaxScale(x, 86400) = [num |-> 1, den |-> 1]
      BY <1>1, <2>1 DEF minMaxScale, Whole
    <3>2. minMaxScale([num |-> 1, den |-> 1], 86400) = [num |-> 1, den |-> 86400]
      BY DEF minMaxScale
    <3>. QED  BY <3>1, <3>2 DEF Below
  <2>2. CASE ~(x.num > 86400)
    <3> DEFINE n == x.num
    <3>1. minMaxScale(x, 86400) = [num |-> n, den |-> 86400]
      BY <1>1, <2>2 DEF minMaxScale
    <3>2. minMaxScale([num |-> n, den |-> 86400], 86400) = [num |-> n, den |-> 86400 * 86400]
      BY <1>1, <2>2 DEF minMaxScale
    <3>3. Below([num |-> n, den |-> 86400 * 86400], 1)
      BY <1>1, <2>2 DEF Below
    <3>. QED  BY <3>1, <3>2, <3>3
  <2>. QED  BY <2>1, <2>2
<1>. QED  BY <1>2, <1>3, <1>4, <1>5, <1>6, <1>7

\* The fields of a raw vector and of what Normalize makes of it.
LEMMA RawFields ==
  ASSUME NEW f \in RawVector
  PROVE  /\ f.txCount1Min \in Raw /\ f.txCount1Hour \in Raw
         /\ f.devices \in Raw /\ f.ips \in Raw /\ f.accountAge \in Raw
         /\ f.sinceLastTx \in Raw /\ f.deposits \in Raw
         /\ f.withdrawals \in Raw /\ f.txAmount \in Raw
         /\ f.txCount1Min.num \in Nat /\ f.txCount1Hour.num \in Nat
         /\ f.devices.num \in Nat /\ f.ips.num \in Nat
         /\ f.accountAge.num \in Nat /\ f.sinceLastTx.num \in Nat
         /\ f.deposits.num \in Nat /\ f.withdrawals.num \in Nat
         /\ f.txAmount.num \in Nat
BY DEF RawVector, Raw

\* A raw amount is its own logarithm.
LEMMA LogRaw ==
  ASSUME NEW x \in Raw
  PROVE  logTransform(x) = x
BY DEF logTransform, Raw, Whole

\* The thresholds that the comments of mockPredict give for the normalised
\* features, in the units of the raw ones.  An account is new for 7 whole days,
\* a withdrawal rapid for 864 seconds where the comment says 15 minutes, and,
\* as log1p is the identity, an amount is large from 1 on.
THEOREM RawThresholds ==
  ASSUME NEW f \in RawVector
  PROVE  LET g == Normalize(f) IN
         /\ HighVelocity(g) <=> f.txCount1Min.num > 10
         /\ SustainedVelocity(g) <=> f.txCount1Hour.num > 100
         /\ ManyDevices(g) <=> f.devices.num > 3
         /\ ManyIPs(g) <=> f.ips.num > 5
         /\ NewAccountLargeTx(g) <=>
              f.accountAge.num <= 7 /\ f.txAmount.num >= 1
         /\ RapidWithdraw(g) <=>
              /\ f.sinceLastTx.num < 864
              /\ f.withdraw
              /\ 10 * f.withdrawals.num > 8 * f.deposits.num
<1> DEFINE g == Normalize(f)
<1>1. HighVelocity(g) <=> f.txCount1Min.num > 10
  <2>1. g.txCount1Min = minMaxScale(f.txCount1Min, 20)
    BY DEF Normalize
  <2>2. f.txCount1Min \in Raw
    BY RawFields
  <2>. QED  BY <2>1, <2>2, ScaleOnce DEF HighVelocity
<1>2. SustainedVelocity(g) <=> f.txCount1Hour.num > 100
  <2>1. g.txCount1Hour = minMaxScale(f.txCount1Hour, 200)
    BY DEF Normalize
  <2>2. f.txCount1Hour \in Raw
    BY RawFields
  <2>. QED  BY <2>1, <2>2, ScaleOnce DEF SustainedVelocity
<1>3. ManyDevices(g) <=> f.devices.num > 3
  <2>1. g.devices = minMaxScale(f.devices, 10)
    BY DEF Normalize
  <2>2. f.devices \in Raw
    BY RawFields
  <2>. QED  BY <2>1, <2>2, ScaleOnce DEF ManyDevices
<1>4. ManyIPs(g) <=> f.ips.num > 5
  <2>1. g.ips = minMaxScale(f.ips, 20)
    BY DEF Normalize
  <2>2. f.ips \in Raw
    BY RawFields
  <2>. QED  BY <2>1, <2>2, ScaleOnce DEF ManyIPs
<1>5. Below(g.accountAge, 2) <=> f.accountAge.num <= 7
  <2>1. g.accountAge = minMaxScale(f.accountAge, 365)
    BY DEF Normalize
  <2>2. f.accountAge \in Raw
    BY RawFields
  <2>. QED  BY <2>1, <2>2, ScaleOnce
<1>6. Below(g.sinceLastTx, 1) <=> f.sinceLastTx.num < 864
  <2>1. g.sinceLastTx = minMaxScale(f.sinceLastTx, 86400)
    BY DEF Normalize
  <2>2. f.sinceLastTx \in Raw
    BY RawFields
  <2>. QED  BY <2>1, <2>2, ScaleOnce
<1>7. /\ g.txAmount = f.txAmount /\ g.deposits = f.deposits
      /\ g.withdrawals = f.withdrawals /\ g.withdraw = f.withdraw
  <2>1. \A v : /\ Normalize(v).txAmount = logTransform(v.txAmount)
               /\ Normalize(v).deposits = logTransform(v.deposits)
               /\ Normalize(v).withdrawals = logTransform(v.withdrawals)
               /\ Normalize(v).withdraw = v.withdraw
    BY DEF Normalize
  <2>2. /\ logTransform(f.txAmount) = f.txAmount
        /\ logTransform(f.deposits) = f.deposits
        /\ logTransform(f.withdrawals) = f.withdrawals
    BY RawFields, LogRaw
  <2>. QED  BY <2>1, <2>2
<1>8. \A x \in Raw : x.den = 1
  BY DEF Raw
<1>9. Above(g.txAmount, 50) <=> f.txAmount.num >= 1
  <2>1. f.txAmount.num \in Nat /\ f.txAmount.den = 1
    BY <1>8, RawFields
  <2>. QED  BY <1>7, <2>1 DEF Above
<1>. QED
  BY <1>1, <1>2, <1>3, <1>4, <1>5, <1>6, <1>7, <1>8, <1>9, RawFields
  DEF NewAccountLargeTx, RapidWithdraw

\* To predict the same vector again, as a retry does, is to predict another
\* player: the normalised vector is normalised again.  No velocity, device or
\* IP signal is left, every account is new and every withdrawal rapid.
THEOREM SecondPredictionForgets ==
  ASSUME NEW f \in RawVector, NEW hasSession, NEW output
  PROVE  LET g == Normalize(Predict(hasSession, output, f).vector) IN
         /\ ~HighVelocity(g) /\ ~SustainedVelocity(g)
         /\ ~ManyDevices(g) /\ ~ManyIPs(g)
         /\ NewAccountLargeTx(g) <=> f.txAmount.num >= 1
         /\ RapidWithdraw(g) <=>
              f.withdraw /\ 10 * f.withdrawals.num > 8 * f.deposits.num
<1> DEFINE g == Normalize(Normalize(f))
<1>0. Predict(hasSession, output, f).vector = Normalize(f)
  BY DEF Predict
<1>1. ~HighVelocity(g)
  <2>1. g.txCount1Min = minMaxScale(minMaxScale(f.txCount1Min, 20), 20)
    BY DEF Normalize
  <2>2. f.txCount1Min \in Raw
    BY RawFields
  <2>. QED  BY <2>1, <2>2, ScaleTwice DEF HighVelocity
<1>2. ~SustainedVelocity(g)
  <2>1. g.txCount1Hour = minMaxScale(minMaxScale(f.txCount1Hour, 200), 200)
    BY DEF Normalize
  <2>2. f.txCount1Hour \in Raw
    BY RawFields
  <2>. QED  BY <2>1, <2>2, ScaleTwice DEF SustainedVelocity
<1>3. ~ManyDevices(g)
  <2>1. g.devices = minMaxScale(minMaxScale(f.devices, 10), 10)
    BY DEF Normalize
  <2>2. f.devices \in Raw
    BY RawFields
  <2>. QED  BY <2>1, <2>2, ScaleTwice DEF ManyDevices
<1>4. ~ManyIPs(g)
  <2>1. g.ips = minMaxScale(minMaxScale(f.ips, 20), 20)
    BY DEF Normalize
  <2>2. f.ips \in Raw
    BY RawFields
  <2>. QED  BY <2>1, <2>2, ScaleTwice DEF ManyIPs
<1>5. Below(g.accountAge, 2)
  <2>1. g.accountAge = minMaxScale(minMaxScale(f.accountAge, 365), 365)
    BY DEF Normalize
  <2>2. f.accountAge \in Raw
    BY RawFields
  <2>. QED  BY <2>1, <2>2, ScaleTwice
<1>6. Below(g.sinceLastTx, 1)
  <2>1. g.sinceLastTx = minMaxScale(minMaxScale(f.sinceLastTx, 86400), 86400)
    BY DEF Normalize
  <2>2. f.sinceLastTx \in Raw
    BY RawFields
  <2>. QED  BY <2>1, <2>2, ScaleTwice
<1>7. /\ g.txAmount = f.txAmount /\ g.deposits = f.deposits
      /\ g.withdrawals = f.withdrawals /\ g.withdraw = f.withdraw
  <2>1. \A v : /\ Normalize(v).txAmount = logTransform(v.txAmount)
               /\ Normalize(v).deposits = logTransform(v.deposits)
               /\ Normalize(v).withdrawals = logTransform(v.withdrawals)
               /\ Normalize(v).withdraw = v.withdraw
    BY DEF Normalize
  <2>2. /\ logTransform(f.txAmount) = f.txAmount
        /\ logTransform(f.deposits) = f.deposits
        /\ logTransform(f.withdrawals) = f.withdrawals
    BY RawFields, LogRaw
  <2>. QED  BY <2>1, <2>2
<1>8. \A x \in Raw : x.den = 1
  BY DEF Raw
<1>9. Above(g.txAmount, 50) <=> f.txAmount.num >= 1
  <2>1. f.txAmount.num \in Nat /\ f.txAmount.den = 1
    BY <1>8, RawFields
  <2>. QED  BY <1>7, <2>1 DEF Above
<1>. QED
  BY <1>0, <1>1, <1>2, <1>3, <1>4, <1>5, <1>6, <1>7, <1>8, <1>9, RawFields
  DEF NewAccountLargeTx, RapidWithdraw

-----------------------------------------------------------------------------
(* Lifetime value.                                                         *)

\* The 0-1 ranges that the comments give for engagement, churn risk and
\* confidence, and survival between no day and twice the base of 90.
LEMMA ScoreRanges ==
  ASSUME NEW f \in Features
  PROVE  /\ calculateEngagementScore(f) \in 0..100
         /\ calculateChurnRisk(f) \in 0..100
         /\ calculateConfidence(f) \in 20..100
<1>1. /\ f.lastBet \in Nat /\ f.sessions \in Nat /\ f.depositRate \in Nat
      /\ f.registered \in Nat /\ f.bets \in Nat
  BY DEF Features
<1>2. /\ Recency(f) \in 0..30 /\ Inactivity(f) \in 0..50
      /\ Frequency(f.sessions, 500, 300) \in 0..20
      /\ Frequency(f.depositRate, 400, 200) \in 0..20
  BY <1>1 DEF Recency, Inactivity, Frequency, Part
<1>3. calculateEngagementScore(f) \in 0..100
  BY <1>2 DEF calculateEngagementScore, AtMost, Part
<1>4. calculateChurnRisk(f) \in 0..100
  BY <1>2 DEF calculateChurnRisk, AtMost, Part
<1>5. calculateConfidence(f) \in 20..100
  BY <1>1 DEF calculateConfidence, AtMost, Part
<1>. QED  BY <1>3, <1>4, <1>5

\* predictSurvival answers with at most twice the base of 90 days, and never
\* with a negative number of them.
THEOREM SurvivalBounded ==
  ASSUME NEW f \in Features
  PROVE  predictSurvival(f) \subseteq 0..180
<1> DEFINE a == 100 + calculateEngagementScore(f)
           b == 100 - calculateChurnRisk(f)
           whole == (9 * (a * b)) \div 1000
<1>1. a \in 100..200 /\ b \in 0..100
  BY ScoreRanges
<1> HIDE DEF a, b
<1>2. whole \in 0..180
  <2>1. a * b \in Nat
    BY <1>1
  <2>2. a * b <= 200 * b
    BY <1>1
  <2>3. ASSUME NEW y \in Int, 0 <= y, y <= 180000
        PROVE  y \div 1000 \in 0..180
    BY <2>3
  <2>. QED  BY <1>1, <2>1, <2>2, <2>3
<1>3. predictSurvival(f) \subseteq
        {whole} \union (IF whole > 0 THEN {whole - 1} ELSE {})
  BY DEF predictSurvival, a, b
<1> HIDE DEF whole
<1>. QED  BY <1>2, <1>3

\* Who bet within a week is never called churning, whatever else is wrong.
THEOREM ActiveNeverChurning ==
  ASSUME NEW f \in Features, f.lastBet <= 7
  PROVE  Segment(f) # "churning"
<1>1. f.lastBet \in Nat
  BY DEF Features
<1>2. Inactivity(f) = 0
  BY <1>1 DEF Inactivity, Part
<1>3. calculateChurnRisk(f) <= 60
  BY <1>2 DEF calculateChurnRisk, AtMost, Part
<1>. QED  BY <1>3, ScoreRanges DEF Segment, determineSegment

\* From the eighth day on one may be, although NewLTVPredictor sets 14 days of
\* inactivity as the threshold of churn: nothing reads it.
THEOREM ChurningBeforeThreshold ==
  \E f \in Features : f.lastBet < churnInactiveDays /\ Segment(f) = "churning"
<1> DEFINE f == [registered |-> 31, lastDeposit |-> 31, lastBet |-> 8,
                 sessions |-> 0, deposits |-> 0, withdrawals |-> 1,
                 revenue |-> 0, depositRate |-> 0, bets |-> 0, games |-> 0,
                 bonuses |-> 0, conversion |-> 0, push |-> FALSE,
                 email |-> FALSE, vipManager |-> FALSE, tickets |-> 4]
<1>1. f \in Features
  BY DEF Features
<1>2. calculateChurnRisk(f) = 75
  BY DEF calculateChurnRisk, Inactivity, AtMost, Part
<1>3. Segment(f) = "churning"
  BY <1>2 DEF Segment, determineSegment
<1>. QED  BY <1>1, <1>3 DEF churnInactiveDays

\* A player who brought no revenue is never placed above the lowest segment.
THEOREM UnprofitableIsLow ==
  ASSUME NEW f \in Features, f.revenue <= 0
  PROVE  Segment(f) \in {"low", "churning"}
<1> DEFINE ltv == calculateLTV(f)
           E == calculateEngagementScore(f)
           C == calculateChurnRisk(f)
<1>1. E \in 0..100 /\ C \in 0..100
  BY ScoreRanges
<1>2. f.registered \in Nat /\ f.revenue \in Int
  BY DEF Features
<1>3. ltv.num \in Int /\ ltv.num <= 0 /\ ltv.den \in Nat \ {0}
  <2>1. CASE f.registered < 30
    BY <1>2, <2>1 DEF calculateLTV
  <2>2. CASE f.registered >= 30
    <3> DEFINE factor == 5 * f.registered + 18 * E
    <3>1. factor \in Nat
      BY <1>1, <1>2
    <3>2. ltv.num = f.revenue * factor /\ ltv.den = 5 * f.registered
      BY <1>2, <2>2 DEF calculateLTV
    <3>. HIDE DEF factor
    <3>3. f.revenue * factor \in Int /\ f.revenue * factor <= 0
      BY <1>2, <3>1
    <3>. QED  BY <1>2, <2>2, <3>2, <3>3
  <2>. QED  BY <1>2, <2>1, <2>2
<1>. HIDE DEF ltv, C
<1>4. ltv.num * (200 - C) <= 0 /\ ltv.num * (200 - C) \in Int
  BY <1>1, <1>3
<1>5. AdjustedLTV(f).num <= 0 /\ AdjustedLTV(f).num \in Int
  BY <1>4 DEF AdjustedLTV, ltv, C
<1>6. AdjustedLTV(f).den \in Nat \ {0}
  BY <1>3 DEF AdjustedLTV, ltv
<1>7. \A t \in {100, 1000, 10000} : ~Reaches(AdjustedLTV(f), t)
  BY <1>5, <1>6 DEF Reaches
<1>. QED
  BY <1>7 DEF Segment, determineSegment, vipThreshold, highThreshold, mediumThreshold

\* The thirtieth day costs: the value of a player whose revenue and habits stay
\* the same falls between day 29 and day 30, unless the engagement score is
\* full, because the year that is taken for granted before is earned after.
THEOREM ValueDropsAtDay30 ==
  ASSUME NEW f \in Features, NEW g \in Features,
         f.registered = 29, g.registered = 30,
         f.revenue = g.revenue, f.revenue > 0,
         calculateEngagementScore(g) <= 95
  PROVE  calculateLTV(f).num * calculateLTV(g).den
           > calculateLTV(g).num * calculateLTV(f).den
<1> DEFINE R == f.revenue
           E == calculateEngagementScore(g)
<1>1. R \in Int /\ E \in 0..95
  BY ScoreRanges DEF Features
<1>2. calculateLTV(f) = [num |-> 360 * R, den |-> 29]
  BY DEF calculateLTV
<1>3. calculateLTV(g) = [num |-> R * (150 + 18 * E), den |-> 150]
  BY DEF calculateLTV
<1>. HIDE DEF R, E
<1>4. R > 0
  BY DEF R
<1>5. R * E <= R * 95 /\ R * E \in Int
  BY <1>1, <1>4
<1>6. R * (150 + 18 * E) = 150 * R + 18 * (R * E)
  BY <1>1
<1>7. (360 * R) * 150 > (R * (150 + 18 * E)) * 29
  BY <1>1, <1>4, <1>5, <1>6
<1>. QED  BY <1>2, <1>3, <1>7

\* Two players of one segment with the churn risk 0.3 are recommended different
\* actions: the risk is compared with 0.3, and as a float only one sum of that
\* size exceeds it.
THEOREM EqualRisksDiffer ==
  \E f, g \in Features :
    /\ calculateChurnRisk(f) = 30 /\ calculateChurnRisk(g) = 30
    /\ Segment(f) = "high" /\ Segment(g) = "high"
    /\ getNextBestAction(f) = "RETENTION_BONUS"
    /\ getNextBestAction(g) = "LOYALTY_REWARD"
<1> DEFINE player(lastBet, lastDeposit, tickets) ==
             [registered |-> 100, lastDeposit |-> lastDeposit,
              lastBet |-> lastBet, sessions |-> 100, deposits |-> 2000,
              withdrawals |-> 0, revenue |-> 2000, depositRate |-> 0,
              bets |-> 0, games |-> 0, bonuses |-> 0, conversion |-> 0,
              push |-> FALSE, email |-> FALSE, vipManager |-> TRUE,
              tickets |-> tickets]
           f == player(0, 31, 4)
           g == player(15, 0, 0)
<1>1. f \in Features /\ g \in Features
  BY DEF Features
<1>2. calculateChurnRisk(f) = 30 /\ calculateChurnRisk(g) = 30
  BY DEF calculateChurnRisk, Inactivity, AtMost, Part
<1>3. calculateEngagementScore(f) = 50 /\ calculateEngagementScore(g) = 20
  BY DEF calculateEngagementScore, Recency, Frequency, AtMost, Part
<1>4. /\ calculateLTV(f) = [num |-> 2800000, den |-> 500]
      /\ calculateLTV(g) = [num |-> 1720000, den |-> 500]
  BY <1>3 DEF calculateLTV
<1>5. Segment(f) = "high" /\ Segment(g) = "high"
  BY <1>2, <1>4 DEF Segment, determineSegment, AdjustedLTV, Reaches,
                    vipThreshold, highThreshold
<1>6. ExceedsThirty(f) /\ ~ExceedsThirty(g)
  BY <1>2 DEF ExceedsThirty
<1>7. /\ getNextBestAction(f) = "RETENTION_BONUS"
      /\ getNextBestAction(g) = "LOYALTY_REWARD"
  BY <1>5, <1>6 DEF getNextBestAction
<1>. QED  BY <1>1, <1>2, <1>5, <1>7

\* The two predictors of the service disagree one way only: LTVModel never
\* finds a higher churn risk.
THEOREM ModelFindsLessChurn ==
  ASSUME NEW f \in Features
  PROVE  ModelChurnRisk(f) <= calculateChurnRisk(f)
<1>1. f.lastBet \in Nat
  BY DEF Features
<1>. QED
  BY <1>1 DEF ModelChurnRisk, calculateChurnRisk, Inactivity, AtMost, Part

\* For a player of less than a month the predictor promises more than the
\* model, whose engagement score seldom is full: the two are not exchangeable.
THEOREM ModelValuesNewPlayersLess ==
  ASSUME NEW f \in Features, f.registered \in 1..29, f.revenue > 0,
         ModelEngagement(f) <= 90
  PROVE  ModelLTV(f).num * calculateLTV(f).den
           < calculateLTV(f).num * ModelLTV(f).den
<1> DEFINE R == f.revenue
           d == f.registered
           E == ModelEngagement(f)
           C == ModelChurnRisk(f)
           X == R * (5 * d + 18 * E)
<1>1. R \in Int /\ d \in 1..29 /\ E \in 0..90 /\ C \in 0..100
  BY DEF Features, ModelEngagement, ModelChurnRisk, AtMost, Part
<1>2. calculateLTV(f) = [num |-> 360 * R, den |-> d]
  BY <1>1 DEF calculateLTV
<1>3. ModelLTV(f) = [num |-> X * (200 - C), den |-> 5 * d * 200]
  BY <1>1 DEF ModelLTV
<1>4. R > 0
  OBVIOUS
<1>. HIDE DEF R, d, E, C
<1>5. 5 * d + 18 * E \in 1..1765
  BY <1>1
<1>6. X \in Int /\ 0 < X /\ X <= R * 1765
  BY <1>1, <1>4, <1>5
<1>. HIDE DEF X
<1>7. X * (200 - C) \in Int /\ X * (200 - C) <= X * 200
  BY <1>1, <1>6
<1>8. X * (200 - C) < R * 360000
  BY <1>1, <1>4, <1>6, <1>7
<1>9. (X * (200 - C)) * d < (R * 360000) * d
  BY <1>1, <1>7, <1>8
<1>10. (360 * R) * (5 * d * 200) = (R * 360000) * d
  BY <1>1
<1>. QED  BY <1>2, <1>3, <1>9, <1>10
=============================================================================
