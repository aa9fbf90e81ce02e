----------------------------- MODULE FraudModel -----------------------------
(***************************************************************************)
(* The fraud model of the risk service,                                    *)
(* services/risk/internal/ml/onnx_model.go: how it normalises a feature    *)
(* vector and what the rules say that stand in for a missing model file.   *)
(*                                                                         *)
(* A feature is a fraction: what minMaxScale and a comparison make of it   *)
(* is then exact.  (At the thresholds below float32 rounds both sides of a *)
(* comparison to the same number.)  Scores are hundredths.  The features   *)
(* that only the trained model reads are left out.                         *)
(***************************************************************************)
EXTENDS Integers

Fraction == [num : Int, den : Nat \ {0}]

Whole(n) == [num |-> n, den |-> 1]

Raw == [num : Nat, den : {1}]

Vector ==
  [txCount1Min : Fraction, txCount1Hour : Fraction, devices : Fraction,
   ips : Fraction, accountAge : Fraction, deposits : Fraction,
   withdrawals : Fraction, sinceLastTx : Fraction, txAmount : Fraction,
   vpn : BOOLEAN, proxy : BOOLEAN, tor : BOOLEAN, bonusOnly : BOOLEAN,
   withdraw : BOOLEAN]

\* A vector as it is built: counts, days, seconds and amounts.
RawVector ==
  [txCount1Min : Raw, txCount1Hour : Raw, devices : Raw, ips : Raw,
   accountAge : Raw, deposits : Raw, withdrawals : Raw, sinceLastTx : Raw,
   txAmount : Raw, vpn : BOOLEAN, proxy : BOOLEAN, tor : BOOLEAN,
   bonusOnly : BOOLEAN, withdraw : BOOLEAN]

\* Comparisons of a feature with p hundredths.
Above(x, p) == 100 * x.num > p * x.den
Below(x, p) == 100 * x.num < p * x.den

-----------------------------------------------------------------------------
minMaxScale(x, max) ==
  IF x.num < 0 THEN Whole(0)
  ELSE IF x.num > max * x.den THEN Whole(1)
  ELSE [num |-> x.num, den |-> x.den * max]

\* log1p returns its argument: a positive feature is not logged at all.
logTransform(x) == IF x.num <= 0 THEN Whole(0) ELSE x

\* Normalize overwrites the features of the vector it is called on.
Normalize(f) ==
  [txCount1Min |-> minMaxScale(f.txCount1Min, 20),
   txCount1Hour |-> minMaxScale(f.txCount1Hour, 200),
   devices |-> minMaxScale(f.devices, 10),
   ips |-> minMaxScale(f.ips, 20),
   accountAge |-> minMaxScale(f.accountAge, 365),
   deposits |-> logTransform(f.deposits),
   withdrawals |-> logTransform(f.withdrawals),
   sinceLastTx |-> minMaxScale(f.sinceLastTx, 86400),
   txAmount |-> logTransform(f.txAmount),
   vpn |-> f.vpn, proxy |-> f.proxy, tor |-> f.tor,
   bonusOnly |-> f.bonusOnly, withdraw |-> f.withdraw]

\* The signals of mockPredict.
HighVelocity(f) == Above(f.txCount1Min, 50)
SustainedVelocity(f) == Above(f.txCount1Hour, 50)
ManyDevices(f) == Above(f.devices, 30)
ManyIPs(f) == Above(f.ips, 25)
NewAccountLargeTx(f) == Below(f.accountAge, 2) /\ Above(f.txAmount, 50)
RapidWithdraw(f) ==
  /\ Below(f.sinceLastTx, 1)
  /\ f.withdraw
  /\ 10 * f.withdrawals.num * f.deposits.den
       > 8 * f.deposits.num * f.withdrawals.den

Points(signal, n) == IF signal THEN n ELSE 0

Clamp(score, max) == IF score > max THEN max ELSE score

mockPredict(f) ==
  Clamp(Points(HighVelocity(f), 20) + Points(SustainedVelocity(f), 15)
        + Points(ManyDevices(f), 15) + Points(ManyIPs(f), 10)
        + Points(f.vpn \/ f.proxy, 15) + Points(f.tor, 25)
        + Points(NewAccountLargeTx(f), 20) + Points(f.bonusOnly, 15)
        + Points(RapidWithdraw(f), 20), 100)

-----------------------------------------------------------------------------
(* Predict                                                                 *)

Failed == "failed"

NaN == "NaN"

\* NewONNXModel goes without a session when the model file is missing.  With
\* one, output is what the runtime leaves in outputData, or Failed.  Neither
\* comparison of the clamp is true of a NaN: it is returned as it is.
Score(hasSession, output, f) ==
  IF ~hasSession THEN mockPredict(f)
  ELSE IF output \in {Failed, NaN} THEN output
  ELSE IF output < 0 THEN 0 ELSE Clamp(output, 100)

\* The caller's vector is normalised in place: the answer, and the vector that
\* the caller's pointer names from then on.
Predict(hasSession, output, f) ==
  [score |-> Score(hasSession, output, Normalize(f)), vector |-> Normalize(f)]

\* PredictBatch's score of a vector; a failure is neutral.
BatchScore(hasSession, output, f) ==
  LET score == Predict(hasSession, output, f).score
  IN  IF score = Failed THEN 50 ELSE score
=============================================================================
