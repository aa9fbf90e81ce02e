---------------------------- MODULE BonusProofs ----------------------------
(***************************************************************************)
(* Theorems about the bonus engine, for any number of workers, calls,      *)
(* rules and failures.  The invariant behind them says what a worker's     *)
(* copy of the rows still guarantees when it is written back: the terms of *)
(* a bonus never change, and the wagering done on it only grows, so stale  *)
(* progress is at most what has been wagered, as long as no bet is         *)
(* negative.                                                               *)
(***************************************************************************)
EXTENDS BonusOffers, FiniteSetTheorems, TLAPS

Calling == {"player", "abuse", "count", "create", "load", "write"}

\* Bets as the wallet takes them: the CHECK of its transactions table refuses an
\* amount that is not positive.
BetsAreNatural ==
  \A call \in Calls : call.kind = "wager" => call.amount \in Nat

Making ==
  \A w \in Workers :
    /\ pc[w] # "idle" => job[w] \in Calls
    /\ pc[w] \in {"abuse", "count", "create"} => job[w].rule \in DOMAIN Rules

\* What no update changes of a row.
SameTerms(b, c) ==
  b.account = c.account /\ b.rule = c.rule /\ b.required = c.required

Copies ==
  \A w \in Workers :
    /\ Len(copy[w]) <= Len(bonuses)
    /\ \A i \in 1..Len(copy[w]) :
         /\ BetsAreNatural => copy[w][i].progress <= wagered[i]
         /\ SameTerms(copy[w][i], bonuses[i])
    /\ \A i \in todo[w] :
         /\ i \in 1..Len(copy[w])
         /\ copy[w][i].status = "active"

BonusInv == TypeOK /\ Making /\ Copies /\ (BetsAreNatural => ProgressEarned)

-----------------------------------------------------------------------------
(* The rules compute integers, and natural numbers from natural amounts.   *)

LEMMA PercentInt ==
  ASSUME NEW amount \in Int, NEW percent \in Nat
  PROVE  /\ Percent(amount, percent) \in Int
         /\ amount \in Nat => Percent(amount, percent) \in Nat
<1>1. amount * percent \in Int /\ (amount \in Nat => amount * percent \in Nat)
  OBVIOUS
<1>2. \A x \in Nat : x \div 100 \in Nat
  OBVIOUS
<1>3. ASSUME NEW n \in Int
      PROVE  (IF n >= 0 THEN n \div 100 ELSE -((-n) \div 100)) \in Int
  <2>1. CASE n >= 0
    BY <1>2, <2>1
  <2>2. CASE n < 0
    <3>1. -n \in Nat
      BY <2>2
    <3> QED BY <1>2, <2>2, <3>1
  <2> QED BY <2>1, <2>2
<1> QED BY <1>1, <1>2, <1>3 DEF Percent

LEMMA CountsInt ==
  ASSUME NEW call \in Calls, NEW bonus \in Bonus
  PROVE  /\ Counts(call, bonus) \in Int
         /\ BetsAreNatural /\ call.kind = "wager" => Counts(call, bonus) \in Nat
<1>1. CASE bonus.rule \notin DOMAIN Rules
  BY <1>1 DEF Counts
<1>2. CASE bonus.rule \in DOMAIN Rules
  <2> DEFINE rule == Rules[bonus.rule]
  <2>1. Weight(rule, call.game) \in Nat
    BY <1>2, RulesAssumption DEF Weight
  <2>2. /\ call.amount \in Int
        /\ BetsAreNatural /\ call.kind = "wager" => call.amount \in Nat
    BY CallsAssumption DEF BetsAreNatural
  <2>3. /\ Percent(call.amount, Weight(rule, call.game)) \in Int
        /\ BetsAreNatural /\ call.kind = "wager" =>
             Percent(call.amount, Weight(rule, call.game)) \in Nat
    BY <2>1, <2>2, PercentInt
  <2> QED BY <1>2, <2>3 DEF Counts, Contribution
<1> QED BY <1>1, <1>2

LEMMA AddedInt ==
  ASSUME NEW call \in Calls, NEW bonus \in Bonus
  PROVE  Added(call, bonus) \in Int /\ (BetsAreNatural => Added(call, bonus) \in Nat)
BY CountsInt DEF Added

LEMMA NewBonusFacts ==
  ASSUME TypeOK, Making, NEW w \in Workers, pc[w] = "create"
  PROVE  /\ NewBonus(w) \in Bonus
         /\ NewBonus(w).progress = 0
         /\ NewBonus(w).status = "active"
         /\ NewBonus(w).required = NewBonus(w).amount * Rule(w).multiplier
<1> DEFINE rule == Rules[job[w].rule]
<1>1. /\ job[w] \in Calls
      /\ job[w].rule \in DOMAIN Rules
      /\ job[w].account \in Accounts
      /\ job[w].rule \in RuleIds
      /\ job[w].amount \in Int
  BY CallsAssumption DEF Making
<1>2. /\ rule.matchPercent \in Nat
      /\ rule.maxBonus \in Nat
      /\ rule.fixedAmount \in Nat
      /\ rule.multiplier \in Nat
      /\ rule.expiryDays \in Nat
  BY <1>1, RulesAssumption
<1>3. Percent(job[w].amount, rule.matchPercent) \in Int
  BY <1>1, <1>2, PercentInt
<1>4. BonusAmount(rule, job[w].amount) \in Int
  BY <1>2, <1>3 DEF BonusAmount
<1>5. BonusAmount(rule, job[w].amount) * rule.multiplier \in Int
  BY <1>2, <1>4
<1>6. today + rule.expiryDays \in Nat
  BY <1>2, MaxDayAssumption DEF TypeOK
<1> QED BY <1>1, <1>4, <1>5, <1>6 DEF NewBonus, Rule, Bonus, BonusStatus

LEMMA WrittenFacts ==
  ASSUME NEW call \in Calls, NEW bonus \in Bonus, bonus.status = "active"
  PROVE  LET earned == Added(call, bonus)
             new    == Written(call, bonus) IN
         /\ earned \in Int
         /\ BetsAreNatural => earned \in Nat
         /\ new \in Bonus
         /\ SameTerms(new, bonus)
         /\ new.progress = bonus.progress + earned
         /\ new.status = "completed" => new.progress >= new.required
         /\ new.status = "active" => new.progress < new.required
<1>1. Added(call, bonus) \in Int /\ (BetsAreNatural => Added(call, bonus) \in Nat)
  BY AddedInt
<1>2. /\ bonus.progress \in Int
      /\ bonus.required \in Int
  BY DEF Bonus
<1> QED BY <1>1, <1>2 DEF Written, SameTerms, Bonus, BonusStatus

-----------------------------------------------------------------------------
(* Steps.  What Return and Goto do to the worker that takes them.          *)

LEMMA ReturnKeeps ==
  ASSUME TypeOK, Making, Copies, NEW w \in Workers, NEW answer \in {"none", "ok", "error"},
         Return(w, answer)
  PROVE  /\ Making'
         /\ today' \in 0..MaxDay /\ calls' \subseteq Calls
         /\ pc' \in [Workers -> Calling \union {"idle"}]
         /\ job' \in [Workers -> Calls \union {Null}]
         /\ copy' \in [Workers -> Seq(Bonus)]
         /\ todo' \in [Workers -> SUBSET Ids]
         /\ reply' \in [Workers -> {"none", "ok", "error"}]
         /\ \A u \in Workers :
              \/ copy'[u] = copy[u] /\ todo'[u] = todo[u]
              \/ copy'[u] = <<>> /\ todo'[u] = {}
  BY DEF TypeOK, Making, Return, Calling

LEMMA GotoKeeps ==
  ASSUME TypeOK, Making, Copies, NEW w \in Workers, NEW label \in Calling, Goto(w, label),
         pc[w] # "idle",
         label \in {"abuse", "count", "create"} => job[w].rule \in DOMAIN Rules
  PROVE  /\ Making'
         /\ today' \in 0..MaxDay /\ calls' \subseteq Calls
         /\ pc' \in [Workers -> Calling \union {"idle"}]
         /\ job' \in [Workers -> Calls \union {Null}]
         /\ copy' \in [Workers -> Seq(Bonus)]
         /\ todo' \in [Workers -> SUBSET Ids]
         /\ reply' \in [Workers -> {"none", "ok", "error"}]
         /\ \A u \in Workers : copy'[u] = copy[u] /\ todo'[u] = todo[u]
  BY DEF TypeOK, Making, Goto, Calling

\* What the two lemmas above leave of the local state.
Local ==
  /\ Making'
  /\ today' \in 0..MaxDay /\ calls' \subseteq Calls
  /\ pc' \in [Workers -> Calling \union {"idle"}]
  /\ job' \in [Workers -> Calls \union {Null}]
  /\ copy' \in [Workers -> Seq(Bonus)]
  /\ todo' \in [Workers -> SUBSET Ids]
  /\ reply' \in [Workers -> {"none", "ok", "error"}]
  /\ \A u \in Workers :
       \/ copy'[u] = copy[u] /\ todo'[u] \subseteq todo[u]
       \/ copy'[u] = <<>> /\ todo'[u] = {}

\* The histories of what was due and what was missed.
Tallied ==
  \A tally \in {due, missed} : tally \in Seq(Int) /\ Len(tally) = Len(bonuses)

\* A step that leaves the rows alone.
LEMMA StoreKept ==
  ASSUME BonusInv, Local, bonuses' = bonuses, wagered' = wagered, miscounts' \in Nat,
         Tallied'
  PROVE  BonusInv'
<1>1. TypeOK'
  BY DEF BonusInv, TypeOK, Local, Calling, Ids, Tallied
<1>2. Copies'
  <2> SUFFICES ASSUME NEW u \in Workers
               PROVE  /\ Len(copy'[u]) <= Len(bonuses')
                      /\ \A i \in 1..Len(copy'[u]) :
                           /\ BetsAreNatural => copy'[u][i].progress <= wagered'[i]
                           /\ SameTerms(copy'[u][i], bonuses'[i])
                      /\ \A i \in todo'[u] :
                           /\ i \in 1..Len(copy'[u])
                           /\ copy'[u][i].status = "active"
    BY DEF Copies
  <2>1. CASE copy'[u] = copy[u] /\ todo'[u] \subseteq todo[u]
    BY <2>1 DEF BonusInv, Copies
  <2>2. CASE copy'[u] = <<>> /\ todo'[u] = {}
    BY <2>2 DEF BonusInv, TypeOK
  <2> QED BY <2>1, <2>2 DEF Local
<1>3. BetsAreNatural => ProgressEarned'
  BY DEF BonusInv, ProgressEarned, Ids
<1> QED BY <1>1, <1>2, <1>3 DEF BonusInv, Local

\* AwardBonus inserts a row nothing has been wagered on.
LEMMA RowCreated ==
  ASSUME BonusInv, Local, NEW w \in Workers, pc[w] = "create", CreateBonus(w)
  PROVE  BonusInv'
<1>1. /\ NewBonus(w) \in Bonus
      /\ NewBonus(w).progress = 0
      /\ NewBonus(w).status = "active"
      /\ NewBonus(w).required \in Int
  BY NewBonusFacts DEF BonusInv, Bonus
<1>2. /\ bonuses \in Seq(Bonus) /\ wagered \in Seq(Int)
      /\ Len(bonuses) = Len(wagered)
      /\ bonuses' = Append(bonuses, NewBonus(w))
      /\ wagered' = Append(wagered, 0)
      /\ miscounts' = miscounts
  BY DEF BonusInv, TypeOK, CreateBonus
<1>3. /\ bonuses' \in Seq(Bonus) /\ wagered' \in Seq(Int)
      /\ Len(bonuses') = Len(bonuses) + 1
      /\ Len(wagered') = Len(bonuses) + 1
      /\ \A i \in 1..Len(bonuses) : bonuses'[i] = bonuses[i] /\ wagered'[i] = wagered[i]
      /\ bonuses'[Len(bonuses) + 1] = NewBonus(w)
      /\ wagered'[Len(bonuses) + 1] = 0
  BY <1>1, <1>2
<1>4. TypeOK'
  <2>1. ASSUME NEW tally \in {due, missed}
        PROVE  Append(tally, 0) \in Seq(Int) /\ Len(Append(tally, 0)) = Len(bonuses')
    <3>1. tally \in Seq(Int) /\ Len(tally) = Len(bonuses)
      BY DEF BonusInv, TypeOK
    <3> QED BY <1>3, <3>1
  <2>2. Tallied'
    BY <2>1 DEF CreateBonus, Tallied
  <2> QED BY <1>2, <1>3, <2>2 DEF BonusInv, TypeOK, Tallied, Local, Calling, Ids
<1>5. Copies'
  <2> SUFFICES ASSUME NEW u \in Workers
               PROVE  /\ Len(copy'[u]) <= Len(bonuses')
                      /\ \A i \in 1..Len(copy'[u]) :
                           /\ BetsAreNatural => copy'[u][i].progress <= wagered'[i]
                           /\ SameTerms(copy'[u][i], bonuses'[i])
                      /\ \A i \in todo'[u] :
                           /\ i \in 1..Len(copy'[u])
                           /\ copy'[u][i].status = "active"
    BY DEF Copies
  <2>1. CASE copy'[u] = copy[u] /\ todo'[u] \subseteq todo[u]
    <3>1. Len(copy[u]) \in Nat /\ Len(copy[u]) <= Len(bonuses)
      BY DEF BonusInv, TypeOK, Copies
    <3> QED BY <1>2, <1>3, <2>1, <3>1 DEF BonusInv, Copies
  <2>2. CASE copy'[u] = <<>> /\ todo'[u] = {}
    BY <1>2, <1>3, <2>2
  <2> QED BY <2>1, <2>2 DEF Local
<1>6. BetsAreNatural => ProgressEarned'
  <2> SUFFICES ASSUME BetsAreNatural, NEW i \in 1..Len(bonuses')
               PROVE  /\ bonuses'[i].progress <= wagered'[i]
                      /\ bonuses'[i].status = "completed" =>
                           bonuses'[i].progress >= bonuses'[i].required
                      /\ bonuses'[i].status = "active" =>
                           bonuses'[i].progress < bonuses'[i].required
                             \/ bonuses'[i].required <= 0
    BY DEF ProgressEarned, Ids
  <2>1. CASE i \in 1..Len(bonuses)
    BY <1>3, <2>1 DEF BonusInv, ProgressEarned, Ids
  <2>2. CASE i = Len(bonuses) + 1
    BY <1>1, <1>3, <2>2
  <2> QED BY <1>2, <1>3, <2>1, <2>2
<1> QED BY <1>4, <1>5, <1>6 DEF BonusInv, Local

\* A row to write was copied from a row of the table.
LEMMA CopyFits ==
  ASSUME BonusInv, NEW w \in Workers, NEW i \in todo[w]
  PROVE  /\ i \in 1..Len(copy[w]) /\ Len(copy[w]) <= Len(bonuses)
         /\ i \in 1..Len(bonuses)
         /\ copy[w][i] \in Bonus
         /\ copy[w][i].status = "active"
         /\ BetsAreNatural => copy[w][i].progress <= wagered[i]
         /\ SameTerms(copy[w][i], bonuses[i])
<1>1. copy[w] \in Seq(Bonus) /\ bonuses \in Seq(Bonus)
  BY DEF BonusInv, TypeOK
<1>2. /\ Len(copy[w]) <= Len(bonuses)
      /\ i \in 1..Len(copy[w])
      /\ copy[w][i].status = "active"
  BY DEF BonusInv, Copies
<1>3. /\ BetsAreNatural => copy[w][i].progress <= wagered[i]
      /\ SameTerms(copy[w][i], bonuses[i])
  BY <1>2 DEF BonusInv, Copies
<1> QED BY <1>1, <1>2, <1>3

\* An Update stores a row computed from a copy, however old.
LEMMA RowUpdated ==
  ASSUME BonusInv, Local, NEW w \in Workers, pc[w] = "write", NEW i \in todo[w],
         Update(w, i)
  PROVE  BonusInv'
<1> DEFINE earned == Added(job[w], copy[w][i])
           new == Written(job[w], copy[w][i])
<1>1. /\ bonuses \in Seq(Bonus) /\ wagered \in Seq(Int)
      /\ Len(bonuses) = Len(wagered)
      /\ copy[w] \in Seq(Bonus)
      /\ i \in 1..Len(copy[w]) /\ Len(copy[w]) <= Len(bonuses)
      /\ i \in 1..Len(bonuses)
      /\ copy[w][i] \in Bonus
      /\ copy[w][i].status = "active"
      /\ BetsAreNatural => copy[w][i].progress <= wagered[i]
      /\ SameTerms(copy[w][i], bonuses[i])
      /\ job[w] \in Calls
  BY CopyFits DEF BonusInv, TypeOK, Making
<1>2. /\ earned \in Int
      /\ BetsAreNatural => earned \in Nat
      /\ new \in Bonus
      /\ SameTerms(new, copy[w][i])
      /\ new.progress = copy[w][i].progress + earned
      /\ new.status = "completed" => new.progress >= new.required
      /\ new.status = "active" => new.progress < new.required
  BY <1>1, WrittenFacts
<1>3. /\ bonuses' = [bonuses EXCEPT ![i] = new]
      /\ wagered' = [wagered EXCEPT ![i] = @ + earned]
      /\ miscounts' = miscounts /\ due' = due /\ missed' = missed
  BY DEF Update
<1>4. /\ bonuses' \in Seq(Bonus) /\ wagered' \in Seq(Int)
      /\ Len(bonuses') = Len(bonuses)
      /\ Len(wagered') = Len(bonuses)
      /\ \A j \in 1..Len(bonuses) :
           /\ BetsAreNatural => wagered'[j] >= wagered[j]
           /\ SameTerms(bonuses'[j], bonuses[j])
           /\ j # i => bonuses'[j] = bonuses[j] /\ wagered'[j] = wagered[j]
      /\ bonuses'[i] = new
      /\ wagered'[i] = wagered[i] + earned
  <2>1. wagered[i] + earned \in Int
    BY <1>1, <1>2
  <2>2. bonuses' \in Seq(Bonus) /\ Len(bonuses') = Len(bonuses)
    BY <1>1, <1>2, <1>3
  <2>3. wagered' \in Seq(Int) /\ Len(wagered') = Len(wagered)
    BY <1>1, <1>3, <2>1
  <2>4. /\ bonuses'[i] = new
        /\ \A j \in 1..Len(bonuses) : j # i => bonuses'[j] = bonuses[j]
    BY <1>1, <1>3
  <2>5. \A j \in 1..Len(bonuses) : SameTerms(bonuses'[j], bonuses[j])
    <3> HIDE DEF new
    <3> QED BY <1>1, <1>2, <2>4 DEF SameTerms
  <2>6. \A j \in 1..Len(bonuses) :
          wagered'[j] = IF j = i THEN wagered[j] + earned ELSE wagered[j]
    BY <1>1, <1>3
  <2>7. \A j \in 1..Len(bonuses) : wagered[j] \in Int
    BY <1>1
  <2> HIDE DEF new, earned
  <2>8. Len(wagered') = Len(bonuses)
    BY <1>1, <2>3
  <2>9. ASSUME NEW j \in 1..Len(bonuses)
        PROVE  /\ BetsAreNatural => wagered'[j] >= wagered[j]
               /\ (j # i => wagered'[j] = wagered[j])
    <3>1. wagered[j] \in Int /\ earned \in Int /\ (BetsAreNatural => earned \in Nat)
      BY <1>2, <2>7
    <3> QED BY <2>6, <3>1
  <2>10. wagered'[i] = wagered[i] + earned
    BY <1>1, <2>6
  <2> QED BY <2>2, <2>3, <2>4, <2>5, <2>8, <2>9, <2>10
<1>5. TypeOK'
  <2> HIDE DEF new, earned
  <2> QED BY <1>1, <1>3, <1>4 DEF BonusInv, TypeOK, Local, Calling, Ids
<1>6. Copies'
  <2> SUFFICES ASSUME NEW u \in Workers
               PROVE  /\ Len(copy'[u]) <= Len(bonuses')
                      /\ \A j \in 1..Len(copy'[u]) :
                           /\ BetsAreNatural => copy'[u][j].progress <= wagered'[j]
                           /\ SameTerms(copy'[u][j], bonuses'[j])
                      /\ \A j \in todo'[u] :
                           /\ j \in 1..Len(copy'[u])
                           /\ copy'[u][j].status = "active"
    BY DEF Copies
  <2>1. CASE copy'[u] = copy[u] /\ todo'[u] \subseteq todo[u]
    <3>1. /\ copy[u] \in Seq(Bonus)
          /\ Len(copy[u]) \in Nat /\ Len(copy[u]) <= Len(bonuses)
      BY DEF BonusInv, TypeOK, Copies
    <3>2. ASSUME NEW j \in 1..Len(copy[u])
          PROVE  /\ BetsAreNatural => copy[u][j].progress <= wagered'[j]
                 /\ SameTerms(copy[u][j], bonuses'[j])
      <4>1. /\ j \in 1..Len(bonuses)
            /\ BetsAreNatural => copy[u][j].progress <= wagered[j]
            /\ SameTerms(copy[u][j], bonuses[j])
        BY <1>1, <3>1 DEF BonusInv, Copies
      <4>2. copy[u][j].progress \in Int
        <5>1. copy[u][j] \in Bonus
          BY <3>1
        <5> QED BY <5>1 DEF Bonus
      <4>3. wagered[j] \in Int /\ wagered'[j] \in Int
        <5>1. /\ wagered \in Seq(Int) /\ wagered' \in Seq(Int)
              /\ Len(wagered) = Len(bonuses) /\ Len(wagered') = Len(bonuses)
          BY <1>1, <1>4
        <5> QED BY <4>1, <5>1
      <4>4. (BetsAreNatural => wagered[j] <= wagered'[j]) /\ SameTerms(bonuses'[j], bonuses[j])
        BY <1>4, <4>1
      <4> QED BY <4>1, <4>2, <4>3, <4>4 DEF SameTerms
    <3> QED BY <1>4, <2>1, <3>1, <3>2 DEF BonusInv, Copies
  <2>2. CASE copy'[u] = <<>> /\ todo'[u] = {}
    BY <1>1, <1>4, <2>2
  <2> QED BY <2>1, <2>2 DEF Local
<1>7. BetsAreNatural => ProgressEarned'
  <2> SUFFICES ASSUME BetsAreNatural, NEW j \in 1..Len(bonuses')
               PROVE  /\ bonuses'[j].progress <= wagered'[j]
                      /\ bonuses'[j].status = "completed" =>
                           bonuses'[j].progress >= bonuses'[j].required
                      /\ bonuses'[j].status = "active" =>
                           bonuses'[j].progress < bonuses'[j].required
                             \/ bonuses'[j].required <= 0
    BY DEF ProgressEarned, Ids
  <2>1. CASE j = i
    <3>1. copy[w][i].progress \in Int
      <4>1. copy[w][i] \in Bonus
        BY <1>1
      <4> QED BY <4>1 DEF Bonus
    <3>2. wagered[i] \in Int
      BY <1>1
    <3>3. copy[w][i].progress + earned <= wagered[i] + earned
      <4>1. copy[w][i].progress <= wagered[i] /\ earned \in Nat
        BY <1>1, <1>2
      <4> HIDE DEF earned
      <4> QED BY <3>1, <3>2, <4>1
    <3>4. bonuses'[i].progress <= wagered'[i]
      BY <1>2, <1>4, <3>3
    <3> QED BY <1>2, <1>4, <2>1, <3>4
  <2>2. CASE j # i
    BY <1>4, <2>2 DEF BonusInv, ProgressEarned, Ids
  <2> QED BY <2>1, <2>2
<1> QED BY <1>5, <1>6, <1>7 DEF BonusInv, Local

-----------------------------------------------------------------------------
(* The invariant.                                                          *)

LEMMA InitBonusInv == Init => BonusInv
<1> SUFFICES ASSUME Init PROVE BonusInv
  OBVIOUS
<1>1. /\ OpeningBonuses \in Seq(Bonus)
      /\ \A i \in 1..Len(OpeningBonuses) :
           OpeningBonuses[i].status = "active" /\ OpeningBonuses[i].progress = 0
  BY OpeningAssumption
<1>2. /\ wagered \in Seq(Int)
      /\ Len(wagered) = Len(bonuses)
      /\ \A i \in 1..Len(bonuses) : wagered[i] = 0
      /\ due = wagered /\ missed = wagered
  BY <1>1 DEF Init
<1>3. TypeOK
  BY <1>1, <1>2, MaxDayAssumption DEF Init, TypeOK, Ids
<1>4. Making /\ Copies
  BY <1>1 DEF Init, Making, Copies
<1>5. ProgressEarned
  <2> SUFFICES ASSUME NEW i \in 1..Len(bonuses)
               PROVE  /\ bonuses[i].progress <= wagered[i]
                      /\ bonuses[i].status = "completed" =>
                           bonuses[i].progress >= bonuses[i].required
                      /\ bonuses[i].status = "active" =>
                           bonuses[i].progress < bonuses[i].required
                             \/ bonuses[i].required <= 0
    BY DEF ProgressEarned, Ids
  <2>1. bonuses[i].required \in Int
    <3>1. bonuses[i] \in Bonus
      BY <1>1 DEF Init
    <3> QED BY <3>1 DEF Bonus
  <2>2. bonuses[i].status = "active" /\ bonuses[i].progress = 0 /\ wagered[i] = 0
    BY <1>1, <1>2 DEF Init
  <2> QED BY <2>1, <2>2
<1> QED BY <1>3, <1>4, <1>5 DEF BonusInv

\* A history has a number per id; a set of ids has its rows.
PerId(tally) == tally \in Seq(Int) /\ Len(tally) = Len(bonuses)

Fits(ids, rows) == rows \in Seq(Bonus) /\ ids \subseteq 1..Len(rows)

\* What a worker adds to a history.
LEMMA PlusShares ==
  ASSUME BonusInv, NEW w \in Workers, pc[w] # "idle", NEW tally, PerId(tally),
         NEW ids, NEW rows, Fits(ids, rows)
  PROVE  /\ Plus(tally, Shares(w, ids, rows)) \in Seq(Int)
         /\ Len(Plus(tally, Shares(w, ids, rows))) = Len(bonuses)
         /\ \A i \in Ids : Plus(tally, Shares(w, ids, rows))[i] =
                            tally[i] + Shares(w, ids, rows)[i]
<1> DEFINE more == Shares(w, ids, rows)
<1>1. tally \in Seq(Int) /\ Len(tally) = Len(bonuses) /\ Len(bonuses) \in Nat
  BY DEF BonusInv, TypeOK, PerId
<1>2. ASSUME NEW i \in Ids PROVE more[i] \in Int
  <2>1. CASE i \in ids
    <3>1. rows[i] \in Bonus /\ job[w] \in Calls
      BY <2>1 DEF BonusInv, Making, Fits
    <3> QED BY <2>1, <3>1, AddedInt DEF Shares
  <2>2. CASE i \notin ids
    BY <2>2 DEF Shares
  <2> QED BY <2>1, <2>2
<1> HIDE DEF more
<1>3. Plus(tally, more) = [i \in 1..Len(bonuses) |-> tally[i] + more[i]]
  BY DEF Plus, Ids
<1>4. \A i \in 1..Len(bonuses) : tally[i] + more[i] \in Int
  BY <1>1, <1>2 DEF Ids
<1>5. /\ Plus(tally, more) \in Seq(Int) /\ Len(Plus(tally, more)) = Len(bonuses)
      /\ \A i \in Ids : Plus(tally, more)[i] = tally[i] + more[i]
  BY <1>1, <1>3, <1>4 DEF Ids
<1> QED BY <1>5 DEF more

LEMMA LoadTallied == ASSUME BonusInv, NEW w \in Workers, Load(w) PROVE Tallied'
<1>1. /\ pc[w] # "idle" /\ bonuses \in Seq(Bonus) /\ todo'[w] \subseteq 1..Len(bonuses)
      /\ due' = Plus(due, Shares(w, todo'[w], bonuses))
      /\ bonuses' = bonuses /\ missed' = missed
  BY DEF Load, BonusInv, TypeOK, Ids
<1>2. due' \in Seq(Int) /\ Len(due') = Len(bonuses)
  <2>1. PerId(due) /\ Fits(todo'[w], bonuses)
    BY <1>1 DEF BonusInv, TypeOK, PerId, Fits
  <2> QED BY <1>1, <2>1, PlusShares
<1> QED BY <1>1, <1>2 DEF BonusInv, TypeOK, Tallied

LEMMA MissTallied ==
  ASSUME BonusInv, NEW w \in Workers, pc[w] # "idle", NEW ids \in SUBSET todo[w], Miss(w, ids)
  PROVE  /\ bonuses' = bonuses /\ wagered' = wagered /\ miscounts' = miscounts
         /\ due' = due /\ Tallied'
         /\ \A i \in Ids : missed'[i] = missed[i] + Shares(w, ids, copy[w])[i]
<1>1. PerId(missed) /\ Fits(ids, copy[w])
  BY DEF BonusInv, TypeOK, Copies, PerId, Fits
<1>2. /\ missed' = Plus(missed, Shares(w, ids, copy[w]))
      /\ bonuses' = bonuses /\ wagered' = wagered /\ miscounts' = miscounts /\ due' = due
  BY DEF Miss
<1>3. /\ Plus(missed, Shares(w, ids, copy[w])) \in Seq(Int)
      /\ Len(Plus(missed, Shares(w, ids, copy[w]))) = Len(bonuses)
      /\ \A i \in Ids : Plus(missed, Shares(w, ids, copy[w]))[i] =
                         missed[i] + Shares(w, ids, copy[w])[i]
  BY <1>1, PlusShares
<1>4. /\ missed' \in Seq(Int) /\ Len(missed') = Len(bonuses)
      /\ \A i \in Ids : missed'[i] = missed[i] + Shares(w, ids, copy[w])[i]
  BY <1>2, <1>3
<1> QED BY <1>2, <1>4 DEF BonusInv, TypeOK, Tallied

\* A worker that returns, or goes on to another statement.
LEMMA ReturnLocal ==
  ASSUME BonusInv, NEW w \in Workers, NEW answer \in {"none", "ok", "error"},
         Return(w, answer)
  PROVE  Local
  BY ReturnKeeps DEF BonusInv, Local

LEMMA GotoLocal ==
  ASSUME BonusInv, NEW w \in Workers, NEW label \in Calling, Goto(w, label),
         pc[w] # "idle",
         label \in {"abuse", "count", "create"} => job[w].rule \in DOMAIN Rules
  PROVE  Local
  BY GotoKeeps DEF BonusInv, Local

LEMMA StepBonusInv == BonusInv /\ [Next]_vars => BonusInv'
<1> SUFFICES ASSUME BonusInv, [Next]_vars PROVE BonusInv'
  OBVIOUS
<1>0. miscounts \in Nat /\ Tallied /\ (UNCHANGED store => Tallied')
  BY DEF BonusInv, TypeOK, Tallied, store
<1>1. ASSUME NEW w \in Workers, NEW call \in calls, Begin(w, call) PROVE BonusInv'
  <2>1. call \in Calls
    BY <1>1 DEF BonusInv, TypeOK
  <2>2. Local
    BY <1>1, <2>1 DEF Begin, Local, BonusInv, TypeOK, Making, Calling
  <2> QED BY <1>0, <1>1, <2>2, StoreKept DEF Begin, store
<1>2. ASSUME NEW w \in Workers, CheckPlayer(w) PROVE BonusInv'
  <2>1. CASE \E player \in Players :
               Awardable(w, player)
                 /\ Goto(w, IF RiskEnabled THEN "abuse" ELSE NextAfterAbuse(w))
    BY <1>2, <2>1, GotoLocal, <1>0, StoreKept
       DEF CheckPlayer, Awardable, NextAfterAbuse, Calling, store
  <2>2. CASE Return(w, "error")
    BY <1>2, <2>2, ReturnLocal, <1>0, StoreKept DEF CheckPlayer, store
  <2> QED BY <1>2, <2>1, <2>2 DEF CheckPlayer
<1>3. ASSUME NEW w \in Workers, CheckAbuse(w) PROVE BonusInv'
  <2>1. job[w].rule \in DOMAIN Rules
    BY <1>3 DEF CheckAbuse, BonusInv, Making
  <2>2. CASE Goto(w, NextAfterAbuse(w))
    BY <1>3, <2>1, <2>2, GotoLocal, <1>0, StoreKept
       DEF CheckAbuse, NextAfterAbuse, Calling, store
  <2>3. CASE Return(w, "error")
    BY <1>3, <2>3, ReturnLocal, <1>0, StoreKept DEF CheckAbuse, store
  <2> QED BY <1>3, <2>2, <2>3 DEF CheckAbuse
<1>4. ASSUME NEW w \in Workers, CheckOneTime(w) PROVE BonusInv'
  <2>1. job[w].rule \in DOMAIN Rules
    BY <1>4 DEF CheckOneTime, BonusInv, Making
  <2>2. Local
    BY <1>4, <2>1, ReturnLocal, GotoLocal DEF CheckOneTime, Calling
  <2>3. /\ bonuses' = bonuses /\ wagered' = wagered /\ miscounts' \in Nat
        /\ due' = due /\ missed' = missed
    BY <1>0, <1>4 DEF CheckOneTime, store
  <2>4. Tallied'
    BY <1>0, <2>3 DEF Tallied
  <2> QED BY <2>2, <2>3, <2>4, StoreKept
<1>5. ASSUME NEW w \in Workers, Create(w) PROVE BonusInv'
  <2>1. pc[w] = "create" /\ Local
    BY <1>5, ReturnLocal DEF Create
  <2>2. CASE CreateBonus(w)
    BY <2>1, <2>2, RowCreated
  <2>3. CASE UNCHANGED store
    BY <1>0, <2>1, <2>3, StoreKept DEF store
  <2> QED BY <1>5, <2>2, <2>3 DEF Create
<1>6. ASSUME NEW w \in Workers, Load(w) PROVE BonusInv'
  <2>1. /\ copy' = [copy EXCEPT ![w] = bonuses]
        /\ \A i \in todo'[w] : i \in Ids /\ bonuses[i].status = "active"
        /\ \A u \in Workers \ {w} : todo'[u] = todo[u] /\ copy'[u] = copy[u]
        /\ todo' \in [Workers -> SUBSET Ids]
        /\ copy'[w] = bonuses
        /\ UNCHANGED <<bonuses, wagered, miscounts, today, calls, job, reply>>
    BY <1>6 DEF Load, Selected, BonusInv, TypeOK
  <2>2. TypeOK'
    <3>1. Tallied' /\ Ids' = Ids
      BY <1>6, <2>1, LoadTallied DEF Ids
    <3>2. /\ pc' \in [Workers -> Calling \union {"idle"}]
          /\ copy' \in [Workers -> Seq(Bonus)]
      BY <1>6 DEF Load, BonusInv, TypeOK, Calling
    <3> QED BY <2>1, <3>1, <3>2 DEF BonusInv, TypeOK, Tallied, Calling
  <2>3. Making'
    BY <1>6, <2>1 DEF Load, BonusInv, Making, TypeOK
  <2>4. Copies'
    <3>1. \A i \in 1..Len(bonuses) :
            /\ BetsAreNatural => bonuses[i].progress <= wagered[i]
            /\ SameTerms(bonuses[i], bonuses[i])
      BY DEF BonusInv, ProgressEarned, SameTerms, Ids
    <3>2. \A u \in Workers :
            /\ Len(copy'[u]) <= Len(bonuses)
            /\ \A i \in 1..Len(copy'[u]) :
                 /\ BetsAreNatural => copy'[u][i].progress <= wagered[i]
                 /\ SameTerms(copy'[u][i], bonuses[i])
      BY <2>1, <3>1 DEF BonusInv, TypeOK, Copies
    <3>3. \A u \in Workers : \A i \in todo'[u] :
            i \in 1..Len(copy'[u]) /\ copy'[u][i].status = "active"
      BY <2>1 DEF BonusInv, Copies, Ids
    <3> QED BY <2>1, <3>2, <3>3 DEF Copies
  <2>5. BetsAreNatural => ProgressEarned'
    BY <2>1 DEF BonusInv, ProgressEarned, Ids
  <2> QED BY <2>2, <2>3, <2>4, <2>5 DEF BonusInv
<1>7. ASSUME NEW w \in Workers, LoadFails(w) PROVE BonusInv'
  BY <1>7, ReturnLocal, <1>0, StoreKept DEF LoadFails, store
<1>8. ASSUME NEW w \in Workers, CheckMaxBet(w) PROVE BonusInv'
  BY <1>8, ReturnLocal, <1>0, StoreKept DEF CheckMaxBet, store
<1>9. ASSUME NEW w \in Workers, NEW i \in todo[w], Skip(w, i) PROVE Local
  BY <1>9 DEF Skip, Local, BonusInv, TypeOK, Making, Calling
<1>10. ASSUME NEW w \in Workers, NEW i \in todo[w], Write(w, i) PROVE BonusInv'
  BY <1>9, <1>10, RowUpdated DEF Write
<1>11. ASSUME NEW w \in Workers, NEW i \in todo[w], WriteFails(w, i) PROVE BonusInv'
  <2>1. pc[w] = "write" /\ Local
    BY <1>9, <1>11, ReturnLocal DEF WriteFails
  <2>2. CASE Update(w, i)
    BY <2>1, <2>2, RowUpdated
  <2>3. CASE Miss(w, {i})
    <3>1. {i} \in SUBSET todo[w]
      OBVIOUS
    <3> QED BY <1>0, <2>1, <2>3, <3>1, MissTallied, StoreKept
  <2> QED BY <1>11, <2>2, <2>3 DEF WriteFails
<1>12. ASSUME NEW w \in Workers, Finish(w) PROVE BonusInv'
  BY <1>12, ReturnLocal, <1>0, StoreKept DEF Finish, store
<1>13. ASSUME NEW w \in Workers, Crash(w) PROVE BonusInv'
  <2>1. pc[w] # "idle" /\ Miss(w, todo[w]) /\ Local
    BY <1>13, ReturnLocal DEF Crash
  <2> QED BY <1>0, <2>1, MissTallied, StoreKept
<1>14. ASSUME NextDay PROVE BonusInv'
  <2>1. Local
    BY <1>14, MaxDayAssumption DEF NextDay, Local, BonusInv, TypeOK, Making, Calling
  <2> QED BY <1>0, <1>14, <2>1, StoreKept DEF NextDay, store
<1>15. ASSUME UNCHANGED vars PROVE BonusInv'
  <2>1. Local
    BY <1>15 DEF vars, Local, BonusInv, TypeOK, Making, Calling
  <2> QED BY <1>0, <1>15, <2>1, StoreKept DEF vars, store
<1> QED
  BY <1>1, <1>2, <1>3, <1>4, <1>5, <1>6, <1>7, <1>8, <1>10, <1>11, <1>12, <1>13,
     <1>14, <1>15 DEF Next

\* The variables of the engine keep their types whatever overlaps or fails, and
\* whatever the amounts of the calls: a negative deposit or bet, which the
\* engine does not refuse, makes negative bonuses and progress, no more.
THEOREM BonusTypeCorrect == Spec => []TypeOK
<1>1. BonusInv => TypeOK
  BY DEF BonusInv
<1> QED BY <1>1, InitBonusInv, StepBonusInv, PTL DEF Spec

\* As long as no bet is negative, overlapping, failing and dying calls never
\* credit wagering that was not done and never complete a bonus before it was
\* wagered in full.  (A stale copy written back over a negative contribution
\* takes the progress above what was wagered.)
THEOREM WageringEarned ==
  ASSUME BetsAreNatural
  PROVE  Spec => []ProgressEarned
<1>1. BonusInv => ProgressEarned
  BY DEF BonusInv
<1> QED BY <1>1, InitBonusInv, StepBonusInv, PTL DEF Spec

-----------------------------------------------------------------------------
(* The claims of a one-time rule.  A worker that has passed the count holds *)
(* a claim it has still to insert: it passed because the table held none,   *)
(* or because its count failed.  The claims in the table and in the workers *)
(* past the count are thus never more than the workers and failed counts.   *)

\* The workers about to insert a bonus of a rule for an account.
Past(a, r) ==
  {w \in Workers : pc[w] = "create" /\ job[w].account = a /\ job[w].rule = r}

Claimants ==
  \A a \in Accounts, r \in DOMAIN Rules :
    Rules[r].oneTime =>
      Cardinality(Claims(a, r)) + Cardinality(Past(a, r))
        <= Cardinality(Workers) + miscounts

LEMMA UpdateKeepsTerms ==
  ASSUME BonusInv, NEW w \in Workers, pc[w] = "write", NEW i \in todo[w],
         Update(w, i)
  PROVE  /\ Len(bonuses') = Len(bonuses)
         /\ \A j \in 1..Len(bonuses) : SameTerms(bonuses'[j], bonuses[j])
<1>1. /\ bonuses \in Seq(Bonus)
      /\ i \in 1..Len(bonuses)
      /\ SameTerms(copy[w][i], bonuses[i])
  BY CopyFits DEF BonusInv, TypeOK
<1>2. bonuses' = [bonuses EXCEPT ![i] = Written(job[w], copy[w][i])]
  BY DEF Update
<1>3. SameTerms(Written(job[w], copy[w][i]), bonuses[i])
  BY <1>1 DEF Written, SameTerms
<1>4. /\ Len(bonuses') = Len(bonuses)
      /\ bonuses'[i] = Written(job[w], copy[w][i])
      /\ \A j \in 1..Len(bonuses) : j # i => bonuses'[j] = bonuses[j]
  BY <1>1, <1>2
<1> QED BY <1>3, <1>4 DEF SameTerms

LEMMA ClaimsKept ==
  ASSUME NEW a, NEW r, Len(bonuses') = Len(bonuses),
         \A j \in 1..Len(bonuses) : SameTerms(bonuses'[j], bonuses[j])
  PROVE  Claims(a, r)' = Claims(a, r)
BY DEF Claims, Ids, SameTerms

LEMMA ClaimsCreated ==
  ASSUME BonusInv, NEW w \in Workers, CreateBonus(w), NEW a, NEW r
  PROVE  /\ job[w].account = a /\ job[w].rule = r =>
              Claims(a, r)' = Claims(a, r) \union {Len(bonuses) + 1}
         /\ ~(job[w].account = a /\ job[w].rule = r) =>
              Claims(a, r)' = Claims(a, r)
<1>1. bonuses \in Seq(Bonus) /\ bonuses' = Append(bonuses, NewBonus(w))
  BY DEF BonusInv, TypeOK, CreateBonus
<1>2. NewBonus(w).account = job[w].account /\ NewBonus(w).rule = job[w].rule
  BY DEF NewBonus
<1>3. /\ Len(bonuses) \in Nat /\ Len(bonuses') = Len(bonuses) + 1
      /\ \A j \in 1..Len(bonuses) : bonuses'[j] = bonuses[j]
      /\ bonuses'[Len(bonuses) + 1] = NewBonus(w)
  BY <1>1
<1>4. 1..Len(bonuses') = (1..Len(bonuses)) \union {Len(bonuses) + 1}
  BY <1>3
<1> QED BY <1>2, <1>3, <1>4 DEF Claims, Ids

LEMMA PastReturn ==
  ASSUME BonusInv, NEW w \in Workers, NEW answer, Return(w, answer), NEW a, NEW r
  PROVE  Past(a, r)' = Past(a, r) \ {w}
BY DEF BonusInv, TypeOK, Return, Past

LEMMA PastGoto ==
  ASSUME BonusInv, NEW w \in Workers, NEW label, Goto(w, label), NEW a, NEW r
  PROVE  /\ Past(a, r)' \subseteq Past(a, r) \union {w}
         /\ \/ label # "create"
            \/ job[w].account # a
            \/ job[w].rule # r
            => Past(a, r)' \subseteq Past(a, r)
BY DEF BonusInv, TypeOK, Goto, Past

\* What a step does to the claims of a one-time rule: most leave them alone; a
\* worker passes the count on an empty table, or because the count failed; a
\* worker past the count inserts its claim.
LEMMA ClaimSteps ==
  ASSUME BonusInv, [Next]_vars, NEW a, NEW r \in DOMAIN Rules, Rules[r].oneTime
  PROVE  \/ /\ Claims(a, r)' = Claims(a, r)
            /\ Past(a, r)' \subseteq Past(a, r)
            /\ miscounts' = miscounts
         \/ /\ Claims(a, r)' = {}
            /\ miscounts' = miscounts
         \/ /\ Claims(a, r)' = Claims(a, r)
            /\ \E w \in Workers : Past(a, r)' \subseteq Past(a, r) \union {w}
            /\ "count" \in Faults
            /\ miscounts' = miscounts + 1
         \/ /\ Claims(a, r)' = Claims(a, r) \union {Len(bonuses) + 1}
            /\ \E w \in Past(a, r) : Past(a, r)' \subseteq Past(a, r) \ {w}
            /\ miscounts' = miscounts
<1> DEFINE Same == /\ Claims(a, r)' = Claims(a, r)
                   /\ Past(a, r)' \subseteq Past(a, r)
                   /\ miscounts' = miscounts
           Passed == Claims(a, r)' = {} /\ miscounts' = miscounts
           Missed == /\ Claims(a, r)' = Claims(a, r)
                     /\ \E w \in Workers : Past(a, r)' \subseteq Past(a, r) \union {w}
                     /\ "count" \in Faults
                     /\ miscounts' = miscounts + 1
           Claimed == /\ Claims(a, r)' = Claims(a, r) \union {Len(bonuses) + 1}
                      /\ \E w \in Past(a, r) : Past(a, r)' \subseteq Past(a, r) \ {w}
                      /\ miscounts' = miscounts
<1> SUFFICES Same \/ Passed \/ Missed \/ Claimed
  OBVIOUS
<1>0. bonuses' = bonuses => Claims(a, r)' = Claims(a, r)
  BY DEF Claims, Ids
<1>1. ASSUME NEW w \in Workers, NEW answer, Return(w, answer), UNCHANGED store PROVE Same
  BY <1>0, <1>1, PastReturn DEF store
<1>2. ASSUME NEW w \in Workers, NEW label, Goto(w, label), UNCHANGED store,
             label # "create" \/ job[w].account # a \/ job[w].rule # r
      PROVE  Same
  BY <1>0, <1>2, PastGoto DEF store
<1>3. ASSUME NEW w \in Workers
      PROVE  NextAfterAbuse(w) # "create" \/ job[w].rule # r
  BY DEF NextAfterAbuse, Rule
<1>4. ASSUME NEW w \in Workers, NEW call \in calls, Begin(w, call) PROVE Same
  BY <1>0, <1>4 DEF Begin, store, Past, BonusInv, TypeOK
<1>5. ASSUME NEW w \in Workers, CheckPlayer(w) PROVE Same
  <2>1. UNCHANGED store
    BY <1>5 DEF CheckPlayer
  <2>2. CASE Goto(w, IF RiskEnabled THEN "abuse" ELSE NextAfterAbuse(w))
    BY <1>2, <1>3, <2>1, <2>2
  <2>3. CASE Return(w, "error")
    BY <1>1, <2>1, <2>3
  <2> QED BY <1>5, <2>2, <2>3 DEF CheckPlayer
<1>6. ASSUME NEW w \in Workers, CheckAbuse(w) PROVE Same
  <2>1. UNCHANGED store
    BY <1>6 DEF CheckAbuse
  <2>2. CASE Goto(w, NextAfterAbuse(w))
    BY <1>2, <1>3, <2>1, <2>2
  <2>3. CASE Return(w, "error")
    BY <1>1, <2>1, <2>3
  <2> QED BY <1>6, <2>2, <2>3 DEF CheckAbuse
<1>7. ASSUME NEW w \in Workers, CheckOneTime(w) PROVE Same \/ Passed \/ Missed
  <2>1. CASE Return(w, "error") /\ UNCHANGED store
    BY <1>1, <2>1
  <2>2. CASE /\ Claims(job[w].account, job[w].rule) = {}
             /\ Goto(w, "create") /\ UNCHANGED store
    <3>1. CASE job[w].account = a /\ job[w].rule = r
      BY <1>0, <2>2, <3>1 DEF store
    <3>2. CASE ~(job[w].account = a /\ job[w].rule = r)
      BY <1>2, <2>2, <3>2
    <3> QED BY <3>1, <3>2
  <2>3. CASE /\ "count" \in Faults /\ miscounts' = miscounts + 1
             /\ Goto(w, "create") /\ UNCHANGED bonuses
    BY <1>0, <2>3, PastGoto
  <2> QED BY <1>7, <2>1, <2>2, <2>3 DEF CheckOneTime
<1>8. ASSUME NEW w \in Workers, Create(w) PROVE Same \/ Claimed
  <2>1. pc[w] = "create"
    BY <1>8 DEF Create
  <2>2. CASE Return(w, "error") /\ UNCHANGED store
    BY <1>1, <2>2
  <2>3. ASSUME NEW answer, CreateBonus(w), Return(w, answer) PROVE Same \/ Claimed
    <3>1. Past(a, r)' = Past(a, r) \ {w} /\ miscounts' = miscounts
      BY <2>3, PastReturn DEF CreateBonus
    <3>2. CASE job[w].account = a /\ job[w].rule = r
      <4>1. w \in Past(a, r)
        BY <2>1, <3>2 DEF Past
      <4> QED BY <2>3, <3>1, <3>2, <4>1, ClaimsCreated
    <3>3. CASE ~(job[w].account = a /\ job[w].rule = r)
      BY <2>3, <3>1, <3>3, ClaimsCreated
    <3> QED BY <3>2, <3>3
  <2> QED BY <1>8, <2>2, <2>3 DEF Create
<1>9. ASSUME NEW w \in Workers, Load(w) PROVE Same
  BY <1>0, <1>9 DEF Load, store, Past, BonusInv, TypeOK
<1>10. ASSUME NEW w \in Workers, LoadFails(w) PROVE Same
  BY <1>1, <1>10 DEF LoadFails
<1>11. ASSUME NEW w \in Workers, CheckMaxBet(w) PROVE Same
  BY <1>1, <1>11 DEF CheckMaxBet
<1>12. ASSUME NEW w \in Workers, NEW i \in todo[w], Write(w, i) \/ WriteFails(w, i) PROVE Same
  <2>1. pc[w] = "write"
    BY <1>12 DEF Write, WriteFails
  <2>2. Claims(a, r)' = Claims(a, r) /\ miscounts' = miscounts
    <3>1. CASE Update(w, i)
      BY <2>1, <3>1, UpdateKeepsTerms, ClaimsKept DEF Update
    <3>2. CASE Miss(w, {i})
      BY <1>0, <3>2 DEF Miss
    <3> QED BY <1>12, <3>1, <3>2 DEF Write, WriteFails
  <2>3. CASE Skip(w, i)
    BY <2>2, <2>3 DEF Skip, Past
  <2>4. CASE Return(w, "error")
    BY <2>2, <2>4, PastReturn
  <2> QED BY <1>12, <2>3, <2>4 DEF Write, WriteFails
<1>13. ASSUME NEW w \in Workers, Finish(w) PROVE Same
  BY <1>1, <1>13 DEF Finish
<1>14. ASSUME NEW w \in Workers, Crash(w) PROVE Same
  BY <1>0, <1>14, PastReturn DEF Crash, Miss
<1>15. ASSUME NextDay PROVE Same
  BY <1>0, <1>15 DEF NextDay, store, Past
<1>16. ASSUME UNCHANGED vars PROVE Same
  BY <1>0, <1>16 DEF vars, store, Past
<1> HIDE DEF Same, Passed, Missed, Claimed
<1> QED
  BY <1>4, <1>5, <1>6, <1>7, <1>8, <1>9, <1>10, <1>11, <1>12, <1>13, <1>14, <1>15,
     <1>16 DEF Next

LEMMA ClaimsFinite ==
  ASSUME BonusInv, NEW a, NEW r
  PROVE  /\ IsFiniteSet(Claims(a, r)) /\ Cardinality(Claims(a, r)) \in Nat
         /\ IsFiniteSet(Past(a, r)) /\ Cardinality(Past(a, r)) \in Nat
         /\ Cardinality(Past(a, r)) <= Cardinality(Workers)
         /\ Cardinality(Workers) \in Nat /\ Cardinality(Workers) > 0
         /\ miscounts \in Nat
<1>1. Len(bonuses) \in Nat /\ miscounts \in Nat
  BY DEF BonusInv, TypeOK
<1>2. IsFiniteSet(1..Len(bonuses))
  BY <1>1, FS_Interval
<1>3. IsFiniteSet(Claims(a, r))
  <2>1. Claims(a, r) \subseteq 1..Len(bonuses)
    BY DEF Claims, Ids
  <2> QED BY <1>2, <2>1, FS_Subset
<1>4. IsFiniteSet(Past(a, r)) /\ Cardinality(Past(a, r)) <= Cardinality(Workers)
  <2>1. Past(a, r) \subseteq Workers
    BY DEF Past
  <2> QED BY <2>1, WorkersAssumption, FS_Subset
<1>5. Cardinality(Workers) \in Nat /\ Cardinality(Workers) # 0
  BY WorkersAssumption, FS_CardinalityType, FS_EmptySet
<1> QED BY <1>1, <1>3, <1>4, <1>5, FS_CardinalityType

LEMMA InitClaimants == Init => Claimants
<1> SUFFICES ASSUME Init, NEW a \in Accounts, NEW r \in DOMAIN Rules, Rules[r].oneTime
             PROVE  Cardinality(Claims(a, r)) + Cardinality(Past(a, r))
                      <= Cardinality(Workers) + miscounts
  BY DEF Claimants
<1>1. BonusInv
  BY InitBonusInv
<1>2. Past(a, r) = {} /\ miscounts = 0
  BY DEF Init, Past
<1>3. \A i, j \in Claims(a, r) : i = j
  BY OpeningClaimsAssumption DEF Init, Claims, Ids
<1>4. Cardinality(Claims(a, r)) <= 1
  <2>1. CASE Claims(a, r) = {}
    BY <2>1, FS_EmptySet
  <2>2. ASSUME NEW i \in Claims(a, r) PROVE Cardinality(Claims(a, r)) = 1
    <3>1. Claims(a, r) = {i}
      BY <1>3
    <3> QED BY <3>1, FS_Singleton
  <2> QED BY <2>1, <2>2
<1>5. Cardinality(Past(a, r)) = 0
  BY <1>2, FS_EmptySet
<1> QED BY <1>1, <1>2, <1>4, <1>5, ClaimsFinite

LEMMA StepClaimants == BonusInv /\ Claimants /\ [Next]_vars => Claimants'
<1> SUFFICES ASSUME BonusInv, Claimants, [Next]_vars,
                    NEW a \in Accounts, NEW r \in DOMAIN Rules, Rules[r].oneTime
             PROVE  Cardinality(Claims(a, r)') + Cardinality(Past(a, r)')
                      <= Cardinality(Workers) + miscounts'
  BY DEF Claimants
<1> DEFINE C == Claims(a, r)
           P == Past(a, r)
<1>1. Cardinality(C) + Cardinality(P) <= Cardinality(Workers) + miscounts
  BY DEF Claimants
<1>2. /\ IsFiniteSet(C) /\ Cardinality(C) \in Nat
      /\ IsFiniteSet(P) /\ Cardinality(P) \in Nat
      /\ Cardinality(P) <= Cardinality(Workers)
      /\ Cardinality(Workers) \in Nat
      /\ miscounts \in Nat
  BY ClaimsFinite
<1>3. /\ IsFiniteSet(P') /\ Cardinality(P') \in Nat
      /\ Cardinality(P') <= Cardinality(Workers)
  <2>1. P' \subseteq Workers
    BY DEF Past
  <2> QED BY <2>1, WorkersAssumption, FS_Subset, FS_CardinalityType
<1> HIDE DEF C, P
<1>4. CASE C' = C /\ P' \subseteq P /\ miscounts' = miscounts
  <2>1. Cardinality(P') <= Cardinality(P)
    BY <1>2, <1>4, FS_Subset
  <2> QED BY <1>1, <1>2, <1>3, <1>4, <2>1 DEF C, P
<1>5. CASE C' = {} /\ miscounts' = miscounts
  <2>1. Cardinality(C') = 0
    BY <1>5, FS_EmptySet
  <2> QED BY <1>2, <1>3, <1>5, <2>1 DEF C, P
<1>6. ASSUME NEW w \in Workers, C' = C, P' \subseteq P \union {w}, miscounts' = miscounts + 1
      PROVE  Cardinality(C') + Cardinality(P') <= Cardinality(Workers) + miscounts'
  <2>1. /\ IsFiniteSet(P \union {w})
        /\ Cardinality(P \union {w}) = Cardinality(P) \/ Cardinality(P \union {w}) = Cardinality(P) + 1
    BY <1>2, FS_AddElement
  <2>2. Cardinality(P') <= Cardinality(P \union {w})
    BY <1>6, <2>1, FS_Subset
  <2> QED BY <1>1, <1>2, <1>3, <1>6, <2>1, <2>2
<1>7. ASSUME C' = C \union {Len(bonuses) + 1}, NEW w \in P, P' \subseteq P \ {w},
             miscounts' = miscounts
      PROVE  Cardinality(C') + Cardinality(P') <= Cardinality(Workers) + miscounts'
  <2>1. Cardinality(C') = Cardinality(C) \/ Cardinality(C') = Cardinality(C) + 1
    BY <1>2, <1>7, FS_AddElement
  <2>2. IsFiniteSet(P \ {w}) /\ Cardinality(P \ {w}) = Cardinality(P) - 1
    BY <1>2, FS_RemoveElement
  <2>3. Cardinality(P') <= Cardinality(P \ {w})
    BY <1>7, <2>2, FS_Subset
  <2> QED BY <1>1, <1>2, <1>3, <1>7, <2>1, <2>2, <2>3
<1>8. \/ C' = C /\ P' \subseteq P /\ miscounts' = miscounts
      \/ C' = {} /\ miscounts' = miscounts
      \/ /\ C' = C /\ \E w \in Workers : P' \subseteq P \union {w}
         /\ miscounts' = miscounts + 1
      \/ /\ C' = C \union {Len(bonuses) + 1}
         /\ \E w \in P : P' \subseteq P \ {w}
         /\ miscounts' = miscounts
  BY ClaimSteps DEF C, P
<1> QED BY <1>4, <1>5, <1>6, <1>7, <1>8 DEF C, P

\* A one-time rule is claimed more often than once only by as many calls as
\* overlap or whose count failed, whatever else fails or dies.
THEOREM ClaimsAreBounded == Spec => []ClaimsBoundedByOverlap
<1>1. BonusInv /\ Claimants => ClaimsBoundedByOverlap
  <2> SUFFICES ASSUME BonusInv, Claimants, NEW a \in Accounts, NEW r \in DOMAIN Rules,
                      Rules[r].oneTime
               PROVE  Cardinality(Claims(a, r)) <= Cardinality(Workers) + miscounts
    BY DEF ClaimsBoundedByOverlap
  <2>1. Cardinality(Claims(a, r)) + Cardinality(Past(a, r))
          <= Cardinality(Workers) + miscounts
    BY DEF Claimants
  <2> QED BY <2>1, ClaimsFinite
<1> QED BY <1>1, InitBonusInv, StepBonusInv, InitClaimants, StepClaimants, PTL DEF Spec

\* Calls that do not overlap claim a one-time rule once, as long as the count
\* of the claims does not fail.
THEOREM SerialClaimsOnce ==
  ASSUME Cardinality(Workers) = 1
  PROVE  Spec => []OneTimeOnce
<1> DEFINE Counted == "count" \notin Faults => miscounts = 0
<1>1. Init => Counted
  BY DEF Init
<1>2. BonusInv /\ Counted /\ [Next]_vars => Counted'
  <2> SUFFICES ASSUME BonusInv, [Next]_vars, "count" \notin Faults, miscounts = 0
               PROVE  miscounts' = 0
    OBVIOUS
  <2>1. ASSUME UNCHANGED store PROVE miscounts' = 0
    BY <2>1 DEF store
  <2> QED BY <2>1 DEF Next, vars, Begin, CheckPlayer, CheckAbuse, CheckOneTime, Create,
             CreateBonus, Load, LoadFails, CheckMaxBet, Write, WriteFails, Update,
             Miss, Finish, Crash, NextDay, store
<1>3. ClaimsBoundedByOverlap /\ Counted => OneTimeOnce
  BY DEF ClaimsBoundedByOverlap, OneTimeOnce
<1> QED
  BY <1>1, <1>2, <1>3, ClaimsAreBounded, InitBonusInv, StepBonusInv, PTL DEF Spec

-----------------------------------------------------------------------------
(* Calls that do not overlap: an engine with one worker.  The rows it has   *)
(* still to write are as it read them, whatever fails or dies in between,   *)
(* and what is due on them is what they have, missed or are to get yet.     *)

Alone == Cardinality(Workers) = 1

Kinds ==
  \A w \in Workers :
    /\ pc[w] \in {"player", "abuse", "count", "create"} => job[w].kind = "award"
    /\ pc[w] = "load" => job[w].kind # "award"
    /\ pc[w] = "write" => job[w].kind \in {"wager", "forfeit", "expire"}
    /\ pc[w] # "write" => todo[w] = {}

Fresh == \A w \in Workers : \A i \in todo[w] : copy[w][i] = bonuses[i]

\* What is left to write: for a wager only bonuses it contributes to, for a
\* forfeit every bonus of the account that is still active.
Remaining ==
  \A w \in Workers :
    pc[w] = "write" =>
      /\ job[w].kind = "wager" =>
           \A i \in todo[w] : Counts(job[w], bonuses[i]) # 0
      /\ job[w].kind = "forfeit" =>
           \A i \in Ids :
             bonuses[i].status = "active" /\ bonuses[i].account = job[w].account
               => i \in todo[w]

Pending(w, i) == IF i \in todo[w] THEN Added(job[w], copy[w][i]) ELSE 0

Exact ==
  \A w \in Workers, i \in Ids :
    bonuses[i].progress + missed[i] + Pending(w, i) = due[i]

Settled == \A i \in Ids : bonuses[i].progress + missed[i] = due[i]

SerialInv == Kinds /\ Fresh /\ Remaining /\ Exact /\ ForfeitTakesAll

LEMMA RowInts ==
  ASSUME NEW rows \in Seq(Bonus), NEW tally \in Seq(Int), Len(tally) = Len(rows),
         NEW i \in 1..Len(rows)
  PROVE  rows[i].progress \in Int /\ tally[i] \in Int
<1>1. rows[i] \in Bonus /\ tally[i] \in Int
  OBVIOUS
<1> QED BY <1>1 DEF Bonus

LEMMA ProgressInt ==
  ASSUME BonusInv, NEW i \in Ids
  PROVE  bonuses[i].progress \in Int /\ missed[i] \in Int /\ due[i] \in Int
BY RowInts DEF BonusInv, TypeOK, Ids

\* A worker with nothing left to write owes nothing.
LEMMA NothingPending ==
  ASSUME BonusInv, SerialInv, NEW w \in Workers, todo[w] = {}
  PROVE  Settled
<1>1. \A i \in Ids : bonuses[i].progress + missed[i] + 0 = due[i]
  BY DEF SerialInv, Exact, Pending
<1> QED BY <1>1, ProgressInt DEF Settled

LEMMA IdleSettled == BonusInv /\ SerialInv => ProgressExact
<1> SUFFICES ASSUME BonusInv, SerialInv, \A w \in Workers : pc[w] = "idle"
             PROVE  Settled
  BY DEF ProgressExact, Settled
<1>1. PICK w \in Workers : TRUE
  BY WorkersAssumption
<1> QED BY <1>1, NothingPending DEF SerialInv, Kinds

LEMMA OneWorker == ASSUME Alone, NEW u \in Workers, NEW w \in Workers PROVE u = w
<1>1. \E x : Workers = {x}
  BY WorkersAssumption, FS_Singleton DEF Alone
<1> QED BY <1>1

LEMMA InitSerial == Init => SerialInv
<1> SUFFICES ASSUME Init PROVE SerialInv
  OBVIOUS
<1>1. Kinds /\ Fresh /\ Remaining /\ ForfeitTakesAll
  BY DEF Init, Kinds, Fresh, Remaining, ForfeitTakesAll
<1>2. Exact
  BY OpeningAssumption DEF Init, Exact, Pending, Ids
<1> QED BY <1>1, <1>2 DEF SerialInv

LEMMA ReturnSerial ==
  ASSUME Alone, BonusInv, SerialInv, NEW w \in Workers, NEW answer, Return(w, answer),
         Settled', BonusInv',
         answer = "ok" /\ job[w].kind = "forfeit" =>
           \A i \in Ids' :
             bonuses'[i].account = job[w].account => bonuses'[i].status # "active"
  PROVE  SerialInv'
<1>1. \A u \in Workers : u = w
  BY OneWorker
<1>2. pc'[w] = "idle" /\ todo'[w] = {} /\ job' = job /\ reply'[w] = answer
  BY DEF Return, BonusInv, TypeOK
<1>3. Kinds' /\ Fresh' /\ Remaining'
  BY <1>1, <1>2 DEF Kinds, Fresh, Remaining
<1>4. ForfeitTakesAll'
  BY <1>1, <1>2 DEF ForfeitTakesAll
<1>5. Exact'
  <2>1. \A i \in Ids' : /\ bonuses'[i].progress \in Int /\ missed'[i] \in Int
                        /\ due'[i] \in Int
    BY RowInts DEF BonusInv, TypeOK, Ids
  <2>2. \A u \in Workers, i \in Ids' : Pending(u, i)' = 0
    BY <1>1, <1>2 DEF Pending
  <2> QED BY <2>1, <2>2 DEF Settled, Exact
<1> QED BY <1>3, <1>4, <1>5 DEF SerialInv

LEMMA GotoSerial ==
  ASSUME Alone, BonusInv, SerialInv, NEW w \in Workers,
         NEW label \in {"abuse", "count", "create"}, Goto(w, label),
         pc[w] \in {"player", "abuse", "count"}, UNCHANGED <<bonuses, due, missed>>
  PROVE  SerialInv'
<1>1. \A u \in Workers : u = w
  BY OneWorker
<1>2. pc'[w] = label /\ todo' = todo /\ copy' = copy /\ job' = job
  BY DEF Goto, BonusInv, TypeOK
<1>3. Kinds'
  BY <1>1, <1>2 DEF SerialInv, Kinds
<1>4. Fresh' /\ Exact'
  BY <1>2 DEF SerialInv, Fresh, Exact, Pending, Ids
<1>5. Remaining' /\ ForfeitTakesAll'
  BY <1>1, <1>2 DEF Remaining, ForfeitTakesAll
<1> QED BY <1>3, <1>4, <1>5 DEF SerialInv

\* The row a lone worker stores is computed from the row in the table.
LEMMA UpdateSerial ==
  ASSUME BonusInv, SerialInv, NEW w \in Workers, pc[w] = "write", NEW i \in todo[w],
         Update(w, i)
  PROVE  /\ i \in 1..Len(bonuses) /\ Len(bonuses') = Len(bonuses)
         /\ bonuses[i].status = "active"
         /\ bonuses'[i] = Written(job[w], bonuses[i])
         /\ \A j \in 1..Len(bonuses) : j # i => bonuses'[j] = bonuses[j]
         /\ bonuses'[i].progress = bonuses[i].progress + Pending(w, i)
<1>1. /\ bonuses \in Seq(Bonus)
      /\ i \in 1..Len(bonuses)
      /\ copy[w][i] = bonuses[i]
      /\ bonuses[i].status = "active"
  BY DEF BonusInv, TypeOK, Copies, SerialInv, Fresh, Ids
<1>2. bonuses' = [bonuses EXCEPT ![i] = Written(job[w], bonuses[i])]
  BY <1>1 DEF Update
<1>3. Written(job[w], bonuses[i]).progress = bonuses[i].progress + Added(job[w], bonuses[i])
  BY DEF Written
<1>4. /\ Len(bonuses') = Len(bonuses)
      /\ bonuses'[i] = Written(job[w], bonuses[i])
      /\ \A j \in 1..Len(bonuses) : j # i => bonuses'[j] = bonuses[j]
  BY <1>1, <1>2
<1> QED BY <1>1, <1>3, <1>4 DEF Pending

\* A row that is written or missed settles its share; what the others have to
\* get stays.
LEMMA RowSettles ==
  ASSUME BonusInv, SerialInv, NEW w \in Workers, pc[w] = "write", NEW i \in todo[w],
         Update(w, i) \/ Miss(w, {i}), NEW j \in Ids
  PROVE  /\ bonuses'[j].progress + missed'[j] + (IF j = i THEN 0 ELSE Pending(w, j)) = due'[j]
         /\ Ids' = Ids /\ i \in Ids
<1>1. /\ bonuses[j].progress \in Int /\ missed[j] \in Int /\ due[j] \in Int
      /\ bonuses[j].progress + missed[j] + Pending(w, j) = due[j]
  BY ProgressInt DEF SerialInv, Exact
<1>2. Pending(w, j) \in Int
  <2>1. job[w] \in Calls /\ copy[w] \in Seq(Bonus) /\ \A k \in todo[w] : k \in 1..Len(copy[w])
    BY DEF BonusInv, TypeOK, Making, Copies
  <2>2. ASSUME j \in todo[w] PROVE Added(job[w], copy[w][j]) \in Int
    BY <2>1, <2>2, AddedInt
  <2> QED BY <2>2 DEF Pending
<1>3. i \in Ids
  BY DEF BonusInv, TypeOK
<1>4. CASE Update(w, i)
  <2>1. due' = due /\ missed' = missed
    BY <1>4 DEF Update
  <2>2. /\ Len(bonuses') = Len(bonuses)
        /\ bonuses'[j].progress =
             IF j = i THEN bonuses[j].progress + Pending(w, j) ELSE bonuses[j].progress
    BY <1>4, UpdateSerial DEF Ids
  <2>3. Ids' = Ids
    BY <2>2 DEF Ids
  <2> QED BY <1>1, <1>2, <1>3, <2>1, <2>2, <2>3
<1>5. CASE Miss(w, {i})
  <2>1. {i} \in SUBSET todo[w]
    OBVIOUS
  <2>2. /\ bonuses' = bonuses /\ due' = due
        /\ missed'[j] = missed[j] + Shares(w, {i}, copy[w])[j]
    BY <1>5, <2>1, MissTallied
  <2>3. missed'[j] = missed[j] + (IF j = i THEN Pending(w, j) ELSE 0)
    BY <2>2 DEF Pending, Shares
  <2>4. Ids' = Ids
    BY <2>2 DEF Ids
  <2> QED BY <1>1, <1>2, <1>3, <2>2, <2>3, <2>4
<1> QED BY <1>4, <1>5

LEMMA StepSerial ==
  Alone /\ BonusInv /\ BonusInv' /\ SerialInv /\ [Next]_vars => SerialInv'
<1> SUFFICES ASSUME Alone, BonusInv, BonusInv', SerialInv, [Next]_vars PROVE SerialInv'
  OBVIOUS
<1>1. ASSUME NEW u \in Workers, NEW w \in Workers PROVE u = w
  BY OneWorker
<1>2. ASSUME NEW w \in Workers, todo[w] = {}, UNCHANGED <<bonuses, due, missed>>
      PROVE  Settled'
  BY <1>2, NothingPending DEF Settled, Ids
<1>3. ASSUME NEW w \in Workers, NEW answer, Return(w, answer), pc[w] # "write",
             UNCHANGED <<bonuses, due, missed>>, answer = "ok" => job[w].kind # "forfeit"
      PROVE  SerialInv'
  <2>1. todo[w] = {}
    BY <1>3 DEF SerialInv, Kinds
  <2> QED BY <1>2, <1>3, <2>1, ReturnSerial
<1>4. ASSUME NEW w \in Workers, NEW call \in calls, Begin(w, call) PROVE SerialInv'
  <2>1. /\ pc'[w] \in {"player", "load"}
        /\ pc'[w] = "player" <=> job'[w].kind = "award"
        /\ reply'[w] = "none" /\ todo' = todo /\ copy' = copy /\ todo[w] = {}
        /\ bonuses' = bonuses /\ due' = due /\ missed' = missed
    <3>1. pc[w] = "idle" /\ todo[w] = {}
      BY <1>4 DEF Begin, SerialInv, Kinds
    <3> QED BY <1>4, <3>1 DEF Begin, store, BonusInv, TypeOK
  <2>2. Kinds' /\ Remaining' /\ ForfeitTakesAll'
    BY <1>1, <2>1 DEF Kinds, Remaining, ForfeitTakesAll
  <2>3. Fresh' /\ Exact'
    BY <1>1, <2>1 DEF SerialInv, Fresh, Exact, Pending, Ids
  <2> QED BY <2>2, <2>3 DEF SerialInv
<1>5. ASSUME NEW w \in Workers, CheckPlayer(w) PROVE SerialInv'
  <2>1. UNCHANGED store /\ pc[w] = "player"
    BY <1>5 DEF CheckPlayer
  <2>2. CASE Goto(w, IF RiskEnabled THEN "abuse" ELSE NextAfterAbuse(w))
    <3>1. (IF RiskEnabled THEN "abuse" ELSE NextAfterAbuse(w)) \in {"abuse", "count", "create"}
      BY DEF NextAfterAbuse
    <3> QED BY <2>1, <2>2, <3>1, GotoSerial DEF store
  <2>3. CASE Return(w, "error")
    BY <1>3, <2>1, <2>3 DEF store
  <2> QED BY <1>5, <2>2, <2>3 DEF CheckPlayer
<1>6. ASSUME NEW w \in Workers, CheckAbuse(w) PROVE SerialInv'
  <2>1. UNCHANGED store /\ pc[w] = "abuse"
    BY <1>6 DEF CheckAbuse
  <2>2. CASE Goto(w, NextAfterAbuse(w))
    <3>1. NextAfterAbuse(w) \in {"abuse", "count", "create"}
      BY DEF NextAfterAbuse
    <3> QED BY <2>1, <2>2, <3>1, GotoSerial DEF store
  <2>3. CASE Return(w, "error")
    BY <1>3, <2>1, <2>3 DEF store
  <2> QED BY <1>6, <2>2, <2>3 DEF CheckAbuse
<1>7. ASSUME NEW w \in Workers, CheckOneTime(w) PROVE SerialInv'
  <2>1. CASE Return(w, "error") /\ UNCHANGED store
    BY <1>3, <1>7, <2>1 DEF CheckOneTime, store
  <2>2. CASE Goto(w, "create") /\ UNCHANGED <<bonuses, due, missed>>
    BY <1>7, <2>2, GotoSerial DEF CheckOneTime
  <2> QED BY <1>7, <2>1, <2>2 DEF CheckOneTime, store
<1>8. ASSUME NEW w \in Workers, Create(w) PROVE SerialInv'
  <2>1. pc[w] = "create" /\ job[w].kind = "award"
    BY <1>8 DEF Create, SerialInv, Kinds
  <2>2. CASE Return(w, "error") /\ UNCHANGED store
    BY <1>3, <2>1, <2>2 DEF store
  <2>3. ASSUME NEW answer, CreateBonus(w), Return(w, answer) PROVE SerialInv'
    <3>1. /\ bonuses \in Seq(Bonus)
          /\ \A tally \in {due, missed} : tally \in Seq(Int) /\ Len(tally) = Len(bonuses)
      BY DEF BonusInv, TypeOK
    <3>2. /\ bonuses' = Append(bonuses, NewBonus(w))
          /\ due' = Append(due, 0) /\ missed' = Append(missed, 0)
      BY <2>3 DEF CreateBonus
    <3>3. NewBonus(w).progress = 0
      BY DEF NewBonus
    <3>4. /\ Len(bonuses) \in Nat /\ Len(bonuses') = Len(bonuses) + 1
          /\ \A j \in 1..Len(bonuses) :
               bonuses'[j] = bonuses[j] /\ due'[j] = due[j] /\ missed'[j] = missed[j]
          /\ bonuses'[Len(bonuses) + 1] = NewBonus(w)
          /\ due'[Len(bonuses) + 1] = 0 /\ missed'[Len(bonuses) + 1] = 0
      BY <3>1, <3>2
    <3>5. Settled
      BY <2>1, NothingPending DEF SerialInv, Kinds
    <3>6. Settled'
      BY <3>3, <3>4, <3>5 DEF Settled, Ids
    <3> QED BY <2>1, <2>3, <3>6, ReturnSerial
  <2> QED BY <1>8, <2>2, <2>3 DEF Create
<1>9. ASSUME NEW w \in Workers, Load(w) PROVE SerialInv'
  <2>1. /\ job[w] \in Calls
        /\ job[w].kind \notin {"award", "maxbet"}
    BY <1>9 DEF Load, SerialInv, Kinds, BonusInv, Making
  <2>2. job[w].kind \in {"wager", "forfeit", "expire"}
    BY <2>1, CallsAssumption
  <2>3. /\ pc'[w] = "write" /\ job' = job /\ copy'[w] = bonuses
        /\ todo'[w] = {i \in Ids : /\ Selected(job[w], i)
                                   /\ job[w].kind = "wager" => Counts(job[w], bonuses[i]) # 0}
        /\ bonuses' = bonuses /\ missed' = missed
    BY <1>9 DEF Load, store, BonusInv, TypeOK
  <2>4. Kinds' /\ ForfeitTakesAll'
    BY <1>1, <2>2, <2>3 DEF Kinds, ForfeitTakesAll
  <2>5. Fresh'
    BY <1>1, <2>3 DEF Fresh
  <2>6. Remaining'
    <3>1. \A i \in todo'[w] : job[w].kind = "wager" => Counts(job[w], bonuses[i]) # 0
      BY <2>3
    <3>2. \A i \in Ids : /\ job[w].kind = "forfeit"
                         /\ bonuses[i].status = "active"
                         /\ bonuses[i].account = job[w].account
                         => i \in todo'[w]
      BY <2>3 DEF Selected
    <3>3. \A i : Counts(job[w], bonuses[i])' = Counts(job'[w], bonuses'[i])
      BY DEF Counts
    <3> QED BY <1>1, <2>3, <3>1, <3>2 DEF Remaining, Ids
  <2>7. Exact'
    <3>1. /\ pc[w] # "idle" /\ bonuses \in Seq(Bonus) /\ todo'[w] \subseteq 1..Len(bonuses)
          /\ due' = Plus(due, Shares(w, todo'[w], bonuses)) /\ todo[w] = {}
      BY <1>9 DEF Load, BonusInv, TypeOK, Ids, SerialInv, Kinds
    <3>2. PerId(due) /\ Fits(todo'[w], bonuses)
      BY <3>1 DEF BonusInv, TypeOK, PerId, Fits
    <3>3. ASSUME NEW i \in Ids
          PROVE  bonuses'[i].progress + missed'[i] + Pending(w, i)' = due'[i]
      <4>1. due'[i] = due[i] + Shares(w, todo'[w], bonuses)[i]
        BY <3>1, <3>2, PlusShares
      <4>2. Pending(w, i)' = Shares(w, todo'[w], bonuses)[i]
        BY <2>3 DEF Pending, Shares, Added, Counts
      <4>3. bonuses[i].progress + missed[i] = due[i]
        BY <3>1, NothingPending DEF Settled
      <4>4. Pending(w, i)' \in Int
        BY <2>1, <3>1, <4>2, AddedInt DEF Shares
      <4> QED BY <2>3, <4>1, <4>2, <4>3, <4>4, ProgressInt
    <3> QED BY <1>1, <2>3, <3>3 DEF Exact, Ids
  <2> QED BY <2>4, <2>5, <2>6, <2>7 DEF SerialInv
<1>10. ASSUME NEW w \in Workers, LoadFails(w) PROVE SerialInv'
  BY <1>3, <1>10 DEF LoadFails, store
<1>11. ASSUME NEW w \in Workers, CheckMaxBet(w) PROVE SerialInv'
  BY <1>3, <1>11 DEF CheckMaxBet, store
<1>12. ASSUME NEW w \in Workers, NEW i \in todo[w], pc[w] = "write", Skip(w, i),
              Update(w, i) \/ (Miss(w, {i}) /\ job[w].kind # "forfeit")
       PROVE  SerialInv'
  <2>1. /\ pc' = pc /\ job' = job /\ copy' = copy
        /\ todo'[w] = todo[w] \ {i}
    BY <1>12 DEF Skip, BonusInv, TypeOK
  <2>2. /\ i \in 1..Len(bonuses) /\ Len(bonuses') = Len(bonuses)
        /\ \A j \in 1..Len(bonuses) : j # i => bonuses'[j] = bonuses[j]
    BY <1>12, UpdateSerial DEF Miss, BonusInv, TypeOK, Ids
  <2>3. todo[w] \subseteq 1..Len(bonuses)
    BY DEF BonusInv, TypeOK, Ids
  <2>4. Kinds' /\ ForfeitTakesAll'
    BY <1>1, <1>12, <2>1 DEF SerialInv, Kinds, ForfeitTakesAll
  <2>5. Fresh'
    BY <1>1, <2>1, <2>2, <2>3 DEF SerialInv, Fresh
  <2>6. Remaining'
    <3>1. ASSUME job[w].kind = "wager", NEW j \in todo'[w]
          PROVE  Counts(job'[w], bonuses'[j]) # 0
      BY <1>12, <2>1, <2>2, <2>3, <3>1 DEF SerialInv, Remaining
    <3>2. ASSUME job[w].kind = "forfeit", NEW j \in 1..Len(bonuses),
                 bonuses'[j].status = "active", bonuses'[j].account = job[w].account
          PROVE  j \in todo'[w]
      <4>1. bonuses'[i].status = "forfeited"
        <5>1. Update(w, i)
          BY <1>12, <3>2
        <5>2. bonuses'[i] = Written(job[w], bonuses[i])
          BY <1>12, <5>1, UpdateSerial
        <5> QED BY <3>2, <5>2 DEF Written
      <4>2. j # i
        BY <3>2, <4>1
      <4> QED BY <1>12, <2>1, <2>2, <3>2, <4>2 DEF SerialInv, Remaining, Ids
    <3> QED BY <1>1, <2>1, <2>2, <3>1, <3>2 DEF Remaining, Ids, Counts
  <2>7. Exact'
    <3> SUFFICES ASSUME NEW j \in Ids'
                 PROVE  bonuses'[j].progress + missed'[j] + Pending(w, j)' = due'[j]
      BY <1>1 DEF Exact
    <3>1. j \in Ids
      BY <2>2 DEF Ids
    <3>2. bonuses'[j].progress + missed'[j] + (IF j = i THEN 0 ELSE Pending(w, j)) = due'[j]
      BY <1>12, <3>1, RowSettles
    <3>3. Pending(w, j)' = IF j = i THEN 0 ELSE Pending(w, j)
      BY <2>1 DEF Pending, Added, Counts
    <3> QED BY <3>2, <3>3
  <2> QED BY <2>2, <2>4, <2>5, <2>6, <2>7 DEF SerialInv
<1>13. ASSUME NEW w \in Workers, NEW i \in todo[w], Write(w, i) PROVE SerialInv'
  <2>1. pc[w] = "write" /\ Skip(w, i) /\ Update(w, i)
    BY <1>13 DEF Write
  <2> QED BY <1>12, <2>1
<1>14. ASSUME NEW w \in Workers, NEW i \in todo[w], WriteFails(w, i) PROVE SerialInv'
  <2>1. pc[w] = "write" /\ (Miss(w, {i}) \/ Update(w, i))
    BY <1>14 DEF WriteFails
  <2>2. CASE job[w].kind = "forfeit"
    <3>1. Return(w, "error")
      BY <1>14, <2>2 DEF WriteFails
    <3>2. Settled'
      <4> SUFFICES ASSUME NEW j \in Ids'
                   PROVE  bonuses'[j].progress + missed'[j] = due'[j]
        BY DEF Settled
      <4>1. Ids' = Ids
        BY <2>1, RowSettles, ProgressInt DEF BonusInv, TypeOK
      <4>2. bonuses'[j].progress + missed'[j] + 0 = due'[j]
        BY <2>1, <2>2, <4>1, RowSettles DEF Pending, Added
      <4>3. bonuses'[j].progress \in Int /\ missed'[j] \in Int
        BY RowInts DEF BonusInv, TypeOK, Ids
      <4> QED BY <4>2, <4>3
    <3> QED BY <3>1, <3>2, ReturnSerial
  <2>3. CASE job[w].kind # "forfeit"
    BY <1>12, <1>14, <2>1, <2>3 DEF WriteFails
  <2> QED BY <2>2, <2>3
<1>15. ASSUME NEW w \in Workers, Finish(w) PROVE SerialInv'
  <2>1. pc[w] = "write" /\ todo[w] = {} /\ Return(w, "ok") /\ bonuses' = bonuses
    BY <1>15 DEF Finish, store
  <2>2. ASSUME job[w].kind = "forfeit", NEW i \in Ids', bonuses'[i].account = job[w].account
        PROVE  bonuses'[i].status # "active"
    BY <2>1, <2>2 DEF SerialInv, Remaining, Ids
  <2> QED BY <1>2, <1>15, <2>1, <2>2, ReturnSerial DEF Finish, store
<1>16. ASSUME NEW w \in Workers, Crash(w) PROVE SerialInv'
  <2>1. Return(w, "none") /\ pc[w] # "idle" /\ Miss(w, todo[w])
    BY <1>16 DEF Crash
  <2>2. bonuses' = bonuses /\ due' = due
    BY <2>1, MissTallied
  <2>3. ASSUME NEW i \in Ids PROVE bonuses'[i].progress + missed'[i] = due'[i]
    <3>1. missed'[i] = missed[i] + Pending(w, i)
      BY <2>1, MissTallied DEF Pending, Shares
    <3>2. bonuses[i].progress + missed[i] + Pending(w, i) = due[i]
      BY DEF SerialInv, Exact
    <3>3. Pending(w, i) \in Int
      <4>1. job[w] \in Calls /\ copy[w] \in Seq(Bonus)
            /\ \A k \in todo[w] : k \in 1..Len(copy[w])
        BY <2>1 DEF BonusInv, TypeOK, Making, Copies
      <4>2. ASSUME i \in todo[w] PROVE Added(job[w], copy[w][i]) \in Int
        BY <4>1, <4>2, AddedInt
      <4> QED BY <4>2 DEF Pending
    <3> QED BY <2>2, <3>1, <3>2, <3>3, ProgressInt
  <2>4. Settled'
    BY <2>2, <2>3 DEF Settled, Ids
  <2> QED BY <2>1, <2>4, ReturnSerial
<1>17. ASSUME UNCHANGED <<store, pc, job, copy, todo, reply>> PROVE SerialInv'
  <2>1. bonuses' = bonuses /\ pc' = pc /\ job' = job /\ copy' = copy /\ todo' = todo
          /\ reply' = reply /\ due' = due /\ missed' = missed
    BY <1>17 DEF store
  <2>2. Kinds' /\ Fresh' /\ ForfeitTakesAll' /\ Remaining'
    BY <2>1 DEF SerialInv, Kinds, Fresh, ForfeitTakesAll, Remaining, Ids, Counts
  <2>3. Exact'
    BY <2>1 DEF SerialInv, Exact, Pending, Added, Counts, Ids
  <2> QED BY <2>2, <2>3 DEF SerialInv
<1>18. ASSUME NextDay \/ UNCHANGED vars PROVE SerialInv'
  BY <1>17, <1>18 DEF NextDay, vars, store
<1> QED
  BY <1>4, <1>5, <1>6, <1>7, <1>8, <1>9, <1>10, <1>11, <1>13, <1>14, <1>15, <1>16,
     <1>18 DEF Next

\* Calls that do not overlap lose a contribution only to a failed Update or to a
\* crash before it: between calls, the progress of a bonus and what was missed
\* that way are all that the wagers that read it were to add.  Lost replies, and
\* failures on the other bonuses of a call, cost nothing and add nothing twice.
THEOREM SerialProgressIsExact ==
  ASSUME Alone
  PROVE  Spec => []ProgressExact
<1> QED
  BY IdleSettled, InitBonusInv, StepBonusInv, InitSerial, StepSerial, PTL DEF Spec

\* A forfeit that overlaps no other call and returns no error has taken every
\* bonus of the account.
THEOREM SerialForfeitTakesAll ==
  ASSUME Alone
  PROVE  Spec => []ForfeitTakesAll
<1>1. SerialInv => ForfeitTakesAll
  BY DEF SerialInv
<1> QED
  BY <1>1, InitBonusInv, StepBonusInv, InitSerial, StepSerial, PTL DEF Spec

-----------------------------------------------------------------------------
(* The life cycle of a bonus.  With one worker and a count that never fails *)
(* a worker past the count knows of no claim; an insert is then an award,   *)
(* an update a wager or the end of the bonus, and every other step a        *)
(* stutter.                                                                 *)

Unclaimed ==
  \A w \in Workers :
    pc[w] = "create" /\ Rule(w).oneTime =>
      Claims(job[w].account, job[w].rule) = {}

LEMMA InitUnclaimed == Init => Unclaimed
BY DEF Init, Unclaimed

LEMMA StepUnclaimed ==
  ASSUME Alone, "count" \notin Faults, BonusInv, Unclaimed, [Next]_vars
  PROVE  Unclaimed'
<1> SUFFICES ASSUME NEW w \in Workers, pc'[w] = "create",
                    Rules[job'[w].rule].oneTime
             PROVE  Claims(job[w].account, job[w].rule)' = {}
  BY DEF Unclaimed, Rule
<1>1. ASSUME NEW u \in Workers PROVE u = w
  BY OneWorker
<1>2. ASSUME UNCHANGED <<bonuses, pc, job>>
      PROVE  Claims(job[w].account, job[w].rule)' = {}
  BY <1>2 DEF Unclaimed, Rule, Claims, Ids
<1>3. ASSUME NEW answer, Return(w, answer) PROVE FALSE
  BY <1>3 DEF Return, BonusInv, TypeOK
<1>4. ASSUME NEW label, Goto(w, label) PROVE label = "create" /\ job' = job
  BY <1>4 DEF Goto, BonusInv, TypeOK
<1>5. ASSUME NEW call \in calls, Begin(w, call) PROVE FALSE
  BY <1>5 DEF Begin, BonusInv, TypeOK
<1>6. ASSUME CheckPlayer(w) PROVE FALSE
  <2>1. CASE Return(w, "error")
    BY <1>3, <2>1
  <2>2. CASE Goto(w, IF RiskEnabled THEN "abuse" ELSE NextAfterAbuse(w))
    BY <1>4, <2>2 DEF NextAfterAbuse, Rule
  <2> QED BY <1>6, <2>1, <2>2 DEF CheckPlayer
<1>7. ASSUME CheckAbuse(w) PROVE FALSE
  <2>1. CASE Return(w, "error")
    BY <1>3, <2>1
  <2>2. CASE Goto(w, NextAfterAbuse(w))
    BY <1>4, <2>2 DEF NextAfterAbuse, Rule
  <2> QED BY <1>7, <2>1, <2>2 DEF CheckAbuse
<1>8. ASSUME CheckOneTime(w) PROVE Claims(job[w].account, job[w].rule)' = {}
  <2>1. CASE Return(w, "error")
    BY <1>3, <2>1
  <2>2. CASE Claims(job[w].account, job[w].rule) = {} /\ Goto(w, "create") /\ UNCHANGED store
    BY <1>4, <2>2 DEF store, Claims, Ids
  <2> QED BY <1>8, <2>1, <2>2 DEF CheckOneTime
<1>9. ASSUME Create(w) \/ LoadFails(w) \/ CheckMaxBet(w) \/ Finish(w) \/ Crash(w)
      PROVE  FALSE
  BY <1>3, <1>9 DEF Create, LoadFails, CheckMaxBet, Finish, Crash
<1>10. ASSUME Load(w) PROVE FALSE
  BY <1>10 DEF Load, BonusInv, TypeOK
<1>11. ASSUME NEW i \in todo[w], Write(w, i) \/ WriteFails(w, i) PROVE FALSE
  BY <1>3, <1>11 DEF Write, WriteFails, Skip
<1>12. ASSUME NextDay \/ UNCHANGED vars
       PROVE  Claims(job[w].account, job[w].rule)' = {}
  BY <1>2, <1>12 DEF NextDay, vars, store
<1> QED
  BY <1>1, <1>5, <1>6, <1>7, <1>8, <1>9, <1>10, <1>11, <1>12 DEF Next

LEMMA RowsOfSeq ==
  ASSUME NEW s \in Seq(Bonus)
  PROVE  LET rows == [i \in 1..Len(s) |-> Row(s[i])] IN
         /\ Len(s) \in Nat
         /\ rows \in Seq({Row(bonus) : bonus \in Bonus})
         /\ Len(rows) = Len(s)
         /\ DOMAIN rows = 1..Len(s)
         /\ \A i \in 1..Len(s) : rows[i] = Row(s[i])
<1>1. \A i \in 1..Len(s) : Row(s[i]) \in {Row(bonus) : bonus \in Bonus}
  OBVIOUS
<1> QED BY <1>1

LEMMA RowsFacts ==
  ASSUME BonusInv, BonusInv'
  PROVE  /\ Len(bonuses) \in Nat /\ Len(bonuses') \in Nat
         /\ Rows \in Seq({Row(bonus) : bonus \in Bonus})
         /\ Len(Rows) = Len(bonuses)
         /\ DOMAIN Rows = 1..Len(bonuses)
         /\ \A i \in 1..Len(bonuses) : Rows[i] = Row(bonuses[i])
         /\ Rows' \in Seq({Row(bonus) : bonus \in Bonus})
         /\ Len(Rows') = Len(bonuses')
         /\ DOMAIN Rows' = 1..Len(bonuses')
         /\ \A i \in 1..Len(bonuses') : Rows'[i] = Row(bonuses'[i])
<1>1. bonuses \in Seq(Bonus) /\ bonuses' \in Seq(Bonus)
  BY DEF BonusInv, TypeOK
<1>2. /\ Rows = [i \in 1..Len(bonuses) |-> Row(bonuses[i])]
      /\ Rows' = [i \in 1..Len(bonuses') |-> Row(bonuses'[i])]
  BY DEF Rows, Ids, Row
<1> QED BY <1>1, <1>2, RowsOfSeq

\* An insert is an award of the life cycle.
LEMMA CreateAwards ==
  ASSUME BonusInv, BonusInv', Unclaimed, NEW w \in Workers, pc[w] = "create",
         CreateBonus(w)
  PROVE  LC!Next
<1> DEFINE new == Row(NewBonus(w))
<1>1. /\ bonuses \in Seq(Bonus) /\ bonuses' = Append(bonuses, NewBonus(w))
      /\ NewBonus(w) \in Bonus
  BY NewBonusFacts DEF BonusInv, TypeOK, CreateBonus
<1>2. /\ Len(bonuses) \in Nat /\ Len(bonuses') = Len(bonuses) + 1
      /\ \A j \in 1..Len(bonuses) : bonuses'[j] = bonuses[j]
      /\ bonuses'[Len(bonuses) + 1] = NewBonus(w)
  BY <1>1
<1>3. /\ Rows' \in Seq({Row(bonus) : bonus \in Bonus})
      /\ Len(Rows') = Len(bonuses) + 1
      /\ \A i \in 1..Len(bonuses) + 1 : Rows'[i] = Row(bonuses'[i])
  BY <1>2, RowsFacts
<1>4. /\ Rows \in Seq({Row(bonus) : bonus \in Bonus})
      /\ Len(Rows) = Len(bonuses)
      /\ \A i \in 1..Len(bonuses) : Rows[i] = Row(bonuses[i])
  BY RowsFacts
<1>5. Rows' = Append(Rows, new)
  BY <1>1, <1>2, <1>3, <1>4
<1>6. Rows'[Len(Rows')] = new
  BY <1>2, <1>3
<1>7. /\ new.account = job[w].account /\ new.rule = job[w].rule
      /\ new.account \in Accounts /\ new.rule \in RuleIds
      /\ new = [account |-> new.account, rule |-> new.rule, amount |-> new.amount,
                required |-> new.required, progress |-> 0, status |-> "active"]
  BY <1>1 DEF Row, NewBonus, Bonus
<1>8. new.rule \in {id \in DOMAIN Rules : Rules[id].oneTime} =>
        ~LC!Claimed(new.account, new.rule)
  <2> SUFFICES ASSUME Rules[job[w].rule].oneTime, NEW i \in DOMAIN Rows,
                      Rows[i].account = job[w].account, Rows[i].rule = job[w].rule
               PROVE  FALSE
    BY <1>7 DEF LC!Claimed
  <2>1. i \in Claims(job[w].account, job[w].rule)
    BY <1>4, RowsFacts DEF Row, Claims, Ids
  <2> QED BY <2>1 DEF Unclaimed, Rule
<1> HIDE DEF new
<1>9. LC!Award(new.account, new.rule, new.amount, new.required)
  BY <1>5, <1>7, <1>8 DEF LC!Award
<1> QED BY <1>3, <1>4, <1>6, <1>7, <1>9 DEF LC!Next

\* An update is a wager or the end of the bonus.
LEMMA UpdateWagersOrCloses ==
  ASSUME BetsAreNatural, BonusInv, BonusInv', SerialInv, NEW w \in Workers, pc[w] = "write",
         NEW i \in todo[w], Update(w, i)
  PROVE  LC!Next
<1> DEFINE call == job[w]
           old == bonuses[i]
           new == Written(call, old)
<1>1. /\ bonuses \in Seq(Bonus)
      /\ i \in 1..Len(bonuses) /\ Len(bonuses') = Len(bonuses)
      /\ old \in Bonus /\ old.status = "active"
      /\ bonuses'[i] = new
      /\ \A j \in 1..Len(bonuses) : j # i => bonuses'[j] = bonuses[j]
  <2>1. /\ i \in 1..Len(bonuses) /\ Len(bonuses') = Len(bonuses)
        /\ old.status = "active" /\ bonuses'[i] = new
        /\ \A j \in 1..Len(bonuses) : j # i => bonuses'[j] = bonuses[j]
    BY UpdateSerial
  <2>2. bonuses \in Seq(Bonus)
    BY DEF BonusInv, TypeOK
  <2> HIDE DEF new
  <2> QED BY <2>1, <2>2
<1>2. call \in Calls /\ call.kind \in {"wager", "forfeit", "expire"}
  BY DEF BonusInv, Making, SerialInv, Kinds
<1>3. call.kind = "wager" => Counts(call, old) \in Nat /\ Counts(call, old) # 0
  BY <1>1, <1>2, CountsInt DEF SerialInv, Remaining
<1>4. /\ Rows' \in Seq({Row(bonus) : bonus \in Bonus})
      /\ Len(Rows') = Len(bonuses)
      /\ DOMAIN Rows' = 1..Len(bonuses)
      /\ \A j \in 1..Len(bonuses) : Rows'[j] = Row(bonuses'[j])
  BY <1>1, RowsFacts
<1>5. /\ Rows \in Seq({Row(bonus) : bonus \in Bonus})
      /\ Len(Rows) = Len(bonuses)
      /\ DOMAIN Rows = 1..Len(bonuses)
      /\ \A j \in 1..Len(bonuses) : Rows[j] = Row(bonuses[j])
  BY RowsFacts
<1>6. /\ Rows[i] = Row(old) /\ Rows'[i] = Row(new)
      /\ Rows' = [Rows EXCEPT ![i] = Row(new)]
  <2>1. \A j \in 1..Len(bonuses) : Rows'[j] = IF j = i THEN Row(new) ELSE Rows[j]
    BY <1>1, <1>4, <1>5
  <2> HIDE DEF new, old
  <2> QED BY <1>1, <1>4, <1>5, <2>1 DEF old
<1>7. CASE call.kind = "wager"
  <2>1. /\ old.progress \in Int /\ old.required \in Int
    BY <1>1 DEF Bonus
  <2>2. Row(new) = [account |-> old.account, rule |-> old.rule, amount |-> old.amount,
                    required |-> old.required,
                    progress |-> old.progress + Counts(call, old),
                    status |-> IF old.progress + Counts(call, old) >= old.required
                               THEN "completed" ELSE "active"]
    BY <1>1, <1>7 DEF Row, Written, Added
  <2>3. Rows'[i].progress - Rows[i].progress = Counts(call, old)
    BY <1>3, <1>6, <1>7, <2>1, <2>2 DEF Row
  <2>4. LC!Wager(i, Counts(call, old))
    <3> HIDE DEF call, old, new
    <3>1. Rows[i].status = "active"
      BY <1>1, <1>6 DEF Row
    <3>2. Counts(call, old) > 0
      BY <1>3, <1>7
    <3>3. Rows[i].progress = old.progress /\ Rows[i].required = old.required
            /\ Rows[i].account = old.account /\ Rows[i].rule = old.rule
            /\ Rows[i].amount = old.amount
      BY <1>6 DEF Row
    <3> QED BY <1>1, <1>5, <1>6, <2>2, <3>1, <3>2, <3>3 DEF LC!Wager
  <2> HIDE DEF call, old, new
  <2> QED BY <1>1, <1>4, <1>5, <2>3, <2>4 DEF LC!Next
<1>8. CASE call.kind \in {"forfeit", "expire"}
  <2> DEFINE status == IF call.kind = "expire" THEN "expired" ELSE "forfeited"
  <2>1. Row(new) = [Row(old) EXCEPT !.status = status]
    <3> DEFINE row == [account |-> old.account, rule |-> old.rule,
                       amount |-> old.amount, required |-> old.required,
                       progress |-> old.progress, status |-> status]
    <3>1. old.progress + 0 = old.progress
      BY <1>1 DEF Bonus
    <3>2. Row(new) = row
      <4> HIDE DEF call, old
      <4> QED BY <1>8, <3>1 DEF Row, Written, Added
    <3>3. [Row(old) EXCEPT !.status = status] = row
      <4> HIDE DEF old, call, status
      <4> QED BY DEF Row
    <3> HIDE DEF row, new, old, status
    <3> QED BY <3>2, <3>3
  <2>2. LC!Close(i, status)
    <3> HIDE DEF call, old, new, status
    <3>1. Rows[i].status = "active"
      BY <1>1, <1>6 DEF Row
    <3> QED BY <1>1, <1>5, <1>6, <2>1, <3>1 DEF LC!Close
  <2>3. status \in {"expired", "forfeited"}
    OBVIOUS
  <2> HIDE DEF status
  <2> QED BY <1>1, <1>5, <2>2, <2>3 DEF LC!Next
<1> QED BY <1>2, <1>7, <1>8

LEMMA LifeCycleStep ==
  ASSUME BetsAreNatural, BonusInv, BonusInv', SerialInv, Unclaimed, [Next]_vars
  PROVE  [LC!Next]_Rows
<1>1. UNCHANGED bonuses => UNCHANGED Rows
  BY DEF Rows, Ids, Row
<1>2. ASSUME NEW w \in Workers, NEW call \in calls, Begin(w, call) PROVE UNCHANGED Rows
  BY <1>1, <1>2 DEF Begin, store
<1>3. ASSUME NEW w \in Workers,
             CheckPlayer(w) \/ CheckAbuse(w) \/ LoadFails(w) \/ CheckMaxBet(w)
               \/ Load(w) \/ Finish(w) \/ Crash(w)
      PROVE  UNCHANGED Rows
  BY <1>1, <1>3
     DEF CheckPlayer, CheckAbuse, LoadFails, CheckMaxBet, Load, Finish, Crash, Miss, store
<1>4. ASSUME NEW w \in Workers, CheckOneTime(w) PROVE UNCHANGED Rows
  BY <1>1, <1>4 DEF CheckOneTime, store
<1>5. ASSUME NEW w \in Workers, Create(w) PROVE LC!Next \/ UNCHANGED Rows
  BY <1>1, <1>5, CreateAwards DEF Create, store
<1>6. ASSUME NEW w \in Workers, NEW i \in todo[w], Write(w, i) \/ WriteFails(w, i)
      PROVE  LC!Next \/ UNCHANGED Rows
  <2>1. pc[w] = "write" /\ (Update(w, i) \/ UNCHANGED bonuses)
    BY <1>6 DEF Write, WriteFails, Miss
  <2> QED BY <1>1, <2>1, UpdateWagersOrCloses
<1>7. ASSUME NextDay \/ UNCHANGED vars PROVE UNCHANGED Rows
  BY <1>1, <1>7 DEF NextDay, vars, store
<1> QED BY <1>2, <1>3, <1>4, <1>5, <1>6, <1>7 DEF Next

\* Calls that do not overlap implement the life cycle of a bonus, through
\* failed writes, lost replies, crashes and every other failure but that of
\* the count, whose error AwardBonus drops, as long as no bet is negative.
THEOREM ImplementsBonusLifeCycle ==
  ASSUME Alone, BetsAreNatural, "count" \notin Faults
  PROVE  Spec => RefinesBonusLifeCycle
<1>1. Init => LC!Init
  BY DEF Init, LC!Init, Rows, Ids
<1>2. BonusInv /\ BonusInv' /\ SerialInv /\ Unclaimed /\ [Next]_vars => [LC!Next]_Rows
  BY LifeCycleStep
<1>3. BonusInv /\ Unclaimed /\ [Next]_vars => Unclaimed'
  BY StepUnclaimed
<1>4. BonusInv /\ BonusInv' /\ SerialInv /\ [Next]_vars => SerialInv'
  BY StepSerial
<1> QED
  BY <1>1, <1>2, <1>3, <1>4, InitBonusInv, StepBonusInv, InitSerial, InitUnclaimed, PTL
     DEF Spec, RefinesBonusLifeCycle, LC!Spec

-----------------------------------------------------------------------------
(* What is offered and what is awarded.                                    *)

\* An award of a rule that is listed for a player passes every test of
\* AwardBonus on the rule and the player.
THEOREM OffersAreAwardable ==
  ASSUME NEW w \in Workers, NEW player \in Players, NEW claims,
         NEW now \in Nat, NEW zone \in Int,
         job[w].rule \in GetEligibleBonuses(player, claims, now, zone)
  PROVE  Awardable(w, player) /\ job[w].rule \in GetAllRules
BY DEF GetEligibleBonuses, Offered, Awardable, Rule, GetAllRules

\* Every award of a cashback rule, and of a free spins rule without a fixed
\* amount, is refused at its last step, whatever was deposited: both are
\* listed as long as they are active and scheduled, and neither can be had.
THEOREM CashbackIsNeverAwarded ==
  ASSUME NEW w \in Workers, Create(w),
         \/ Rule(w).type = "cashback"
         \/ Rule(w).type = "free_spins" /\ Rule(w).fixedAmount = 0
  PROVE  UNCHANGED bonuses /\ reply' = [reply EXCEPT ![w] = "error"]
<1>1. NewBonus(w).amount = 0
  BY DEF NewBonus, BonusAmount
<1>. QED  BY <1>1 DEF Create, Return, store

\* A deposit match never exceeds the rule's maximum.
THEOREM MatchIsCapped ==
  ASSUME NEW id \in DOMAIN Rules, NEW deposit \in Int,
         Rules[id].type = "deposit_match"
  PROVE  BonusAmount(Rules[id], deposit) <= Rules[id].maxBonus
<1>1. Rules[id].maxBonus \in Nat /\ Rules[id].matchPercent \in Nat
  BY RulesAssumption
<1>2. Percent(deposit, Rules[id].matchPercent) \in Int
  BY <1>1, PercentInt
<1>. QED  BY <1>1, <1>2 DEF BonusAmount

\* A rule is not listed on its end date, but for the first second of it.
THEOREM EndDateIsExcluded ==
  ASSUME NEW s, NEW date \in Nat, s.end = date,
         date \notin {Null, "malformed"},
         NEW now \in Nat, NEW zone \in Int,
         now > date * Day, OnSchedule(s, now, zone)
  PROVE  FALSE
<1>1. Midnight(s.end) = date * Day
  BY DEF Midnight
<1>2. now <= Midnight(s.end)
  BY DEF OnSchedule
<1>3. date * Day \in Nat
  BY DEF Day
<1>. QED  BY <1>1, <1>2, <1>3

\* An end date that cannot be parsed hides the rule for good, a start date
\* that cannot be parsed hides nothing.
THEOREM MalformedDates ==
  ASSUME NEW s, NEW now \in Nat \ {0}, NEW zone \in Int,
         Null # "malformed", s.days = {}
  PROVE  /\ s.end = "malformed" => ~OnSchedule(s, now, zone)
         /\ s.start = "malformed" /\ s.end = Null => OnSchedule(s, now, zone)
<1>1. Midnight("malformed") = 0
  BY DEF Midnight
<1>2. now >= 0 /\ ~(now <= 0)
  OBVIOUS
<1>3. s.end = "malformed" => ~OnSchedule(s, now, zone)
  <2>. SUFFICES ASSUME s.end = "malformed", OnSchedule(s, now, zone)
                PROVE  FALSE
    OBVIOUS
  <2>1. now <= Midnight("malformed")
    BY DEF OnSchedule
  <2>. QED  BY <1>1, <1>2, <2>1
<1>4. s.start = "malformed" /\ s.end = Null => OnSchedule(s, now, zone)
  BY <1>1, <1>2 DEF OnSchedule
<1>. QED  BY <1>3, <1>4

\* Schedule says of its days "monday, tuesday, etc.", and OnSchedule compares
\* them with Go's capitalised names: a rule whose days are written the way of
\* the comment is never listed.
THEOREM UncapitalisedDaysNeverMatch ==
  ASSUME NEW s, s.days # {}, \A i \in 1 .. 7 : Weekdays[i] \notin s.days,
         NEW now \in Nat, NEW zone \in Int
  PROVE  ~OnSchedule(s, now, zone)
<1> DEFINE day == (now + zone) \div Day
<1>1. day \in Int
  BY DEF Day
<1>2. 1 + (day % 7) \in 1 .. 7
  BY <1>1
<1>3. Weekday(now, zone) \notin s.days
  BY <1>2 DEF Weekday
<1>. QED  BY <1>3 DEF OnSchedule
=============================================================================
