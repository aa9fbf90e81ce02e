------------------------------ MODULE MCBonus ------------------------------
(* Small instances of Bonus for TLC. *)
EXTENDS Bonus, TLC

CONSTANTS a1, a2, w1, w2

Ids3 == {"welcome", "freebet", "retired"}

\* A condition nobody fails, and the limits of a rule without any.
Open == [active |-> TRUE, oneTime |-> FALSE, matchPercent |-> 0, maxBonus |-> 0,
         fixedAmount |-> 0, multiplier |-> 1, maxBetPercent |-> 0,
         maxBetAbsolute |-> 0, expiryDays |-> 0,
         eligibleGames |-> {}, excludedGames |-> {}, weights |-> <<>>,
         minDeposits |-> 0, minAge |-> 0, maxAge |-> 0, segments |-> {},
         excludedSegments |-> {}, countries |-> {}, excludedCountries |-> {}]

\* A one-time deposit match for new players of which dice count half, and a
\* freebet to wager once.
TwoRules ==
  "welcome" :> [type |-> "deposit_match"] @@ "freebet" :> [type |-> "freebet"]

MCRules ==
  [id \in DOMAIN TwoRules |->
     TwoRules[id] @@
     (IF id = "welcome"
      THEN [oneTime |-> TRUE, matchPercent |-> 100, maxBonus |-> 2,
            multiplier |-> 2, maxBetPercent |-> 50,
            excludedGames |-> {"craps"}, weights |-> [dice |-> 50],
            maxAge |-> 7]
      ELSE [fixedAmount |-> 1, maxBetAbsolute |-> 3,
            eligibleGames |-> {"slots"}, excludedSegments |-> {"vip"}])
     @@ Open]

\* The same, the bonus valid for a day.
RaceRules == [MCRules EXCEPT !["welcome"].expiryDays = 1]

MCPlayers ==
  {[deposits |-> 1, age |-> 1, segment |-> "high", country |-> "MT"],
   [deposits |-> 1, age |-> 9, segment |-> "vip", country |-> "MT"]}

NewPlayers == {player \in MCPlayers : player.age = 1}

\* Call 0 is made for the account a2, the others for a1.
Call(n, kind, rule, game, amount) ==
  [n |-> n, kind |-> kind, account |-> IF n = 0 THEN a2 ELSE a1,
   rule |-> rule, game |-> game, amount |-> amount]

RaceCalls ==
  {Call(1, "award", "welcome", "", 3), Call(2, "award", "welcome", "", 2),
   Call(3, "award", "welcome", "", 2),
   Call(4, "wager", "welcome", "slots", 3), Call(5, "wager", "welcome", "dice", 4),
   Call(6, "expire", "welcome", "", 0)}

SerialCalls ==
  {Call(0, "award", "freebet", "", 0), Call(1, "award", "welcome", "", 3),
   Call(2, "award", "welcome", "", -2), Call(3, "wager", "welcome", "slots", 1),
   Call(4, "wager", "welcome", "slots", 3), Call(5, "forfeit", "welcome", "", 0),
   Call(6, "expire", "welcome", "", 0), Call(7, "maxbet", "welcome", "slots", 2)}

\* A bonus of a rule that the configuration no longer has.
OldBonus ==
  <<[account |-> a1, rule |-> "retired", amount |-> 1, required |-> 2,
     deposit |-> 1, expires |-> 0, progress |-> 0, status |-> "active"]>>

\* A freebet of which nothing was wagered.
Freebet ==
  <<[account |-> a1, rule |-> "freebet", amount |-> 2, required |-> 2,
     deposit |-> 0, expires |-> 0, progress |-> 0, status |-> "active"]>>

Symmetry == Permutations(Workers)
=============================================================================
