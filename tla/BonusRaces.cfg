SPECIFICATION Spec
CONSTANTS
  a1 = a1
  a2 = a2
  w1 = w1
  w2 = w2
  Null = Null
  Accounts = {a1}
  Workers = {w1, w2}
  MaxDay = 1
  Abusers = {}
  RiskEnabled = FALSE
  Faults = {"count"}
  RuleIds <- Ids3
  Rules <- RaceRules
  Players <- NewPlayers
  Calls <- RaceCalls
  OpeningBonuses <- OldBonus
SYMMETRY Symmetry
CHECK_DEADLOCK FALSE
INVARIANTS
  ProgressEarned
  ClaimsBoundedByOverlap
