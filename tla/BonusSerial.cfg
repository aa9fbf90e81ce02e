SPECIFICATION Spec
CONSTANTS
  a1 = a1
  a2 = a2
  w1 = w1
  w2 = w2
  Null = Null
  Accounts = {a1, a2}
  Workers = {w1}
  MaxDay = 1
  Abusers = {a2}
  RiskEnabled = TRUE
  Faults = {"error", "lostReply", "crash", "riskDown", "lookup"}
  RuleIds <- Ids3
  Rules <- MCRules
  Players <- MCPlayers
  Calls <- SerialCalls
  OpeningBonuses <- Freebet
CHECK_DEADLOCK FALSE
INVARIANTS
  OneTimeOnce
  ProgressExact
  ForfeitTakesAll
PROPERTIES
  RefinesBonusLifeCycle
