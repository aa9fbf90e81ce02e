SPECIFICATION Spec
CONSTANTS
  a1 = a1
  k1 = k1
  k2 = k2
  k3 = k3
  h1 = h1
  h2 = h2
  h3 = h3
  Null = Null
  Accounts = {a1}
  Handlers = {h1, h2}
  MaxInt = 6
  RiskEnabled = TRUE
  Scores = {10, 70, 90}
  BlockThreshold = 80
  ReviewThreshold = 60
  Faults = {"error", "lostReply", "riskDown", "crash"}
  Requests <- FaultRequests
  OpeningRows <- FaultRows
SYMMETRY Symmetry
INVARIANTS
  SnapshotCoherent
  AtMostOnce
  JournalFollowsCommits
  RiskRespected
PROPERTIES
  TxRowsOnlySettle
  RefinesAtomicWallet
