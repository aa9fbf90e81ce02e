CONSTANTS
  None = None
  u1 = u1
  s1 = s1
  d1 = d1
  i1 = i1
  e1 = e1
  e2 = e2
  phone = phone
  Updaters = {u1}
  Scorers = {s1}
  Events <- TheEvents
  Requests <- TheRequests
  BatchRows <- TheBatchRows
  Settings <- TheSettings
  MLPercents = {80}
  Minute = 1
  Rapid = 1
  HalfHour = 2
  Hour = 2
  Day = 2
  Week = 2
  MaxTime = 3
  MaxApplies = 2
  Breaks = FALSE
  MaxTxPerMinute = 1
  MaxDevicesPerDay = 0
  MaxIPsPerDay = 0
  NewAccountDays = 7
  Unavailable = {"store", "batch", "ip", "blacklist"}
SPECIFICATION Spec
CHECK_DEADLOCK FALSE
INVARIANTS
  TypeOK
  VelocityJustified
  RapidJustified
  DecisionJustified
