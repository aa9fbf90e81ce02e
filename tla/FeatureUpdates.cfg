CONSTANTS
  None = None
  u1 = u1
  u2 = u2
  d1 = d1
  d2 = d2
  i1 = i1
  e1 = e1
  e2 = e2
  e3 = e3
  e4 = e4
  Updaters = {u1, u2}
  Events <- TheEvents
  Minute = 1
  Rapid = 1
  HalfHour = 1
  Hour = 2
  Day = 4
  Week = 5
  MaxTime = 6
  MaxApplies = 2
  Breaks = TRUE
SYMMETRY Symmetry
SPECIFICATION StoreSpec
CHECK_DEADLOCK FALSE
INVARIANTS
  WindowComplete
  SumCoversWindow
  CountersExpire
