SPECIFICATION FairSpec
CONSTANTS
  p1 = p1
  p2 = p2
  e1 = e1
  e2 = e2
  e3 = e3
  Null = Null
  Publishers = {p1, p2}
  Events = {e1, e2, e3}
  Capacity = 2
  Faults = {"cancel", "write", "nack", "loss"}
CHECK_DEADLOCK FALSE
INVARIANTS
  SuccessesAreStored
  BacklogIsAbandoned
PROPERTIES
  OkIsDecided
  CloseReturns
