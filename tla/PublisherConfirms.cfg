SPECIFICATION Spec
CONSTANTS
  p1 = p1
  p2 = p2
  e1 = e1
  e2 = e2
  e3 = e3
  Null = Null
  Publishers = {p1, p2}
  Events = {e1, e2, e3}
  Capacity = 2
  Faults = {"nack"}
CHECK_DEADLOCK FALSE
INVARIANT OkMeansStored
