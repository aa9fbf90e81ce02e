SPECIFICATION FairSpec
CONSTANTS
  c1 = c1
  c2 = c2
  Null = Null
  Consumers = {c1, c2}
  MaxMessage = 3
  Malformed = {2}
  Poison = {1}
  Prefetch = 2
  MaxStops = 2
  MaxFailures = 1
CHECK_DEADLOCK FALSE
INVARIANTS
  NoDeliveryForgotten
  AnsweredRightly
  DuplicatesNeedStops
PROPERTIES
  EventsAreHandled
