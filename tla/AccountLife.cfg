SPECIFICATION Spec
CONSTANTS
  Players = {p1, p2}
  Callers = {c1, c2, c3}
  Ids = {i1, i2, i3}
  MaxVersion = 2
  Faults = {"error", "lostReply", "unpublished", "crash"}
  Null = Null
SYMMETRY Symmetry
INVARIANTS
  TypeOK
  AnswersAgree
  RefusalsNeedRace
  AnnouncedOnce
