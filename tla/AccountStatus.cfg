SPECIFICATION Spec
CONSTANTS
  Players = {p1}
  Callers = {c1}
  Ids = {i1, i2}
  MaxVersion = 3
  Faults = {}
  Null = Null
SYMMETRY Symmetry
INVARIANT StatusTakes
