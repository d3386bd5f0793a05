CONSTANTS
  Items = {i1, i2}
  Producers = {p1, p2}
  Capacity = 2
  NoItem = NoItem
SPECIFICATION Spec
INVARIANT CloseIsSafe
