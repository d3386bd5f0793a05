CONSTANTS
  Callers = {c1, c2}
  Rate = 2
  Burst = 3
SPECIFICATION Spec
PROPERTY IntervalKept
