CONSTANTS
  Prios = {1, 2, 3}
  PqBound = 8
SPECIFICATION PqSpec
INVARIANT PopsHighestPriority
