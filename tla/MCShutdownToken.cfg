\* Two waiters, two cancellers, a clock of three ticks.
CONSTANTS
  Waiters = {w1, w2}
  Cancellers = {c1, c2}
  NoThread = NoThread
  Timeouts <- MCTimeouts
  Horizon = 5
  LastTick = 2
  LastDrift = 1
SPECIFICATION LiveSpec
INVARIANTS CancelReachesSleepers WaitTellsTruth DestroyedUnused
PROPERTY WaitReturns
