\* Workers that time out and are replaced: who joins their threads, and how many are left.
CONSTANTS
  t1 = t1 t2 = t2 t3 = t3 t4 = t4 t5 = t5
  NoTask = NoTask
  Tasks = {t1, t2, t3, t4, t5}
  Workers = {w1, w2, w3, w4, w5}
  Parent <- NoNesting
  Capacity = 2
  MaxTasks = 2
  NonBlocking = TRUE
  IdleTimeout = TRUE
SPECIFICATION Spec
SYMMETRY WorkerAndTaskSymmetry
INVARIANTS UnjoinedOwnedOnce RetiredBounded UnjoinedBounded
PROPERTY ImplementsOrder
