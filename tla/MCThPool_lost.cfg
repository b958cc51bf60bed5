\* One worker that times out: the last task of the pool may be lost.
CONSTANTS
  t1 = t1 t2 = t2 t3 = t3 t4 = t4 t5 = t5
  NoTask = NoTask
  Tasks = {t1, t2, t3}
  Workers = {w1, w2}
  Parent <- NoNesting
  Capacity = 1
  MaxTasks = 0
  NonBlocking = FALSE
  IdleTimeout = TRUE
SPECIFICATION Spec
INVARIANT DestroyAfterAllTasks
