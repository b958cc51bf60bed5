\* Unlimited workers that time out, whole waits and sliced ones, a queue of one task, and
\* a task that submits a task.
CONSTANTS
  t1 = t1 t2 = t2 t3 = t3 t4 = t4 t5 = t5
  NoTask = NoTask
  Tasks = {t1, t2, t3}
  Workers = {w1, w2, w3}
  Parent <- Nested
  Capacity = 0
  MaxTasks = 1
  NonBlocking = FALSE
  IdleTimeout = TRUE
SPECIFICATION FairSpec
INVARIANTS IdleJustified ServerForQueue DestroyAfterAllTasks
PROPERTIES AcceptedTaskFinishes SubmitReturns DestroyReturns
