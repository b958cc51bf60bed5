\* No idle timeout: two workers, one queue slot, a task that submits a task.
CONSTANTS
  t1 = t1 t2 = t2 t3 = t3 t4 = t4 t5 = t5
  NoTask = NoTask
  Tasks = {t1, t2, t3, t4, t5}
  Workers = {w1, w2}
  Parent <- Nested
  Capacity = 2
  MaxTasks = 1
  NonBlocking = FALSE
  IdleTimeout = FALSE
SPECIFICATION Spec
SYMMETRY WorkerSymmetry
INVARIANTS CountersAgree BlockedJustified DestroyerJustified FreedUnused
PROPERTY ImplementsService
