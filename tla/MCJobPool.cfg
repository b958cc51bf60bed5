\* Two workers, one queue slot, a job that submits a job, waits cut into slices.
CONSTANTS
  i1 = i1 i2 = i2 i3 = i3
  NoItem = NoItem
  Items = {i1, i2, i3}
  Consumers = {w1, w2}
  Parent <- Nested
  Max = 1
  Sliced = TRUE
SPECIFICATION FairSpec
INVARIANT FreedQueueUnused
PROPERTIES ImplementsDiscardingService QueuedJobFinishes DestroyReturns
