\* Three pushes and two popping threads on a ring of two slots, with every kind of call.
CONSTANTS
  NoItem = NoItem
  Items = {i1, i2, i3}
  Consumers = {c1, c2}
  Max = 2
  Sliced = FALSE
SPECIFICATION MqFairSpec
INVARIANT SleepersServed
PROPERTIES ImplementsFifo ElementsReachConsumers CloseReleasesAll
