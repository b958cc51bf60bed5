\* A build whose condition waits are cut into slices.
CONSTANTS
  NoItem = NoItem
  Items = {i1, i2, i3}
  Consumers = {c1, c2}
  Max = 2
  Sliced = TRUE
SPECIFICATION MqSpec
INVARIANT ConsumersServed
