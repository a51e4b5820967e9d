\* A ring the RPU allocates, as its producer or as its consumer.
SPECIFICATION Spec
CONSTANTS
  Items = {x1, x2}
  NoItem = NoItem
  N = 4
  M = 8
INVARIANTS
  PointersInOrder
PROPERTIES
  RingIsFifo
