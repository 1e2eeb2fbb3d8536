SPECIFICATION QueueSpec
CONSTANTS
  Items = {r1, r2}
  NoItem = none
  Capacity = 3
  MaxSize = 5
INVARIANTS
  RingOK
  ResizeMovesAll
PROPERTIES
  ImplementsFifo
