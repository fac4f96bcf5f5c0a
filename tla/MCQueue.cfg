SPECIFICATION Spec
CONSTANTS
  Rank = {r1, r2}
  Item <- MCItem
  Page = 2
  StringChunk = 2
  OffsetChunk = 3
  MaxPushes = 5
INVARIANT QueueOK
CHECK_DEADLOCK FALSE
PROPERTY QueueIsStack
SYMMETRY Symmetry
