SPECIFICATION CheckpointSpec
CONSTANTS
  Rank = {r1}
  Item <- MCItem
  Page = 2
  StringChunk = 2
  OffsetChunk = 3
  MaxPushes = 3
  MaxOpens = 2
  MaxReads = 2
  MaxCrashes = 1
INVARIANTS CheckpointInv RoundTrip TornFile NoItemTwice
CHECK_DEADLOCK FALSE
PROPERTY QueuesSurvive
