SPECIFICATION Spec
CONSTANTS
  Streams <- Sent
  Object = {1, 2, 3, 4, 5, 6, 7, 8}
  Depth = 2
  Compact = 5
  None = None
INVARIANTS
  RepliesRight
  PoolSound
CHECK_DEADLOCK FALSE
