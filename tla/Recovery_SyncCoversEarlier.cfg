SPECIFICATION Spec
CONSTANTS
  NULL = NULL
  WriteBuffer = 1
  GroupLimit = 3
  QueueLimit = 2
  Bounds <- MCBounds
INVARIANT SyncCoversEarlier
CHECK_DEADLOCK FALSE
