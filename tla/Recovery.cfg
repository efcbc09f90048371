SPECIFICATION Spec
CONSTANTS
  NULL = NULL
  WriteBuffer = 1
  GroupLimit = 3
  QueueLimit = 2
  Bounds <- MCBounds
INVARIANTS AcknowledgedSurvives SequencesAreUnique CrashPointsRecover
PROPERTIES WritesReturn
CHECK_DEADLOCK FALSE
