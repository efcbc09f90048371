CONSTANTS
  UserLess <- MCUserLess
  MaxBytesForLevel <- MCMaxBytes
  Writes <- MCWrites
  Ranges <- MCRanges
  NULL = NULL
  NoBegin = 0
  NoEnd = 9
  kMaxSequenceNumber = 99
  Users = {1, 2, 3}
  kNumLevels = 4
  kL0_CompactionTrigger = 2
  kL0_StopWritesTrigger = 3
  kMaxMemCompactLevel = 2
  kMaxGrandParentOverlapBytes = 1
  kExpandedCompactionByteSizeLimit = 4
  MaxFileSize = 2
  WriteBuffer = 1
  Bounds <- MCBounds
SPECIFICATION Spec
INVARIANTS LevelsAreSound ReadsAreRight LiveFilesExist
PROPERTIES CompactRangeIsSound WorkSettles
CHECK_DEADLOCK FALSE
