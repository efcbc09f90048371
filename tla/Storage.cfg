SPECIFICATION StorageSpec
CONSTANTS
  NULL = NULL
  None = None
  Process = {p1, p2}
  Thread = {t1, t2, t3}
  MaxMmaps = 2
  MaxItems = 4
  head_ = head_
  Garbage = Garbage
  kMaxHeight = 2
  Readers = {r1}
  MaxSeq = 3
  Users <- MCUsers
  UserLess <- MCUserLess
  Key <- MCKey
  Before <- InternalBefore
  Entries <- MCEntries
  RecordLengths = {0, 1, 4, 9}
  Offsets = {0, 1, 3, 5, 7, 8, 14, 20}
INVARIANTS
  LocksExclude
  EnvKeepsCount
  SnapshotReads
  SearchesAreRight
  LogReadsBack
  LogDamageIsReported
PROPERTY StorageGoesOn
CHECK_DEADLOCK FALSE
