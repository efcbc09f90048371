SPECIFICATION ReadingSpec
CONSTANTS
    NULL = NULL
    MaxByte = 3
    MaxSequence = 7
    BlockSize = 32
    RestartInterval = 2
    HasFilter = TRUE
    kFilterBase = 32
    BitsPerKey = 4
    MinBits = 8
    Probes = 2
    HashBits = 4
    BloomHash <- MCBloomHash
    UserKeys <- MCUserKeys
    Contents <- MCContents
    Address = {a1, a2, a3, a4, a5, a6}
    Thread = {t1, t2}
    MaxId = 3
    Name = {n1, n2}
    Handle = {h1, h2}
    State = {f1, f2, f3, f4}
    MaxSize = 3
INVARIANTS
    TablesAreSound
    CachedReads
    OpenFilesAreKept
PROPERTIES
    MovesAsCursor
    ErrorsAreKept
CHECK_DEADLOCK FALSE
