SPECIFICATION LibrarySpec
CONSTANTS
    NULL = NULL
    Garbage = Garbage
    RecordSize = 2
    MaxFile = 6
    MaxInput = 5
    MaxKey = 2
    NumIters = 2
    Record <- MCRecord
    Key <- MCKey
    Files <- MCFiles
    RunLengths <- MCRunLengths
    BufSizes <- MCBufSizes
    Merges <- MCMerges
    MkCalls <- MCMkCalls
INVARIANTS
    ScansConsecutively
    RunIsExact
    CurrentRecordIsLast
    MergeSorts
    MakesSortedRuns
    SizesAreRight
PROPERTY LibraryReturns
CHECK_DEADLOCK FALSE
