SPECIFICATION Spec
CONSTANTS
    NULL = NULL
    Garbage = Garbage
    RecordSize = 2
    MaxFile = 16
    MaxKey = 16
    MaxInvocations = 1
    Repeated <- MCNone
    Record <- MCRecord
    Key <- MCKey
    Invocations <- MCKilled
INVARIANT AnyKRuns
CHECK_DEADLOCK FALSE
