SPECIFICATION Spec
CONSTANTS
    NULL = NULL
    Garbage = Garbage
    RecordSize = 2
    MaxFile = 16
    MaxKey = 16
    MaxInvocations = 2
    Repeated <- MCKilled
    Record <- MCRecord
    Key <- MCKey
    Invocations <- MCAllInvocations
INVARIANTS
    SortsItsInput
    LeavesOutput
    PassesAreSound
PROPERTY MSortTerminates
CHECK_DEADLOCK FALSE
