SPECIFICATION DataSpec
CONSTANTS
    NULL = NULL
    Garbage = Garbage
    RecordSize = 2
    MaxInvocations = 3
    Record <- MCRecord
    Key <- MCKey
    Ranks <- MCRanks
    Invocations <- MCInvocations
INVARIANTS
    BSortIsSound
    OrdersAgree
    SchemaIsRead
    JsonPrintsBack
    JsonFailsOpenly
    BatchesAreReplayed
    EncodingsReadBack
PROPERTY BSortEnds
CHECK_DEADLOCK FALSE
