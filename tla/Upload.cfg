SPECIFICATION Spec
CONSTANTS
    NumFlows = 2
    Chunks = 2
    Retries = 1
INVARIANTS
    OffsetIsBacked
    SafeToRemove
PROPERTIES
    DoneIsArchived
    FlowsEnd
CHECK_DEADLOCK FALSE
