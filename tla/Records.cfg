SPECIFICATION Spec
CONSTANTS
    Files <- MCFiles
    ContextDays = 3
    MaxFocus = 2
    MaxRows = 4
INVARIANTS
    PipelineInvariant
    EveryRowIsAccountedFor
    CaseIsOfThePast
CHECK_DEADLOCK FALSE
