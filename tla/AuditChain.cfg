CONSTANTS
    view = view
    decision = decision
    Contents <- MCContents
    MaxBatch = 2
    MaxRows = 4
    MaxDamage = 2
SPECIFICATION Spec
INVARIANTS
    VerifiedIsAuthentic
    EventsBeforeTheBadOneAreAuthentic
    NoFalseAlarm
