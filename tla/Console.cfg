SPECIFICATION ConsoleSpec
CONSTANTS
    Cases = {c}
    Me = me
    Others = {x}
    Advice = {"CLEAR", "REVIEW"}
    None = None
    MaxInFlight = 2
    MaxMounts = 2
    MaxLogins = 2
    MaxErrors = 1
    MaxOthers = 1
INVARIANTS
    DecisionsRestOnWhatWasShown
PROPERTIES
    ViewCatchesUp
CHECK_DEADLOCK FALSE
