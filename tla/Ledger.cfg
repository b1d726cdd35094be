SPECIFICATION LedgerSpec
CONSTANTS
    AmountToleranceCents = 1
    MediumPct = 1
    HighPct = 10
    MaxPostingLag = 259200
    LateHighMultiple = 3
    StalePendingAfter = 259200
    CheckSettlementStatus = TRUE
    Configs <- MCConfigs
    Baselines <- MCBaselines
    Profiles <- MCProfiles
    WindowDays = 60
    Pool = 10
    UnusualCountries = {"BR", "PA"}
    TxId <- MCTxId
    MaxPosted = 2
    Delays <- MCDelays
    Factors <- MCFactors
    LateBy <- MCLateBy
    Currencies = {"USD", "EUR"}
INVARIANTS
    InjectionsAreFound
    LabelsNameTheRecord
CHECK_DEADLOCK FALSE
