SPECIFICATION EnginesSpec
CONSTANTS
    AmountToleranceCents = 1
    MediumPct = 1
    HighPct = 10
    MaxPostingLag = 3
    LateHighMultiple = 3
    StalePendingAfter = 3
    CheckSettlementStatus = TRUE
    Payments <- MCPayments
    Postings <- MCPostings
    AsOfs <- MCAsOfs
    Customers <- MCCustomers
    Similar <- MCSimilar
    UnstructuredRatio = 70
    TopK = 3
    TopN = 2
    Documents <- MCDocuments
    Windows = {0, 1, 3}
    MinHistory = 2
    SeqLen = 3
    KeyShift = 10
    StructuringWindow = 2
    BandLow = 90
    BandHigh = 100
    MinCount = 3
    NewRows <- MCNewRows
    Times = {0, 1, 4}
    MaxRows = 4
    TrainTenths = 6
    ValTenths = 2
    Tolerance = 1
    Patience = 2
    MaxEpochs = 6
    EpisodeIds = {"", "e", "f"}
    FitLen = 5
    Scores = {0, 1, 2, 4}
INVARIANTS
    ReconciliationIsFaithful
    DoubtForcesReview
    OnlyThePastCounts
    FittingIsSound
CHECK_DEADLOCK FALSE
