CONSTANTS
    Customer = customer
    Case = case
    Unknown = unknown
    tx1 = tx1
    tx2 = tx2
    doc = doc
    History <- MCHistory
    Documents <- MCDocuments
    KycSigns <- MCKycSigns
    Findings <- MCFindings
    Investigations <- MCInvestigations
    MaxFocus = 2
    Analysts = {ann, bob}
    NoOne = NoOne
SPECIFICATION Spec
\* A signed-off case stays as it is.
CHECK_DEADLOCK FALSE
INVARIANTS
    TrailReplays
    FailureReachesReviewer
    FactsAreBacked
    ValidatedIsSound
    ReviewedAdviceIsBounded
    ClearIsWarned
    WorkflowInvariant
PROPERTY
    ImplementsLifecycle
