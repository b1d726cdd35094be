SPECIFICATION Spec
CONSTANTS
    MaxWords = 4
    OverlapWords = 2
    MinWords = 2
    CandidateK = 1
    MaxAttempts = 3
    Scenes <- MCScenes
    RankingsOf <- MCRankingsOf
INVARIANTS
    KnowledgeIsWhole
    OnlyTheBestTrustedIsShown
    AcceptedAdviceIsEarned
CHECK_DEADLOCK FALSE
