CONSTANTS
  NoOne = NoOne
  a1 = a1
  a2 = a2
  Analysts = {a1, a2}
  Observers = {}
  Cases = {c1}
  Requests = {r1, r2, r3, r4}
  LockScope = "row"
  MaxCrashes = 0
  MaxStops = 0
  MaxFaults = 0
CONSTANT AnalysisResults <- TwoResults
SPECIFICATION Spec
SYMMETRY Symmetry
INVARIANTS
  TrailIsContiguous
  FourEyes
  OverrideIsRecorded
  VerdictMatchesTrail
  ProposalMatchesTrail
PROPERTIES
  ClosedIsFinal
\* Every request is answered once and no other arrives: the system comes to rest.
CHECK_DEADLOCK FALSE
