CONSTANTS
  NoOne = NoOne
  a1 = a1
  a2 = a2
  Analysts = {a1, a2}
  Observers = {}
  Cases = {c1}
  Requests = {r1, r2, r3}
  LockScope = "database"
  MaxCrashes = 0
  MaxStops = 0
  MaxFaults = 0
CONSTANT AnalysisResults <- OneResult
SPECIFICATION Spec
SYMMETRY Symmetry
PROPERTY SignOffNeedsOpenCase
CHECK_DEADLOCK FALSE
