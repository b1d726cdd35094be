CONSTANTS
  NoOne = NoOne
  a1 = a1
  a2 = a2
  Analysts = {a1, a2}
  Observers = {o1}
  Cases = {c1}
  Requests = {r1, r2, r3}
  LockScope = "row"
  MaxCrashes = 1
  MaxStops = 1
  MaxFaults = 2
CONSTANT AnalysisResults <- OneResult
SPECIFICATION Spec
SYMMETRY Symmetry
INVARIANTS
  ServiceInvariant
PROPERTIES
  JobOnlyAdvances
  ImplementsLifecycle
\* Every request is answered once and no other arrives: the system comes to rest.
CHECK_DEADLOCK FALSE
