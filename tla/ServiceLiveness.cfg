CONSTANTS
  NoOne = NoOne
  a1 = a1
  a2 = a2
  Analysts = {a1}
  Observers = {o1}
  Cases = {c1, c2}
  Requests = {r1, r2, r3}
  LockScope = "row"
  MaxCrashes = 0
  MaxStops = 0
  MaxFaults = 1
CONSTANT AnalysisResults <- OneResult
SPECIFICATION FairSpec
PROPERTIES
  EveryRequestIsAnswered
  OnlyAMeetingViewCostsReview
  EveryJobSettles
  ImplementsFairLifecycle
\* Every request is answered once and no other arrives: the system comes to rest.
CHECK_DEADLOCK FALSE
