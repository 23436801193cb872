SPECIFICATION FairSpec
CONSTANTS
  e1 = e1  e2 = e2  e3 = e3
  Experts <- TwoExperts
  MaxSessions = 2
  MaxActive = 2
  FaultKinds <- NodeFaults
  MaxFaults = 2
  MaxCrashes = 0
PROPERTIES RequestEnds RunningIsFinished
CHECK_DEADLOCK FALSE
