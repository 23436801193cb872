SPECIFICATION Spec
CONSTANTS
  e1 = e1  e2 = e2  e3 = e3
  Experts <- TwoExperts
  MaxSessions = 2
  MaxActive = 1
  FaultKinds <- ExpertFault
  MaxFaults = 1
  MaxCrashes = 0
SYMMETRY Symmetry
INVARIANTS RetryCoversExperts
CHECK_DEADLOCK FALSE
