SPECIFICATION Spec
CONSTANTS
  e1 = e1  e2 = e2  e3 = e3
  Experts <- ThreeExperts
  MaxSessions = 2
  MaxActive = 1
  FaultKinds <- EveryFault
  MaxFaults = 2
  MaxCrashes = 1
SYMMETRY Symmetry
INVARIANTS TypeOK FinishedHasRecords FailedTellsWhy CompletedHasResults ReusedWereComputed SuccessNotRedone
PROPERTIES FinishedIsFinal
CHECK_DEADLOCK FALSE
