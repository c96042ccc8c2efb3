SPECIFICATION FairSpec
CONSTANTS
  w1 = w1
  w2 = w2
  Workers <- MCWorkers
  MaxCommits = 2
  MaxOps = 2
  MaxFaults = 2
  MaxCrashes = 1
  MaxPrunes = 1
INVARIANTS TypeOK LocatedIsWhole LastCopySurvives
PROPERTIES FailureKeepsTarget SuccessIsInstalled UpToDateIsTrue OperationsEnd
CHECK_DEADLOCK FALSE
