SPECIFICATION FairSpec
CONSTANTS
  w1 = w1
  w2 = w2
  Workers <- MCWorkers
  MaxCommits = 2
  MaxOps = 1
  MaxFaults = 0
  MaxCrashes = 0
  MaxPrunes = 0
PROPERTY DownloadsReport
CHECK_DEADLOCK FALSE
