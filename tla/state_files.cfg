SPECIFICATION Spec
CONSTANTS
  App = "app"
  Cli = "cli"
  Keys <- MCKeys
  Vals <- MCVals
  Seeds <- MCSeeds
  ClassDefault = "v1"
  MaxSaves = 2
  MaxFaults = 2
  MaxCrashes = 1
  MaxStarts = 1
INVARIANTS TypeOK WholeFile OneShortcutPerForm ExtensionFollows
PROPERTIES NoForeignLoss RemovedStaysRemoved
CHECK_DEADLOCK FALSE
