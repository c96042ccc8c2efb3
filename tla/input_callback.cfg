SPECIFICATION Spec
CONSTANTS
  e1 = e1
  e2 = e2
  Exts <- MCOne
  NoExt = NoExt
  Handles <- MCHandles
  Effects = {"replace", "query"}
  Streams = {}
  MaxAsks = 2
  MaxStarts <- MCStarts
  MaxBatches = 1
INVARIANT InputKeepsCallback
CHECK_DEADLOCK FALSE
