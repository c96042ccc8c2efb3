SPECIFICATION Spec
CONSTANTS
  e1 = e1
  e2 = e2
  Exts <- MCTwo
  NoExt = NoExt
  Handles <- MCHandles
  Effects = {"replace", "close", "query"}
  Streams = {"input"}
  MaxAsks = 2
  MaxStarts <- MCStarts
  MaxBatches = 2
INVARIANTS TypeOK AnsweredOnce StreamInOrder AnswersItsAsk VisibleResultsResolve
CHECK_DEADLOCK FALSE
