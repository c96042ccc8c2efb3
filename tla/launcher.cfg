SPECIFICATION Spec
CONSTANTS
  Queries <- MCQueries
  Typed <- MCTyped
  Stripped <- MCStripped
  Keywords <- MCKeywords
  KeywordOf <- MCKeywordOf
  Prefix <- MCPrefix
  FileQueries <- MCFileQueries
  Parent <- MCParent
  Matching <- MCMatching
  Limit = 2
  MaxBatches = 3
  MaxEvents = 5
INVARIANTS TypeOK LoadingGivesWay OneQuery KeywordsUnique NoQuitInUse NobodyLingers TrayNeedsHold
PROPERTIES StreamsAddUp PickStays KeywordsComplete
CHECK_DEADLOCK FALSE
