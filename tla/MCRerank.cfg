\* Batches of two, an answer of two, and at most three vectors reranked.
CONSTANTS
  v1 = v1
  v2 = v2
  v3 = v3
  v4 = v4
  Null = Null
  Vectors <- MCVectors
  Modes <- MCModes
  TopK = 2
  Batch = 2
  MaxExpanded = 4
  PartialTopN = 3
  ExactTopK = 2
  ExactDistances <- MCExactDistances
  LongDistances <- MCLongDistances
  MaxFailures = 1
SPECIFICATION Spec
INVARIANTS
  SortLosesNothing
  AnswerIsNearest
  RecallCountsTheNearest
