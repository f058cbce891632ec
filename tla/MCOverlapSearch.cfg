\* The beam is MAX_L_SIZE of 2, the log has room for 5 candidates.
CONSTANTS
  v1 = v1
  v2 = v2
  v3 = v3
  v4 = v4
  v5 = v5
  v6 = v6
  Null = Null
  Vectors <- MCVectors
  Entry = v1
  Degree = 3
  Graphs <- MCGraphs
  Distances <- MCDistances
  ListSizes <- MCListSizes
  CodePage <- MCCodePage
  Capacity = 5
  MaxExpanded = 4
SPECIFICATION OverlapSpec
INVARIANTS
  BusIsFree
  CodesAreOwn
  ListLeadsByOne
PROPERTY OverlapQueriesEnd
CHECK_DEADLOCK FALSE
