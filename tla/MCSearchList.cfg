SPECIFICATION Spec
CONSTANTS
  v1 = v1
  v2 = v2
  v3 = v3
  v4 = v4
  v5 = v5
  v6 = v6
  Vectors <- MCVectors
  Entry = v1
  Null = Null
  Degree = 2
  Graphs <- MCGraphs
  Distances <- MCDistances
  ListSizes <- MCListSizes
  Capacity = 5
  MaxExpanded = 4
INVARIANTS
  TypeOK
  CountsMatchList
  ListIsBestOfSeen
  SearchConverged
  ExpandedOnce
PROPERTIES
  ImplementsBestFirst
  QueriesEnd
