SPECIFICATION Spec
CONSTANTS
  ReplayCount = 2
  VecsPerPage = 2
  CounterSize = 4
  MaxFailures = 1
PROPERTY ResumesInterruptedQueries
CHECK_DEADLOCK FALSE
