SPECIFICATION Spec
CONSTANTS
  ReplayCount = 5
  VecsPerPage = 2
  CounterSize = 4
  MaxFailures = 3
INVARIANTS
  TypeOK
  QueryInputIsCorrect
  ReadsTheRightPage
  AnswersEachOnce
  OutcomesAddUp
  MissesAreFailures
PROPERTIES
  WorkloadFinishes
CHECK_DEADLOCK FALSE
