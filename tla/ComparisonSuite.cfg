SPECIFICATION Spec
CONSTANTS
  Suites <- MCSuites
  Configs = {c1}
  SuiteWorkers = 2
  SummaryWorkers = 2
  MaxInvocations = 2
  MaxFaults = 1
  MaxLate = 1
INVARIANTS ComparisonOfThisRun ChildrenGone
PROPERTY SuiteEnds
CHECK_DEADLOCK FALSE
