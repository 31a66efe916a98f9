CONSTANTS
  Programs <- MCPrograms
  PortBytes = {0, 131}
  WaitStates = 1
  Budgets = {1, 13, 100}
SPECIFICATION Z80Spec
CHECK_DEADLOCK FALSE
INVARIANTS
  ProgramsCompute
  HandlersDoNotNest
  IdleBatchIsSteps
PROPERTIES
  GoesWhereShown
  ArithmeticIsExact
