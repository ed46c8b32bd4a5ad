\* One call suffices.
CONSTANTS
  Tails = {0}
  Inputs = {0, 1}
  MaxCalls = 1
SPECIFICATION Spec
INVARIANTS
  FailureReported
CHECK_DEADLOCK FALSE
