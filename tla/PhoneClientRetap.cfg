SPECIFICATION Spec
CONSTANTS
  Conn = {c1, c2}
  None = None
  MaxCalls = 2
  MaxFaults = 1
  Patient = FALSE
INVARIANT RefusedMeansPassword
CHECK_DEADLOCK FALSE
