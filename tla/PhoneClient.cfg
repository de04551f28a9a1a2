SPECIFICATION FairSpec
CONSTANTS
  Conn = {c1, c2}
  None = None
  MaxCalls = 3
  MaxFaults = 1
  Patient = TRUE
INVARIANTS TypeOK PasswordDecides 
PROPERTIES TrailingFlush ConnectArrives
CHECK_DEADLOCK FALSE
