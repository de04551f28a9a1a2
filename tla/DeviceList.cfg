SPECIFICATION FairSpec
CONSTANTS
  Session = {s1, s2}
  MaxFaults = 1
  MaxSwitches = 2
  MaxQueue = 1
INVARIANTS TypeOK StandaloneLive UpToDate
PROPERTIES Converges
CHECK_DEADLOCK FALSE
