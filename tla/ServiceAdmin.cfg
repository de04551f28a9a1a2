SPECIFICATION FairSpec
CONSTANTS
  Helper = {h1, h2}
  MaxFaults = 2
INVARIANTS TypeOK AppliedTakesEffect
PROPERTIES  HelpersEnd
CHECK_DEADLOCK FALSE
