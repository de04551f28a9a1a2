SPECIFICATION Spec
CONSTANTS
  Half = 4
  HalfRange = 3
  MinHalfRange = 1
  Pace = 2
  Reach = 2
  Control = {scroll}
  Strip = scroll
  MaxTaps = 2
  MaxMain = 1
INVARIANTS TypeOK StillWhileCalibrating ViewAgrees SweepFillsScreen
 
CHECK_DEADLOCK FALSE
