SPECIFICATION Spec
CONSTANTS
  Client = {c1, c2}
  Target = {t1, t2}
  Free = Free
  PipeCap = 1
  MaxEvents = 2
SYMMETRY Symmetry
INVARIANTS TypeOK ClickWhole
PROPERTIES InOrderAtMostOnce
CHECK_DEADLOCK FALSE
