SPECIFICATION FairSpec
CONSTANTS
  Client = {c1}
  Target = {t1, t2}
  Free = Free
  PipeCap = 1
  MaxEvents = 2
PROPERTIES EventsGetThrough MonitorGetsThrough
CHECK_DEADLOCK FALSE
