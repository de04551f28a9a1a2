SPECIFICATION Spec
CONSTANTS
  Half = 131072
  Metrics <- MCMetrics
  Delta <- MCDelta
  Position <- MCPosition
  Code = {k1, k2}
  Modifier = {ctrl, shift}
  Message <- MCMessage
INVARIANTS TypeOK ClickLands Reaches ChordWorks TextArrives
