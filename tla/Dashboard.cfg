CONSTANTS
  MaxPairs = 2
  MaxMouse = 5
SPECIFICATION Spec
INVARIANTS TypeOK NoGap UpThenDown NothingLeft
PROPERTIES Quiet GaugeStill
