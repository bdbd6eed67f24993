SPECIFICATION Spec
CONSTANTS
  Half = 10
  Flat = {7, 8, 9}
  Fold = 4
  Raise = 5
  Path = 3
  MaxMove = 9
  MaxAngle = 32
INVARIANTS Unwrapped AimAhead
PROPERTIES OneWay Arrives ImplementsModes
