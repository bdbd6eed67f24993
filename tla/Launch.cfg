SPECIFICATION LaunchSpec
CONSTANTS
  Words = {"config", "help", "noLog", "prefix"}
  MaxArgs = 4
INVARIANTS MotorSlotKept IoOutlivesUsers Precedence WholeFile
PROPERTY ShutsDown
CHECK_DEADLOCK FALSE
