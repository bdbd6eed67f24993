SPECIFICATION FairSpec
CONSTANTS
  ForceRelax = FALSE
  MaxSample = 2
  MaxPresses = 1
  TurnInputs = {FALSE}
INVARIANTS OneTogglePerPress
PROPERTIES FreshControl StopReachesMotors ControlGoesOn
