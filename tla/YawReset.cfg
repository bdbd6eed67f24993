SPECIFICATION Spec
CONSTANTS
  ForceRelax = FALSE
  MaxSample = 2
  MaxPresses = 1
  TurnInputs = {TRUE, FALSE}
PROPERTY YawResetToCurrent
