SPECIFICATION MonitorSpec
CONSTANTS
  ForceRelax = FALSE
  EnterTicks = 3
  ExitTicks = 3
  FlipLimit = 2
  MinAir = 2
  Word = 7
  SpinInputs = {FALSE}
PROPERTY EntrySustained
