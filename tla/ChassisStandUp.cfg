SPECIFICATION StandUpSpec
CONSTANTS
  ForceRelax = FALSE
  EnterTicks = 3
  ExitTicks = 3
  FlipLimit = 2
  MinAir = 2
  Word = 7
  SpinInputs = {TRUE, FALSE}
INVARIANTS LatchFresh StandsUpInTime
PROPERTIES ImplementsModes ExitSustained FlipSustained GraceSinceLanding StandsUp
