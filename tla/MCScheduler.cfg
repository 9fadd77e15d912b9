SPECIFICATION FairSpec
CONSTANTS
  c1 = c1
  Channel = {c1}
  FullDuty = 5
  Deadband = 2
  Refresh = 4
  Slew = 2
  MaxAge = 4
INVARIANT SchedulerTypeOK
PROPERTIES NoPop ColdStartsDark ConvergenceSteady UnassignedGoesDark SnapReleased
