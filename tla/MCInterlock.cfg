SPECIFICATION FairSpec
CONSTANTS
  a1 = a1
  Actuator = {a1}
  Pca = {a1}
  Board <- MCBoard
  Duties = {0, 5, 50}
  MinUsableDuty = 8
  FullDuty = 100
  Drill = {}
  HeartbeatTimeout = 1
  MaxRuntime = 2
INVARIANTS TypeOK EnergisedIsCapped CapNeverExtended TripIsDark
PROPERTY EnergisedEnds
