SPECIFICATION Spec
CONSTANTS
  a1 = a1
  Actuator = {a1}
  Pca = {}
  Board <- MCBoard
  Duties = {0, 50}
  MinUsableDuty = 8
  FullDuty = 100
  Drill = {a1}
  HeartbeatTimeout = 1
  MaxRuntime = 1
INVARIANTS StartAssertsSafe StopReachesAll
