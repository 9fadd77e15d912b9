SPECIFICATION Spec
CONSTANTS
  a1 = a1
  Actuator = {a1}
  Pca = {}
  Board <- MCBoard
  Duties = {50}
  MinUsableDuty = 8
  FullDuty = 100
  Drill = {}
  HeartbeatTimeout = 1
  MaxRuntime = 2
INVARIANT SafeWriteNotSuperseded
