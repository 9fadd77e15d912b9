SPECIFICATION LineFairSpec
CONSTANTS
    Channel = {light}
    FullDuty = 2
    Deadband = 1
    Refresh = 2
    Slew = 1
    MaxAge = 2
    HeartbeatTimeout = 2
    CommandTtl = 2
    MaxDeliver = 2
    Floor = 2
    Offered <- MCOffered
    MaxQueue = 1
    MaxFaults = 2
INVARIANT LineTypeOK
INVARIANT MemoryMatchesPin
PROPERTY PinFollows
