SPECIFICATION FairSpec
CONSTANTS
    Device = {d1}
    Channel = {c1}
    Rom = {c1}
    Request = {1}
    MaxRequests = 2
    MaxFaults = 1
PROPERTY EngineCatchesUp
CHECK_DEADLOCK FALSE
