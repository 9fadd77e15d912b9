SPECIFICATION FairSpec
CONSTANTS
    Device = {d1, d2}
    Channel = {c1}
    Rom = {c1}
    Request = {1, 2}
    MaxRequests = 3
    MaxFaults = 1
INVARIANT RegistryTypeOK
INVARIANT OneRowPerChannel
INVARIANT StreamReconciled
PROPERTY EngineFollows
CHECK_DEADLOCK FALSE
