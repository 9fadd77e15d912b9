SPECIFICATION FairSpec
CONSTANTS
    Event = {1, 2}
    MaxAuditDeliver = 2
    MaxDeliver = 2
    MaxHeal = 2
    MaxFaults = 2
INVARIANT QueueTypeOK
INVARIANT StateIsTruth
PROPERTY RetryOnlyReorders
PROPERTY LostEnds
PROPERTY RefusalsAccounted
CHECK_DEADLOCK FALSE
