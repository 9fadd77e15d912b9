SPECIFICATION FairSpec
CONSTANTS
    Probe = {p1}
    Level = {0, 2, 5}
    Bands <- MCBands
    Cadence = 1
    SILENCE_CADENCE_MULTIPLE = 1
    SILENCE_FLOOR_S = 2
    RefreshEvery = 1
    Commit = {"ok", "failed", "unpublished"}
    MaxFaults = 1
INVARIANT AlertsTypeOK
INVARIANT RecordMirrored
PROPERTY RecordFollowsTank
PROPERTY DeadProbeNoticed
PROPERTY SilenceEnds
