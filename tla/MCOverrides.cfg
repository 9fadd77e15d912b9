SPECIFICATION FairSpec
CONSTANTS
    Target = {t1}
    Hold = {h1, h2}
    Durations = {2}
    MaxStep = 1
    Schedule = {s1}
    Version = {v1, v2}
    MaxRequests = 3
    MaxFaults = 2
INVARIANT OverridesTypeOK
INVARIANT HonouredInFull
INVARIANT EndedStaysEnded
INVARIANT EndingsAccounted
PROPERTY HoldEnds
PROPERTY CurvesFollow
