SPECIFICATION FairSpec
CONSTANTS
    Observers = {o1}
    Cancellers = {k1}
    PageSize = 1
    MaxFrames = 3
    MaxFaults = 1
    o1 = o1
    k1 = k1
INVARIANT NoReplayGap
INVARIANT StreamIsWhole
INVARIANT ToldOutcomeIsDurable
INVARIANT CancelIsRetained
PROPERTY ObserverEnds
CHECK_DEADLOCK FALSE
