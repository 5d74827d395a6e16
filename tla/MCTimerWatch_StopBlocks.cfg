\* Three concurrent Stop callers, one listener, one subscription, one fire.
\* A Stop blocked forever on StopKey is the end of a behaviour here.
CONSTANTS
    l1 = l1
    l2 = l2
    s1 = s1
    s2 = s2
    s3 = s3
    Listeners <- MCListeners
    Stoppers <- MCThreeStoppers
    ChanCap = 1
    MaxTicks = 1
    MaxSubs = 1
SPECIFICATION FairSpec
PROPERTY StopReturns
CHECK_DEADLOCK FALSE
