\* Two listeners, two concurrent Stop callers, three subscriptions, two fires.
CONSTANTS
    l1 = l1
    l2 = l2
    s1 = s1
    s2 = s2
    s3 = s3
    Listeners <- MCListeners
    Stoppers <- MCTwoStoppers
    ChanCap = 1
    MaxTicks = 2
    MaxSubs = 3
SPECIFICATION Spec
SYMMETRY MCSymmetry
INVARIANT TeardownOnce
