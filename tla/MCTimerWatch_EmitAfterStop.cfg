\* One Stop caller; a timer fire races the stop signal.
CONSTANTS
    l1 = l1
    l2 = l2
    s1 = s1
    s2 = s2
    s3 = s3
    Listeners <- MCListeners
    Stoppers <- MCOneStopper
    ChanCap = 1
    MaxTicks = 2
    MaxSubs = 3
SPECIFICATION Spec
PROPERTY NoEmitAfterStop
