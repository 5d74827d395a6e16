\* Two sinks, a one-slot channel, three samples; checks AllSinksSeeSameSamples.
CONSTANTS
    k1 = k1
    k2 = k2
    Sinks <- MCSinks
    ChCap = 1
    MaxSinks = 2
    MaxSamples = 3
SPECIFICATION Spec
INVARIANT AllSinksSeeSameSamples
