\* Two sinks registered before or after Start, a one-slot channel, three samples.
CONSTANTS
    k1 = k1
    k2 = k2
    Sinks <- MCSinks
    ChCap = 1
    MaxSinks = 2
    MaxSamples = 3
SPECIFICATION Spec
INVARIANT TypeOK
