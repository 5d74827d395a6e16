\* Two node identities, writes all-or-nothing: a crash before the first
\* persist leaves an empty store beside a kept configuration.
CONSTANTS
    MaxIds = 2
    AtomicStore = TRUE
SPECIFICATION Spec
INVARIANT NoSilentDrift
