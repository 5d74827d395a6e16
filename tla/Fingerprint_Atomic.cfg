\* Three node identities; a failed write leaves the previous digest.
CONSTANTS
    MaxIds = 3
    AtomicStore = TRUE
SPECIFICATION Spec
PROPERTY ValidateContract
