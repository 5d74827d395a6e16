\* One node identity, writes that may stop after any number of bytes.
CONSTANTS
    MaxIds = 1
    AtomicStore = FALSE
SPECIFICATION Spec
PROPERTY ValidateContract
