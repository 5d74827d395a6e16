\* Three device names, two optional attributes, two scrapes, two changes.
CONSTANTS
    NDev = 3
    OptFields = {"carrier", "speed_bytes"}
    IgnoredDevices = {}
    InvalidSpeed = FALSE
    MaxScrapes = 2
    MaxChanges = 2
SPECIFICATION Spec
INVARIANT AllOrNothing
