\* Three device names, the last one ignored, two scrapes, two changes.
CONSTANTS
    NDev = 3
    OptFields = {"carrier"}
    IgnoredDevices = {3}
    InvalidSpeed = TRUE
    MaxScrapes = 2
    MaxChanges = 2
SPECIFICATION FairSpec
PROPERTY CallsReturn
