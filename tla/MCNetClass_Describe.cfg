\* One device name, one scrape, one change: an attribute appears after registration.
CONSTANTS
    NDev = 1
    OptFields = {"carrier", "speed_bytes"}
    IgnoredDevices = {}
    InvalidSpeed = FALSE
    MaxScrapes = 1
    MaxChanges = 1
SPECIFICATION Spec
INVARIANT CollectedWereDescribed
