\* One session is enough for the end of its helper.
CONSTANTS
    MaxSessions = 1
    MaxRuns = 1
    MaxRequests = 4
    MaxBoots = 0
SPECIFICATION Spec
PROPERTIES
    DeadHelperReleased
CHECK_DEADLOCK FALSE
