SPECIFICATION Spec
CONSTANTS
    Job = Job
    Users = {u}
    None = None
    MaxPeriods = 2
    MaxFailures = 2
    LastDay = 2
    LastPeriod = 4
    MaxOps = 1
    MaxCrashes = 0
CHECK_DEADLOCK FALSE
PROPERTY
    PauseSticks
