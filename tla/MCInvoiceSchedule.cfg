SPECIFICATION FairSpec
CONSTANTS
    Job = Job
    Users = {u}
    None = None
    MaxPeriods = 2
    MaxFailures = 2
    LastDay = 2
    LastPeriod = 4
    MaxOps = 2
    MaxCrashes = 1
CHECK_DEADLOCK FALSE
INVARIANTS
    TypeOK
PROPERTIES
    NeverBilledAgain
    RunSkipsNothing
    BillsUnderAgreement
    EndedIsTerminal
    DueIsBilledOrStopped
