SPECIFICATION Spec
CONSTANTS
    None = None
    Grace = 2
    MinAge = 1
    Fresh = 2
    MaxClock = 5
    MaxOps = 3
CHECK_DEADLOCK FALSE
INVARIANTS
    TypeOK
    IgnoreHasOwner
PROPERTIES
    RetirementIsEarned
    OwnershipSticks
    AuditSurvives
    PostingIsSeen
