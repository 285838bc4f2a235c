SPECIFICATION MCSpec
CONSTANTS
    Credits = {1, 3}
    Expenses = {2}
    MaxAmount = 2
    Sessions = {s1, s2}
    Kinds = {"replace", "link", "accept", "split", "unpair", "edit", "sync"}
    MaxRequests = 3
    First = s1
    MaxReports = 2
CHECK_DEADLOCK FALSE
INVARIANTS
    TypeOK
    LinksFitUncrossed
    StandsAlone
    WaitsAscend
PROPERTIES
    KeepsTheBook
    RequestEnds
