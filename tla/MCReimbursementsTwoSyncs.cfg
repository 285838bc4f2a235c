SPECIFICATION Spec
CONSTANTS
    Credits = {1}
    Expenses = {2}
    MaxAmount = 3
    Sessions = {s1, s2}
    Kinds = {"sync"}
    MaxRequests = 2
CHECK_DEADLOCK FALSE
INVARIANTS
    LinksFit
