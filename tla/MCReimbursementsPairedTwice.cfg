SPECIFICATION Spec
CONSTANTS
    Credits = {1, 3}
    Expenses = {2}
    MaxAmount = 1
    Sessions = {s1, s2}
    Kinds = {"accept"}
    MaxRequests = 4
CHECK_DEADLOCK FALSE
INVARIANTS
    PairIsMutual
