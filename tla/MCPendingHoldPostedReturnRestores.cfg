SPECIFICATION Spec
CONSTANTS
    None = None
    Grace = 2
    MinAge = 1
    Fresh = 2
    MaxClock = 5
    MaxOps = 2
CHECK_DEADLOCK FALSE
PROPERTY PostedReturnRestores
