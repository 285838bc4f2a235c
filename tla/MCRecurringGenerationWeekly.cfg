SPECIFICATION Spec
CONSTANTS
    Last = 2
    Period = 3
    Before = 1
    After = 1
    Reach = 2
    LastDay = 6
    Runs = {task}
    Task = task
    People = {}
CHECK_DEADLOCK FALSE
INVARIANT NeverDoubled
