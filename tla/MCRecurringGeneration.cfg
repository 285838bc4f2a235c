SPECIFICATION Spec
CONSTANTS
    Last = 2
    Period = 3
    Before = 1
    After = 1
    Reach = 2
    LastDay = 6
    Runs = {task, button}
    Task = task
    People = {person}
CHECK_DEADLOCK FALSE
INVARIANTS
    TypeOK
    OneRowEach
    OnlyStraysDouble
PROPERTIES
    NothingIsSkipped
    PassesWhatHappened
    DueIsWritten
