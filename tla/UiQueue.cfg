SPECIFICATION UiFairSpec
CONSTANTS
    Defers = {0, 1}
    MaxDuration = 1
    MaxTasks = 3
    MaxTime = 2
    Threads = {t1, t2}
    Never = Never
INVARIANTS
    QueueServed
PROPERTIES
    EveryUiTaskRuns
