SPECIFICATION FairSpec
CONSTANTS
    Defers = {0, 2}
    MaxDuration = 1
    MaxTasks = 3
    MaxTime = 3
INVARIANTS
    NoOverslept
    RunsInOrder
PROPERTIES
    EveryTaskRuns
    DestructorReturns
