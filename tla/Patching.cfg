SPECIFICATION Spec
CONSTANTS
    Modules = {m1, m2}
    Bases = {b1, b2}
    None = none
    MaxLoads = 3
    Functions = {f1, f2}
    Unpatchable = {f2}
    MaxRequests = 3
    MaxFrontends = 2
INVARIANTS ReportsAddUp MarksAreTrue PatchesHoldModules
