SPECIFICATION Spec
CONSTANTS
    Modules = {m1}
    Bases = {b1, b2}
    None = none
    MaxLoads = 2
    Functions = {f1}
    Unpatchable = {}
    MaxRequests = 1
    MaxFrontends = 1
INVARIANT SafeAfterUnload
