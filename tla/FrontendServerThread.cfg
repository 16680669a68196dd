SPECIFICATION Spec
CONSTANTS
    Clients = {c1}
    Files = {}
    NULL = NULL
    MaxMessages = 1
    MaxClicks = 2
INVARIANT ServesUntilStopped
