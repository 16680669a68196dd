SPECIFICATION Spec
CONSTANTS
    Clients = {c1, c2}
    Files = {f1}
    NULL = NULL
    MaxMessages = 1
    MaxClicks = 2
INVARIANTS MessagesConserved NothingFreedInUse InstancesAgree
