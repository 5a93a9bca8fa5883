CONSTANTS
    MaxLocks = 4
    Luids = {1, 2, 3}
    Types <- AllTypes
    TimerCreated = {TRUE, FALSE}
    Clients <- NestedOrAny
SPECIFICATION Spec
INVARIANTS
    TableIsStack
    HeldFindable
PROPERTY
    LocksKept
