SPECIFICATION Spec
CONSTANTS
    Clients = {c1}
    Capacity = 1
    Containers = {k1}
    MaxChanges = 2
    MaxCuts = 1
CHECK_DEADLOCK FALSE
INVARIANTS ClosedOnce NothingSkipped
PROPERTIES DroppedIsDisconnected 
