SPECIFICATION Spec
CONSTANTS
    Clients = {c1}
    Capacity = 1
    Containers = {k1}
    MaxChanges = 1
    MaxCuts = 1
CHECK_DEADLOCK FALSE
PROPERTIES MonitorReconnects
