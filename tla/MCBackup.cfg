CONSTANTS
    RunIds = {r1, r2}
    LastPart = 2
    Deletes = {d1}
    Browses = {w1}
    Nobody = Nobody
SPECIFICATION Spec
INVARIANTS
    TypeOK
    RecordsAreBacked
    RunningHasOwner
    StackComesBack
PROPERTIES
    RemovedAfterForget
    ReadersKeepSnapshots
    RunIsSettled
CHECK_DEADLOCK FALSE
