SPECIFICATION Spec
CONSTANTS
    Stacks = {s1}
    NImages = 2
    Callers = {r1, r2}
    MaxScans = 2
    MaxCrashes = 1
CHECK_DEADLOCK FALSE
INVARIANTS TypeOK ActiveIsLive CompletedIsComplete UnfinishedIsWorkedOn
PROPERTIES StoredOutcomeStays 
