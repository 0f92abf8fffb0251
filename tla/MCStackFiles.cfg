\* Two requests, four entries of the audit log, two days, a restart between any two steps.
CONSTANTS
    Requests = {r1, r2}
    Nothing = Nothing
    Operations <- MCOperations
    InitialFiles <- MCFiles
    MaxDepth = 4
    MaxSize = 2
    MaxDay = 2
    MaxEntries = 4
SPECIFICATION StackSpec
SYMMETRY Symmetry
INVARIANTS
    WholeFiles
    
    
\* The requests run out.
CHECK_DEADLOCK FALSE
