\* Two clients of one operation, at most three messages before the completion.
CONSTANTS
    Streams = {s1, s2}
    Codes = {0, 1}
    MaxMessages = 3
SPECIFICATION StreamingSpec
INVARIANTS
    StreamTypeOK
    NoLostWakeup
PROPERTIES
    ImplementsStreamSpec
    
\* The stream is over when the log is complete and every client has returned.
CHECK_DEADLOCK FALSE
