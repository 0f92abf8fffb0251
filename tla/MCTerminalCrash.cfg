CONSTANTS
    MaxOutput = 1
    MaxMessages = 2
SPECIFICATION Spec
INVARIANT
    FailuresAreLogged
\* A terminal comes to its end.
CHECK_DEADLOCK FALSE
