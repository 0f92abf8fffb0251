\* A start and one more message, so that the session ends in every way there is.
CONSTANTS
    MaxOutput = 2
    MaxMessages = 2
SPECIFICATION Spec
PROPERTIES
    FramesInStep
    
    EndIsTold
    SessionIsReleased
\* A terminal comes to its end.
CHECK_DEADLOCK FALSE
