\* Three runs so that counts can agree by accident; listings exclude each other.
CONSTANTS
    RunIds = {r1, r2, r3}
    Listers = {l1}
    Nobody = Nobody
SPECIFICATION Spec
INVARIANTS
    TrustedIndexAgrees
PROPERTIES
    NoGoingBack
\* Run ids run out.
CHECK_DEADLOCK FALSE
