\* Three components that are restored in order, two containers.
CONSTANTS
    dir = dir
    bind = bind
    vol = vol
    oldvol = oldvol
    anon = anon
    Components = {dir, vol, oldvol}
    Kind <- MCKind
    Recreatable = {vol}
    Containers = {k1, k2}
SPECIFICATION Spec
INVARIANTS
    NotUnderRunning
    
PROPERTIES
    RestoreEnds
