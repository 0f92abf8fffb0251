\* Two operations on two stacks: one that is refused or takes over from a finished
\* one whose unlock or timer is late.
CONSTANTS
    Stacks = {agent, app}
    AgentStack = agent
    OpIds = {o1, o2}
    NoOp = NoOp
    Requests <- MCRequests
    Codes = {0, 1}
    MaxMessages = 2
SPECIFICATION Spec
INVARIANTS
    TypeOK
    OneWorkerPerStack
    HolderIsRegistered
    CompletionIsFinal
    HandoffIsAnnounced
PROPERTIES
    StackIsFreed
    StreamIsCompleted
\* Ids run out.
CHECK_DEADLOCK FALSE
