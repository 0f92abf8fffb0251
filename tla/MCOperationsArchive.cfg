CONSTANTS
    Stacks = {app}
    AgentStack = agent
    OpIds = {o1}
    NoOp = NoOp
    Requests <- MCArchiveRequests
    Codes = {0, 1}
    MaxMessages = 1
SPECIFICATION Spec
INVARIANT
    ArchiveSuccessIsReported
CHECK_DEADLOCK FALSE
