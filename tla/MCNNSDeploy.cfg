CONSTANTS
    n1 = n1
    n2 = n2
    NoContract = NoContract
    Foreign = Foreign
    Nodes <- MCNodes
    Deployers <- MCDeployers
    MaxHeight <- MCShortChain
    VubIncrement <- MCVubIncrement
    MaxRestarts = 1
    AmbiguousSend = FALSE
SPECIFICATION Spec
INVARIANT TypeOK
INVARIANT NoDuplicateInCall
CHECK_DEADLOCK FALSE
