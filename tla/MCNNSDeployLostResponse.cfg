CONSTANTS
    n1 = n1
    n2 = n2
    NoContract = NoContract
    Foreign = Foreign
    Nodes <- MCNodes
    MaxHeight <- MCMaxHeight
    VubIncrement <- MCVubIncrement
    Deployers <- MCDeployers
    MaxRestarts = 0
    AmbiguousSend = TRUE
SPECIFICATION Spec
INVARIANT NoDuplicateDeploy
CHECK_DEADLOCK FALSE
