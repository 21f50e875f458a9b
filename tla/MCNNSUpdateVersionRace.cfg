CONSTANTS
    n1 = n1
    n2 = n2
    nefA = nefA
    nefB = nefB
    nefC = nefC
    NoContract = NoContract
    Nodes <- MCNodes
    Nefs <- MCNefs
    Version <- MCVersion
    LocalNef <- MCLocalNef
    InitialNef = nefA
    MaxHeight <- MCMaxHeight
    VubIncrement <- MCVubIncrement
    LostNotaryResponse = FALSE
SPECIFICATION Spec
INVARIANT InconsistencyIsReal
CHECK_DEADLOCK FALSE
