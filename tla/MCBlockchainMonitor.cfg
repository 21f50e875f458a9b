CONSTANTS
    n1 = n1
    n2 = n2
    Nodes <- MCNodes
    MaxHeight <- MCMaxHeight
SPECIFICATION Spec

INVARIANT MonitorNotAhead
PROPERTY HeightMonotonic
CHECK_DEADLOCK FALSE
