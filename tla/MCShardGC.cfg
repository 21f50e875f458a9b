CONSTANTS
    o1 = o1
    o2 = o2
    Objects <- MCObjects
    NHandlers = 2
    MaxEvents = 3
    MaxFailures = 1
SPECIFICATION Spec
INVARIANT TypeOK
PROPERTY GarbageRemoved
PROPERTY DropOnlyBehindCancelled
