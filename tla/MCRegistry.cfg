CONSTANTS
    a1 = a1
    a2 = a2
    c1 = c1
    c2 = c2
    Names <- MCNames
    Contracts <- MCContracts
    MaxRecords = 2
SPECIFICATION Spec
PROPERTY ReadMatchesRegistry
