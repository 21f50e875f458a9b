CONSTANTS
    k1 = k1
    k2 = k2
    k3 = k3
    d1 = d1
    d2 = d2
    d3 = d3
    Keys <- MCKeys
    Deployers <- MCDeployers
    MaxGroups = 3
SPECIFICATION Spec
INVARIANT UpsertMatchesReference
