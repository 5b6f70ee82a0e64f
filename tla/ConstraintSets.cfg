SPECIFICATION FairSpec
CONSTANTS
    a = a
    b = b
    k1 = k1
    k2 = k2
    k3 = k3
    TypeVar <- MCTypeVar
    Constraint <- MCConstraint
    Scheme <- MCScheme
    Instance <- MCInstance
INVARIANTS TypeOK Partition NoneLost UpToDate
PROPERTIES WorkEnds
CHECK_DEADLOCK FALSE
