CONSTANTS
    Collectors = {c1, c2}
    Shard = {0, 1, 2}
    Lease = {l1, l2, l3, l4, l5}
    Handle = {h1}
    Fleets <- SameFleets
    MaxFaults = 2
    None = None
SPECIFICATION Spec
SYMMETRY Symmetric
INVARIANTS TypeOK HolderOwnsLock MeterExclusion
PROPERTIES ImplementsOwnership
