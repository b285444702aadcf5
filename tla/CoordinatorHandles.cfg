CONSTANTS
    Collectors = {c1, c2}
    Shard = {0, 1, 2}
    Lease = {l1, l2, l3, l4}
    Handle = {h1, h2}
    Fleets <- SpareFleets
    MaxFaults = 1
    None = None
SPECIFICATION Spec
SYMMETRY Symmetric
INVARIANTS OrphansNeedFaults
PROPERTIES SecondCallNeverClimbs
