CONSTANTS
    Collectors = {c1, c2}
    Shard = {0, 1}
    Lease = {l1, l2, l3}
    Handle = {h1}
    Fleets <- PlainFleets
    MaxFaults = 1
    None = None
SPECIFICATION FairSpec
PROPERTIES LoneContenderServed StaleEntryExpires
