CONSTANTS
    p1 = p1  p2 = p2  m1 = m1  m2 = m2
    Producers = {p1, p2}
    Meters = {m1, m2}
    Reads <- SingleReads
    Kwh = {2}
    CountWindow = 2
    TimeWindow = 1
    MaxReadings = 2
    MaxClock = 1
    None = None
SPECIFICATION FairSpec
INVARIANTS TypeOK ExactlyOnce BatchesWellFormed AggregatesExact
PROPERTIES ImplementsBatches FlushedInTheEnd
