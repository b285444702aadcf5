CONSTANTS
    NumMeters = 2
    CountWindow = 3
    Timed = TRUE
    MaxSweeps = 4
    MaxRaises = 2
    None = None
SPECIFICATION FairSpec
INVARIANTS TypeOK InOrder ReadingsAccounted StopLeavesLittle
PROPERTIES ImplementsBatches StopReturns FlushedByTime
