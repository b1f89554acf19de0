SPECIFICATION Spec
CONSTANTS
    market = market
    connection = connection
    Partitions <- MCPartitions
    FlushEvery = 2
    MaxSeq = 3
INVARIANT GateHolds
\* A process that has ended stays ended.
CHECK_DEADLOCK FALSE
