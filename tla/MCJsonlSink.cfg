SPECIFICATION Spec
CONSTANTS
    market = market
    connection = connection
    Partitions <- MCPartitions
    FlushEvery = 2
    MaxSeq = 3
INVARIANTS
    TypeOK
    CompleteIsValid
    ValidIsWhole
    LossWindow
SYMMETRY MCSymmetry
\* A process that has ended stays ended.
CHECK_DEADLOCK FALSE
