SPECIFICATION Spec
CONSTANTS
    reader = reader
    main = main
    metadata = metadata
    console = console
    Archive = archive
    Tasks <- MCTasks
    Monitors <- MCMonitors
    Suspending <- MCSuspending
    MaxSeq = 4
CHECK_DEADLOCK FALSE
INVARIANTS
    TypeOK
    ArchiveInOrder
    NoSilentLoss
    WholeAudience
    LossIsCounted
    StoppedIsLast
PROPERTIES
    ArchiveIsALog
