SPECIFICATION FairSpec
CONSTANTS
    FutureLists <- MCFutureLists
    OptionLists <- MCOptionLists
    SpotLists <- MCSpotLists
    ChannelTypes <- MCChannelTypes
    FuturesCount = 2
    BatchSize = 3
    MaxLosses = 2
    MaxFaults = 1
    MaxRefusals = 1
    MaxBeats = 1
INVARIANTS
    TypeOK
    RepliesMatch
    LastResultIsTrue
    PlanIsAsked
    PlanIsRight
PROPERTIES
    StartEnds
    LossIsRepaired
\* A start that failed ends the program.
CHECK_DEADLOCK FALSE
