SPECIFICATION FairSpec
CONSTANTS
    N = 3
    MaxCalls = 4
INVARIANTS
    TypeOK
    OneWithoutStep
    OneAfterStop
PROPERTIES
    StepAdvances
    PlaysToItsEnd
\* A run that is over does nothing more.
CHECK_DEADLOCK FALSE
