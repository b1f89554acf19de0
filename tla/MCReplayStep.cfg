SPECIFICATION FairSpec
CONSTANTS
    N = 3
    MaxCalls = 3
PROPERTY StepServed
\* A run that is over does nothing more.
CHECK_DEADLOCK FALSE
