\* One loss with faults, everything but a loss, or two losses.
SPECIFICATION FairSpec
CONSTANTS
    main = main
    runner = runner
    HasCredentials = TRUE
    MaxSockets = 3
    Scenarios <- MCScenarios
    MaxAttempt = 2
INVARIANTS
    TypeOK
    OneFeed
    SettledIsServing
    GapReported
PROPERTIES
    Maintained
    StopEndsAll
\* Disconnected and with every task ended, the client really stops.
CHECK_DEADLOCK FALSE
