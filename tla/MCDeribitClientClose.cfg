\* The server closes the connection normally.
SPECIFICATION FairSpec
CONSTANTS
    main = main
    runner = runner
    HasCredentials = FALSE
    MaxSockets = 3
    Scenarios <- MCClose
    MaxAttempt = 1
PROPERTY AlwaysRestored
\* Disconnected and with every task ended, the client really stops.
CHECK_DEADLOCK FALSE
