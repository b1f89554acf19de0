\* The server refuses the subscription after a reconnect.
SPECIFICATION Spec
CONSTANTS
    main = main
    runner = runner
    HasCredentials = FALSE
    MaxSockets = 3
    Scenarios <- MCRefusal
    MaxAttempt = 1
INVARIANT SettledIsSubscribed
\* Disconnected and with every task ended, the client really stops.
CHECK_DEADLOCK FALSE
