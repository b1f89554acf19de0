SPECIFICATION Spec
CONSTANTS
    MaxEvents = 6
INVARIANT StatusCountsEvents
\* A recorder that has stopped, or failed to start, does nothing more.
CHECK_DEADLOCK FALSE
