SPECIFICATION Spec
CONSTANTS
    MaxEvents = 9
INVARIANTS
    TypeOK
    ObservedIsArchived
    FilesAgree
    CountsAgree
PROPERTY FinalIsFinal
\* A recorder that has stopped, or failed to start, does nothing more.
CHECK_DEADLOCK FALSE
