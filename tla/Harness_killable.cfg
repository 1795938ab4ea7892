\* A tree of three processes that can all be signalled and killed, whatever
\* they fork and however they ignore SIGTERM.
CONSTANTS
    Procs = {launcher, server, helper}
    Leader = launcher
    Attempts = {a1}
    Callers = {c1}
    Privileged = {}
    Unkillable = {}
    CanEscape = TRUE
    ForeignListener = FALSE
    NoAttempt = NoAttempt
SPECIFICATION Spec
PROPERTIES
    TeardownEndsGroup
CHECK_DEADLOCK FALSE
