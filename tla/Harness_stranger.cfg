\* The same tree on a port that somebody else listens on.
CONSTANTS
    Procs = {launcher, server, helper}
    Leader = launcher
    Attempts = {a1}
    Callers = {c1}
    Privileged = {}
    Unkillable = {}
    CanEscape = TRUE
    ForeignListener = TRUE
    NoAttempt = NoAttempt
SPECIFICATION Spec
INVARIANTS
    ReadyMeansServerAnswered
CHECK_DEADLOCK FALSE
