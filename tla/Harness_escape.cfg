\* The same tree: a helper may call setsid() and stay behind.
CONSTANTS
    Procs = {launcher, server, helper}
    Leader = launcher
    Attempts = {a1}
    Callers = {c1}
    Privileged = {}
    Unkillable = {}
    CanEscape = TRUE
    ForeignListener = FALSE
    NoAttempt = NoAttempt
SPECIFICATION Spec
INVARIANTS
    ResolvedStopMeansTreeGone
CHECK_DEADLOCK FALSE
