\* A launcher that SIGKILL does not end and the server it forks, which kill(2)
\* may not signal and which may leave the group.  Two tests call stop(), and a
\* stranger may hold the port.
CONSTANTS
    Procs = {leader, server}
    Leader = leader
    Attempts = {a1, a2}
    Callers = {c1, c2}
    Privileged = {server}
    Unkillable = {leader}
    CanEscape = TRUE
    ForeignListener = TRUE
    NoAttempt = NoAttempt
SPECIFICATION Spec
INVARIANTS
    TypeOK
    ResolvedStopMeansGroupGone
    PlainRejectionMeansGroupGone
    OneAttempt
    NoForgottenCaller
PROPERTIES
    KillOnlyAfterGrace
    StartSettles
    StopSettles
    ImplementsLifecycle
CHECK_DEADLOCK FALSE
