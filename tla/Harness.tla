------------------------------- MODULE Harness -------------------------------
(***************************************************************************)
(* startServer() and the stop() it returns (src/harness.mjs): one server   *)
(* is spawned at the head of a process group of its own, polled over HTTP  *)
(* until it is ready, and torn down with SIGTERM, a grace period and       *)
(* SIGKILL.                                                                *)
(*                                                                         *)
(* Three kinds of actor interleave.  The operating system lets members of  *)
(* the group fork, exit and become zombies between any two system calls.   *)
(* JavaScript runs to its next await without interruption by other         *)
(* JavaScript, which is what JsFree says.  The callers of stop() call it   *)
(* whenever JavaScript is free.  Time is the nondeterministic passing of a *)
(* deadline.                                                               *)
(***************************************************************************)
EXTENDS FiniteSets

CONSTANTS
    Procs,           \* the processes the server's tree may come to have
    Leader,          \* the spawned child, whose pid names the group
    Attempts,        \* names for the terminateProcessTree() calls in flight
    Callers,         \* the test code that may call stop() on the handle
    Privileged,      \* processes that kill(2) may not signal (EPERM)
    Unkillable,      \* processes SIGKILL need not end (uninterruptible sleep)
    CanEscape,       \* may a descendant leave the group (setsid)?
    ForeignListener, \* may somebody else answer on the chosen port?
    NoAttempt        \* the undefined value of stopPromise

ASSUME LeaderAssumption == Leader \in Procs
ASSUME AttemptAssumption ==
    /\ NoAttempt \notin Attempts
    /\ Attempts \cap {"idle", "resolved", "rejected"} = {}
ASSUME HazardAssumption ==
    /\ Privileged \subseteq Procs
    /\ Unkillable \subseteq Procs
    /\ CanEscape \in BOOLEAN
    /\ ForeignListener \in BOOLEAN

VARIABLES
    phase,        \* where startServer() is
    startLate,    \* Date.now() has reached the startup deadline
    spawnError,   \* "none", then "pending" until its event fires, then "seen"
    exitCode,     \* child.exitCode: "null" or "set"
    answeredBy,   \* who gave the 2xx that ended the readiness loop
    proc,         \* what each process of the tree is to the kernel
    killed,       \* the processes SIGKILL was delivered to
    pc,           \* where each terminateProcessTree() is
    signal,       \* the signal of its current round
    late,         \* Date.now() has reached the deadline of its current round
    stopped,      \* the handle's flag
    stopPromise,  \* the attempt that concurrent stop() calls share
    caller        \* idle, the attempt whose promise is awaited, or its outcome

startVars == <<phase, startLate, spawnError, exitCode, answeredBy>>
osVars    == <<proc, killed>>
termVars  == <<pc, signal, late>>
stopVars  == <<stopped, stopPromise, caller>>
vars      == <<startVars, osVars, termVars, stopVars>>

Phases == {"called", "check", "fetch", "delay", "cleanup",
           "ready", "reused", "rejected", "aggregate"}
ProcStates == {"unborn", "running", "zombie", "escaped", "gone"}
\* The steps of terminateProcessTree() that run without an await in between,
\* those that wait for the next tick, and the settled promise's reactions.
SyncSteps == {"probe", "send", "poll", "final"}
Steps     == SyncSteps \cup {"idle", "sleep", "fulfilled", "then", "failed"}
Outcomes  == {"idle", "resolved", "rejected"}

TypeOK ==
    /\ phase       \in Phases
    /\ startLate   \in BOOLEAN
    /\ spawnError  \in {"none", "pending", "seen"}
    /\ exitCode    \in {"null", "set"}
    /\ answeredBy  \in {"nobody", "server", "stranger"}
    /\ proc        \in [Procs -> ProcStates]
    /\ killed      \subseteq Procs
    /\ pc          \in [Attempts -> Steps]
    /\ signal      \in [Attempts -> {"SIGTERM", "SIGKILL"}]
    /\ late        \in [Attempts -> BOOLEAN]
    /\ stopped     \in BOOLEAN
    /\ stopPromise \in Attempts \cup {NoAttempt}
    /\ caller      \in [Callers -> Attempts \cup Outcomes]

Init ==
    /\ phase       = "called"
    /\ startLate   = FALSE
    /\ spawnError  = "none"
    /\ exitCode    = "null"
    /\ answeredBy  = "nobody"
    /\ proc        = [p \in Procs |-> "unborn"]
    /\ killed      = {}
    /\ pc          = [a \in Attempts |-> "idle"]
    /\ signal      = [a \in Attempts |-> "SIGTERM"]
    /\ late        = [a \in Attempts |-> FALSE]
    /\ stopped     = FALSE
    /\ stopPromise = NoAttempt
    /\ caller      = [c \in Callers |-> "idle"]

-----------------------------------------------------------------------------
(* The kernel's view of the group.  A zombie is a member until it is reaped. *)

Members    == {p \in Procs : proc[p] \in {"running", "zombie"}}
GroupAlive == Members # {}                     \* kill(-pgid, 0) is not ESRCH
TreeGone   == \A p \in Procs : proc[p] \in {"unborn", "gone"}

Refused == GroupAlive /\ Members \subseteq Privileged          \* EPERM

\* No JavaScript is between two awaits.
JsFree == phase # "check" /\ \A a \in Attempts : pc[a] \notin SyncSteps

-----------------------------------------------------------------------------
(* Processes.                                                               *)

Turn(p, state) ==
    /\ proc' = [proc EXCEPT ![p] = state]
    /\ UNCHANGED <<phase, startLate, spawnError, answeredBy, killed, termVars, stopVars>>

\* A child is born into its parent's group, and an escaped one outside it.
Fork(parent, p) ==
    /\ proc[parent] \in {"running", "escaped"} /\ parent \notin killed
    /\ proc[p] = "unborn"
    /\ Turn(p, proc[parent])
    /\ UNCHANGED exitCode

\* setsid() in a descendant; the leader of a group cannot leave it.
Escape(p) ==
    /\ CanEscape
    /\ p # Leader /\ p \notin killed /\ proc[p] = "running"
    /\ Turn(p, "escaped")
    /\ UNCHANGED exitCode

\* A process ends of its own accord, by SIGTERM or by SIGKILL.
Exit(p) ==
    /\ \/ proc[p] = "running" /\ Turn(p, "zombie")
       \/ proc[p] = "escaped" /\ Turn(p, "gone")
    /\ UNCHANGED exitCode

\* A descendant is reaped by its parent or by init.
Reap(p) ==
    /\ p # Leader /\ proc[p] = "zombie"
    /\ Turn(p, "gone")
    /\ UNCHANGED exitCode

\* Node reaps its child in the event loop.  exitCode stays null for a child
\* that a signal ended.
ReapLeader ==
    /\ JsFree
    /\ proc[Leader] = "zombie"
    /\ Turn(Leader, "gone")
    /\ exitCode' \in {"null", "set"}

-----------------------------------------------------------------------------
(* startServer() and waitForHttp().                                         *)

Enter(from, to) ==
    /\ phase = from
    /\ phase' = to
    /\ UNCHANGED <<startLate, exitCode, killed, stopVars>>

\* The URL of a running server is in the environment: nothing is spawned.
Reuse == Enter("called", "reused") /\ UNCHANGED <<spawnError, answeredBy, proc, termVars>>

\* spawn() and the call of waitForHttp(), whose first check follows at once.
Spawn ==
    /\ Enter("called", "check")
    /\ \/ proc' = [proc EXCEPT ![Leader] = "running"] /\ UNCHANGED spawnError
       \/ spawnError' = "pending" /\ UNCHANGED proc
    /\ UNCHANGED <<answeredBy, termVars>>

SpawnErrorEvent ==
    /\ JsFree
    /\ spawnError = "pending"
    /\ spawnError' = "seen"
    /\ UNCHANGED <<phase, startLate, exitCode, answeredBy, osVars, termVars, stopVars>>

StartupDeadline ==
    /\ phase \in {"check", "fetch", "delay"}
    /\ ~startLate
    /\ startLate' = TRUE
    /\ UNCHANGED <<phase, spawnError, exitCode, answeredBy, osVars, termVars, stopVars>>

\* A new terminateProcessTree() runs up to its first system call.
Begin(a) ==
    /\ pc[a] = "idle"
    /\ pc' = [pc EXCEPT ![a] = "probe"]
    /\ signal' = [signal EXCEPT ![a] = "SIGTERM"]
    /\ late' = [late EXCEPT ![a] = FALSE]

\* The loop's three ways to throw; the catch block starts the cleanup.
StartupFails ==
    /\ startLate \/ spawnError = "seen" \/ exitCode = "set"
    /\ Enter("check", "cleanup")
    /\ \E a \in Attempts : Begin(a)
    /\ UNCHANGED <<spawnError, answeredBy, proc>>

Fetch ==
    /\ ~startLate /\ spawnError # "seen" /\ exitCode = "null"
    /\ Enter("check", "fetch")
    /\ UNCHANGED <<spawnError, answeredBy, proc, termVars>>

\* A 2xx.  The spawn error's nextTick comes before any answer.
FetchOk ==
    /\ spawnError # "pending"
    /\ Enter("fetch", "ready")
    /\ \/ answeredBy' = "server" /\ \E p \in Procs : proc[p] \in {"running", "escaped"}
       \/ answeredBy' = "stranger" /\ ForeignListener
    /\ UNCHANGED <<spawnError, proc, termVars>>

\* Another status, or a refused connection.
FetchNotOk ==
    /\ spawnError # "pending"
    /\ Enter("fetch", "delay")
    /\ UNCHANGED <<spawnError, answeredBy, proc, termVars>>

Delay == Enter("delay", "check") /\ UNCHANGED <<spawnError, answeredBy, proc, termVars>>

-----------------------------------------------------------------------------
(* terminateProcessTree(), one action per system call or await.             *)

Goto(a, from, to) ==
    /\ pc[a] = from
    /\ pc' = [pc EXCEPT ![a] = to]
    /\ UNCHANGED <<startLate, spawnError, exitCode, answeredBy, proc>>

Go(a, from, to) == Goto(a, from, to) /\ UNCHANGED <<phase, killed, stopVars>>

Probe(a) ==
    /\ Go(a, "probe", IF GroupAlive THEN "send" ELSE "fulfilled")
    /\ UNCHANGED <<signal, late>>

\* (mutant) child.kill() instead of the kill of the group.
SendToLeader(a) ==
    /\ Goto(a, "send", IF Refused THEN "failed" ELSE "poll")
    /\ killed' = IF signal[a] = "SIGKILL" THEN killed \cup {Leader} ELSE killed
    /\ late' = [late EXCEPT ![a] = FALSE]
    /\ UNCHANGED <<phase, signal, stopVars>>

\* kill(-pgid, signal).  A group that is gone is no error (ESRCH); a refusal
\* (EPERM) is thrown.  The round's deadline is set right after.
Send(a) ==
    /\ Goto(a, "send", IF Refused THEN "failed" ELSE "poll")
    /\ killed' = IF signal[a] = "SIGKILL"
                 THEN killed \cup {p \in Procs \ Privileged : proc[p] = "running"}
                 ELSE killed
    /\ late' = [late EXCEPT ![a] = FALSE]
    /\ UNCHANGED <<phase, signal, stopVars>>

RoundDeadline(a) ==
    /\ pc[a] \in {"poll", "sleep"}
    /\ ~late[a]
    /\ late' = [late EXCEPT ![a] = TRUE]
    /\ UNCHANGED <<startVars, osVars, pc, signal, stopVars>>

\* (mutant) one look at the group instead of a grace period.
PollOnce(a) == Go(a, "poll", "final") /\ UNCHANGED <<signal, late>>

Poll(a) ==
    /\ Go(a, "poll", IF GroupAlive /\ ~late[a] THEN "sleep" ELSE "final")
    /\ UNCHANGED <<signal, late>>

Sleep(a) == JsFree /\ Go(a, "sleep", "poll") /\ UNCHANGED <<signal, late>>

\* (mutant) nobody looks again after SIGKILL.
FinalTrustsKill(a) ==
    /\ UNCHANGED late
    /\ \/ (GroupAlive => signal[a] = "SIGKILL") /\ Go(a, "final", "fulfilled") /\ UNCHANGED signal
       \/ /\ GroupAlive /\ signal[a] = "SIGTERM"
          /\ Go(a, "final", "send")
          /\ signal' = [signal EXCEPT ![a] = "SIGKILL"]

\* The fresh look after the loop decides the round.
Final(a) ==
    /\ \/ ~GroupAlive /\ Go(a, "final", "fulfilled") /\ UNCHANGED signal
       \/ /\ GroupAlive /\ signal[a] = "SIGTERM"
          /\ Go(a, "final", "send")
          /\ signal' = [signal EXCEPT ![a] = "SIGKILL"]
       \/ /\ GroupAlive /\ signal[a] = "SIGKILL"
          /\ Go(a, "final", "failed")
          /\ UNCHANGED signal
    /\ UNCHANGED late

\* (mutants) the cleanup's own failure is swallowed, or is waited out.
CleanupFailureSwallowed(a) ==
    /\ \E at \in {"fulfilled", "failed"} : Goto(a, at, "idle")
    /\ Enter("cleanup", "rejected")
    /\ UNCHANGED <<signal, late>>
CleanupFailureUnhandled(a) ==
    Goto(a, "fulfilled", "idle") /\ Enter("cleanup", "rejected") /\ UNCHANGED <<signal, late>>

\* startServer() rejects with the startup error, or with an AggregateError
\* when the cleanup failed as well.
CleanupSettles(a) ==
    /\ \/ Goto(a, "fulfilled", "idle") /\ Enter("cleanup", "rejected")
       \/ Goto(a, "failed", "idle") /\ Enter("cleanup", "aggregate")
    /\ UNCHANGED <<signal, late>>

-----------------------------------------------------------------------------
(* stop().                                                                  *)

MayCall(c) == JsFree /\ caller[c] \in {"idle", "rejected"}

\* The no-op stop() of a reused server, or a stop() after one that succeeded.
StopReturns(c) ==
    /\ MayCall(c)
    /\ phase = "reused" \/ (phase = "ready" /\ stopped)
    /\ caller' = [caller EXCEPT ![c] = "resolved"]
    /\ UNCHANGED <<startVars, osVars, termVars, stopped, stopPromise>>

\* (mutant) the promise is handed out unseen.
StopJoinsUnseen(c) ==
    /\ MayCall(c)
    /\ phase = "ready" /\ ~stopped
    /\ caller' = [caller EXCEPT ![c] = stopPromise]
    /\ UNCHANGED <<startVars, osVars, termVars, stopped, stopPromise>>

StopJoins(c) ==
    /\ MayCall(c)
    /\ phase = "ready" /\ ~stopped /\ stopPromise # NoAttempt
    /\ caller' = [caller EXCEPT ![c] = stopPromise]
    /\ UNCHANGED <<startVars, osVars, termVars, stopped, stopPromise>>

\* (mutant) every stop() starts an attempt of its own.
StopBeginsAnyway(c) ==
    /\ MayCall(c)
    /\ phase = "ready" /\ ~stopped
    /\ \E a \in Attempts :
          Begin(a) /\ stopPromise' = a /\ caller' = [caller EXCEPT ![c] = a]
    /\ UNCHANGED <<startVars, osVars, stopped>>

StopBegins(c) ==
    /\ MayCall(c)
    /\ phase = "ready" /\ ~stopped /\ stopPromise = NoAttempt
    /\ \E a \in Attempts :
          /\ Begin(a)
          /\ stopPromise' = a
          /\ caller' = [caller EXCEPT ![c] = a]
    /\ UNCHANGED <<startVars, osVars, stopped>>

\* (mutants) the promise is cleared too early, or stopped is set by .finally().
ThenClears(a) ==
    /\ phase = "ready" /\ JsFree
    /\ Goto(a, "fulfilled", "then")
    /\ stopped' = TRUE /\ stopPromise' = NoAttempt
    /\ UNCHANGED <<phase, killed, signal, late, caller>>
ThenAlways(a) ==
    /\ phase = "ready" /\ JsFree
    /\ \E at \in {"fulfilled", "failed"} : Goto(a, at, "then")
    /\ stopped' = TRUE
    /\ UNCHANGED <<phase, killed, signal, late, stopPromise, caller>>

\* .then(() => { stopped = true }), a microtask of its own.
Then(a) ==
    /\ phase = "ready" /\ JsFree
    /\ Goto(a, "fulfilled", "then")
    /\ stopped' = TRUE
    /\ UNCHANGED <<phase, killed, signal, late, stopPromise, caller>>

\* (mutant) a failed attempt leaves its promise behind.
FinallyOnlyAfterThen(a) ==
    /\ phase = "ready" /\ JsFree
    /\ Goto(a, "then", "idle")
    /\ caller' = [c \in Callers |-> IF caller[c] # a THEN caller[c] ELSE "resolved"]
    /\ stopPromise' = NoAttempt
    /\ UNCHANGED <<phase, killed, signal, late, stopped>>

\* .finally(() => { stopPromise = undefined }), and the awaiting callers learn
\* the outcome of the attempt.
Finally(a) ==
    /\ phase = "ready" /\ JsFree
    /\ \E at \in {"then", "failed"} :
          /\ Goto(a, at, "idle")
          /\ caller' = [c \in Callers |->
                          IF caller[c] # a THEN caller[c]
                          ELSE IF at = "then" THEN "resolved" ELSE "rejected"]
    /\ stopPromise' = NoAttempt
    /\ UNCHANGED <<phase, killed, signal, late, stopped>>

-----------------------------------------------------------------------------
KernelStep ==
    \/ ReapLeader
    \/ \E p \in Procs : \/ \E q \in Procs : Fork(q, p)
                        \/ Escape(p) \/ Exit(p) \/ Reap(p)

StartStep == Reuse \/ Spawn \/ SpawnErrorEvent \/ StartupFails
             \/ Fetch \/ FetchOk \/ FetchNotOk \/ Delay

AttemptStep(a) == Probe(a) \/ Send(a) \/ Poll(a) \/ Sleep(a) \/ Final(a)
                  \/ CleanupSettles(a) \/ Then(a) \/ Finally(a)

StopCall(c) == StopReturns(c) \/ StopJoins(c) \/ StopBegins(c)

Next ==
    \/ KernelStep \/ StartStep \/ StartupDeadline
    \/ \E a \in Attempts : AttemptStep(a) \/ RoundDeadline(a)
    \/ \E c \in Callers : StopCall(c)

(* JavaScript goes on as long as it has work, deadlines pass, and a fetch    *)
(* ends.  Nobody has to call stop(), and no process has to exit by itself;   *)
(* SIGKILL ends what it can end, and zombies are reaped.  The event loop     *)
(* gets to its reaping again and again, however often stop() is retried in   *)
(* between, hence strong fairness.                                           *)
Fairness ==
    /\ WF_vars(StartStep) /\ WF_vars(StartupDeadline)
    /\ \A a \in Attempts : WF_vars(AttemptStep(a)) /\ WF_vars(RoundDeadline(a))
    /\ SF_vars(ReapLeader)
    /\ \A p \in Procs :
          /\ WF_vars(Reap(p))
          /\ WF_vars(p \in killed \ Unkillable /\ Exit(p))

Spec == Init /\ [][Next]_vars /\ Fairness

-----------------------------------------------------------------------------
(* Properties.                                                              *)

\* A stop() of a spawned server that resolved, and the flag that lets later
\* calls resolve at once, mean that the whole process group is gone, although
\* members fork, ignore SIGTERM or refuse signals at any point.
ResolvedStopMeansGroupGone ==
    phase = "ready" /\ (stopped \/ \E c \in Callers : caller[c] = "resolved")
        => ~GroupAlive

\* A startServer() that rejects with the startup error alone has left no
\* member of the group; only the AggregateError may.
PlainRejectionMeansGroupGone == phase = "rejected" => ~GroupAlive

\* Two stop() calls never run two terminateProcessTree() at a time, so a group
\* that is in its grace period is not signalled by a second attempt.
Active == {a \in Attempts : pc[a] # "idle"}
OneAttempt == \A a, b \in Active : a = b

\* Whoever awaits a stop() awaits the attempt in flight, never one whose
\* reactions already ran: nobody is forgotten by the clearing of stopPromise.
NoForgottenCaller ==
    \A c \in Callers : caller[c] \in Attempts =>
        caller[c] = stopPromise /\ caller[c] \in Active

\* SIGKILL reaches a process only after a full grace period of its attempt.
KillOnlyAfterGrace ==
    [][killed' # killed => \E a \in Attempts : signal[a] = "SIGKILL" /\ late[a]]_vars

\* A start ends, and a stop() that somebody awaits settles, however the
\* processes behave.
StartSettles == <>(phase \in {"ready", "reused", "rejected", "aggregate"})
StopSettles ==
    \A c \in Callers : caller[c] \in Attempts ~> caller[c] \in {"resolved", "rejected"}

\* When every process can be signalled and killed, whatever stop() or the
\* cleanup of a failed start reports, the group is gone in the end.
TeardownEndsGroup ==
    phase = "cleanup" \/ (phase = "ready" /\ Active # {}) ~> ~GroupAlive

\* The code implements the promise of ServerLifecycle.
Lifecycle == INSTANCE ServerLifecycle WITH
    server <- CASE phase = "rejected"  -> "failed"
                [] phase = "aggregate" -> "leaked"
                [] phase = "ready"     -> "up"
                [] phase = "reused"    -> "reused"
                [] OTHER               -> "starting",
    group  <- CASE GroupAlive                    -> "alive"
                [] proc[Leader] = "unborn"       -> "unborn"
                [] OTHER                         -> "gone",
    closed <- stopped,
    stop   <- [c \in Callers |-> IF caller[c] \in Attempts THEN "waiting" ELSE caller[c]]
ImplementsLifecycle == Lifecycle!Spec

\* src/README.md: "cleanup signals the complete spawned process group, escalates
\* TERM to KILL, and verifies that no descendant remains before resolving".
ResolvedStopMeansTreeGone ==
    phase = "ready" /\ (\E c \in Callers : caller[c] = "resolved") => TreeGone

\* harness.mjs: "Boot an application server for E2E and wait until it answers
\* readyPath": the answer that ends the wait is the booted server's.
ReadyMeansServerAnswered == phase = "ready" => answeredBy = "server"
=============================================================================
