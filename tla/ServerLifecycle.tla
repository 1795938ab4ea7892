--------------------------- MODULE ServerLifecycle ---------------------------
(***************************************************************************)
(* What startServer() of src/harness.mjs promises to a test file, without  *)
(* signals, polls or promises: a server comes up or the start fails, and   *)
(* stop() answers its callers, with success only when the server's process *)
(* group has no member left.  Harness.tla is shown to implement it.        *)
(***************************************************************************)
CONSTANT Callers    \* the test code that may call stop() on one handle

VARIABLES
    server,         \* how startServer() stands with the test that called it
    group,          \* the server's process group, as the kernel sees it
    closed,         \* a stop() has succeeded, and later ones succeed at once
    stop            \* what each caller's last stop() came to

vars == <<server, group, closed, stop>>

ServerStates == {"starting", "up", "reused", "failed", "leaked"}
GroupStates  == {"unborn", "alive", "gone"}
StopStates   == {"idle", "waiting", "resolved", "rejected"}

TypeOK ==
    /\ server \in ServerStates
    /\ group  \in GroupStates
    /\ closed \in BOOLEAN
    /\ stop   \in [Callers -> StopStates]

Init ==
    /\ server = "starting"
    /\ group  = "unborn"
    /\ closed = FALSE
    /\ stop   = [c \in Callers |-> "idle"]

Waiting == {c \in Callers : stop[c] = "waiting"}

\* Everyone who waits hears the same answer.
Answer(outcome) ==
    stop' = [c \in Callers |-> IF c \in Waiting THEN outcome ELSE stop[c]]
-----------------------------------------------------------------------------
Boot ==
    /\ server = "starting"
    /\ group = "unborn"
    /\ group' = "alive"
    /\ UNCHANGED <<server, closed, stop>>

\* The last member of the group leaves it.  No action brings a group back.
Die ==
    /\ group = "alive"
    /\ group' = "gone"
    /\ UNCHANGED <<server, closed, stop>>

ComeUp ==
    /\ server = "starting"
    /\ \/ server' = "up"
       \/ group = "unborn" /\ server' = "reused"
    /\ UNCHANGED <<group, closed, stop>>

\* A start that fails leaves nothing behind, unless it says that it does.
Fail ==
    /\ server = "starting"
    /\ \/ group # "alive" /\ server' = "failed"
       \/ server' = "leaked"
    /\ UNCHANGED <<group, closed, stop>>

Request(c) ==
    /\ stop[c] \in {"idle", "rejected"}
    /\ \/ /\ server = "up"
          /\ ~closed
          /\ stop' = [stop EXCEPT ![c] = "waiting"]
       \/ /\ server = "reused" \/ closed
          /\ stop' = [stop EXCEPT ![c] = "resolved"]
    /\ UNCHANGED <<server, group, closed>>

Close ==
    /\ Waiting # {}
    /\ group # "alive"
    /\ closed' = TRUE
    /\ UNCHANGED <<server, group, stop>>

Resolve ==
    /\ Waiting # {}
    /\ closed
    /\ Answer("resolved")
    /\ UNCHANGED <<server, group, closed>>

Reject ==
    /\ Waiting # {}
    /\ ~closed
    /\ Answer("rejected")
    /\ UNCHANGED <<server, group, closed>>

Next ==
    \/ Boot \/ Die \/ ComeUp \/ Fail \/ Close \/ Resolve \/ Reject
    \/ \E c \in Callers : Request(c)

\* The start comes to an end, and no stop() waits for ever.
Spec ==
    /\ Init
    /\ [][Next]_vars
    /\ WF_vars(ComeUp \/ Fail)
    /\ WF_vars(Resolve \/ Reject)
=============================================================================
