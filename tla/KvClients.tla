------------------------------ MODULE KvClients ------------------------------
(***************************************************************************)
(* Instances of the service under test that update one record of the stub  *)
(* store (KvStub) the way its wire contract is meant to be used: GET the   *)
(* entry, PUT the new value with prev_revision set to the revision read (0 *)
(* if there was none), and start over on cas_mismatch.  A call that gets no*)
(* answer in time is repeated, from the GET or with the same PUT, while the*)
(* first one may still be on its way or waiting for its body.              *)
(*                                                                         *)
(* The clients are not part of the repository.  The record is the set of   *)
(* the clients whose update it contains.                                   *)
(***************************************************************************)
EXTENDS KvStub

CONSTANTS
    Clients,
    Record,        \* the key that all of them update
    MaxTries,      \* bound: calls one client makes
    MaxTimeouts    \* bound: calls that are given up on, by all clients

ASSUME ClientAssumption ==
    /\ Record \in Keys
    /\ Values = SUBSET Clients
    /\ Requests = Clients \X (1..MaxTries)
    /\ MaxTries \in Nat /\ MaxTimeouts \in Nat

VARIABLES
    step,          \* what each client does next, or waits for
    tries,         \* calls each client has made
    seen,          \* the entry each client read last
    timeouts

clientVars == <<step, tries, seen, timeouts>>

ClientTypeOK ==
    /\ step \in [Clients -> {"read", "reading", "write", "writing", "done"}]
    /\ tries \in [Clients -> 0..MaxTries]
    /\ seen \in [Clients -> [value : Values, rev : Nat]]
    /\ timeouts \in 0..MaxTimeouts

ClientInit ==
    /\ Init
    /\ step = [c \in Clients |-> "read"]
    /\ tries = [c \in Clients |-> 0]
    /\ seen = [c \in Clients |-> [value |-> {}, rev |-> 0]]
    /\ timeouts = 0

Latest(c) == <<c, tries[c]>>
Next1(c)  == <<c, tries[c] + 1>>

Transition(c, from, to) == step[c] = from /\ step' = [step EXCEPT ![c] = to]

Issue(c, a) ==
    /\ tries[c] < MaxTries
    /\ tries' = [tries EXCEPT ![c] = @ + 1]
    /\ Send(Next1(c), a)

Read(c) ==
    /\ Transition(c, "read", "reading")
    /\ Issue(c, [op |-> "GET", key |-> Record])
    /\ UNCHANGED <<seen, timeouts>>

ReadDone(c) ==
    /\ Transition(c, "reading", "write")
    /\ Deliver(Latest(c))
    /\ LET answer == reply[Latest(c)] IN
       seen' = [seen EXCEPT ![c] =
                  [value |-> IF answer.result = "found" THEN answer.value ELSE {},
                   rev   |-> answer.rev]]
    /\ UNCHANGED <<tries, timeouts>>

\* (bound) Prevs holds the revisions that a client can send.
Write(c) ==
    /\ Transition(c, "write", "writing")
    /\ seen[c].rev \in Prevs
    /\ Issue(c, [op |-> "PUT", key |-> Record,
                 value |-> seen[c].value \cup {c}, prev |-> seen[c].rev])
    /\ UNCHANGED <<seen, timeouts>>

WriteDone(c) ==
    /\ step[c] = "writing"
    /\ Deliver(Latest(c))
    /\ Transition(c, "writing", IF reply[Latest(c)].result = "ok" THEN "done" ELSE "read")
    /\ UNCHANGED <<tries, seen, timeouts>>

\* No answer in time, whatever became of the call: it may still take effect.
GiveUp(c) ==
    /\ timeouts < MaxTimeouts
    /\ timeouts' = timeouts + 1
    /\ \/ Transition(c, "reading", "read")
       \/ Transition(c, "writing", "read")
       \/ Transition(c, "writing", "write")
    /\ UNCHANGED <<vars, tries, seen>>

\* A call that was refused or cut off for good is repeated.
Repeat(c) ==
    /\ Transition(c, "reading", "read") \/ Transition(c, "writing", "read")
    /\ stage[Latest(c)] = "lost"
    /\ UNCHANGED <<vars, tries, seen, timeouts>>

Abandoned(r) == r # Latest(r[1]) \/ step[r[1]] \notin {"reading", "writing"}

ClientStep(c) == Read(c) \/ ReadDone(c) \/ Write(c) \/ WriteDone(c) \/ Repeat(c)

StubStep ==
    /\ \/ \E r \in Requests : HandlerStep(r)
       \/ \E r \in Requests : Abandoned(r) /\ NetworkStep(r)
       \/ Stop
    /\ UNCHANGED clientVars

ClientNext == StubStep \/ \E c \in Clients : ClientStep(c) \/ GiveUp(c)

\* Clients go on, and the stub gets to every request and body, while it serves.
ClientSpec ==
    /\ ClientInit
    /\ [][ClientNext]_<<vars, clientVars>>
    /\ \A c \in Clients : WF_<<vars, clientVars>>(ClientStep(c))
    /\ \A r \in Requests :
          WF_<<vars, clientVars>>(HandlerStep(r) /\ UNCHANGED clientVars)

-----------------------------------------------------------------------------
\* An update that a client was told is stored stays in the record, whatever
\* was retried, answered late or mismatched in between.
AcknowledgedUpdatesSurvive ==
    \A c \in Clients : step[c] = "done" => c \in entries[Record].value

\* The record never loses an update that it once contained, acknowledged or
\* not: a late PUT that was given up on cannot roll it back.
RecordOnlyGrows ==
    [][entries[Record].rev # 0 => entries[Record].value \subseteq entries'[Record].value]_<<vars, clientVars>>

\* Every client gets its update in, unless the test stops the stub: a
\* mismatch always means that somebody else made progress.
UpdatesGetIn ==
    <>(server # "serving") \/ \A c \in Clients : <>(step[c] = "done")
=============================================================================
