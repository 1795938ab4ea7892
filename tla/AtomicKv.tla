------------------------------ MODULE AtomicKv -------------------------------
(***************************************************************************)
(* What the KV stub of src/stubs.mjs promises to the service under test:   *)
(* a store of values with revisions in which every request takes effect at *)
(* one instant between its call and its answer, or not at all.  KvStub.tla *)
(* is shown to implement it.                                               *)
(***************************************************************************)
EXTENDS Integers

CONSTANTS
    Keys, Values, Requests,
    NoValue,        \* what an absent key holds
    Unconditional,  \* prev_revision null
    Asks,           \* what a request may ask for
    NoAsk, NoReply

VARIABLES
    entries,        \* per key, the value and its mod_revision (0: absent)
    revision,       \* the revision of the last write of any key
    status,         \* idle, pending, answered or dropped, per request
    ask, reply

vars == <<entries, revision, status, ask, reply>>

Init ==
    /\ entries  = [k \in Keys |-> [value |-> NoValue, rev |-> 0]]
    /\ revision = 0
    /\ status   = [r \in Requests |-> "idle"]
    /\ ask      = [r \in Requests |-> NoAsk]
    /\ reply    = [r \in Requests |-> NoReply]

Call(r) ==
    /\ status[r] = "idle"
    /\ status' = [status EXCEPT ![r] = "pending"]
    /\ \E a \in Asks : ask' = [ask EXCEPT ![r] = a]
    /\ UNCHANGED <<entries, revision, reply>>

Pending(r, op) == status[r] = "pending" /\ ask[r].op = op

\* The one instant at which a request takes effect and its answer is fixed.
Take(r, result, value, rev) ==
    /\ status' = [status EXCEPT ![r] = "answered"]
    /\ reply' = [reply EXCEPT ![r] = [result |-> result, value |-> value, rev |-> rev]]
    /\ UNCHANGED ask

Read(r) ==
    /\ Pending(r, "GET")
    /\ LET entry == entries[ask[r].key]
       IN  Take(r, IF entry.rev = 0 THEN "absent" ELSE "found", entry.value, entry.rev)
    /\ UNCHANGED <<entries, revision>>

Agrees(r) == ask[r].prev \in {Unconditional, entries[ask[r].key].rev}

Write(r) ==
    /\ Pending(r, "PUT")
    /\ Agrees(r)
    /\ revision' = revision + 1
    /\ entries' = [entries EXCEPT ![ask[r].key] = [value |-> ask[r].value, rev |-> revision + 1]]
    /\ Take(r, "ok", NoValue, revision + 1)

Mismatch(r) ==
    /\ Pending(r, "PUT")
    /\ ~Agrees(r)
    /\ Take(r, "cas_mismatch", NoValue, entries[ask[r].key].rev)
    /\ UNCHANGED <<entries, revision>>

\* A request the store does not serve.
Refuse(r) ==
    /\ Pending(r, "other")
    /\ Take(r, "error", NoValue, 0)
    /\ UNCHANGED <<entries, revision>>

\* Requests that fail before they take effect, alone or with the whole
\* connection pool, leave no trace.
Drop ==
    \E failed \in SUBSET {r \in Requests : status[r] = "pending"} :
        /\ status' = [r \in Requests |-> IF r \in failed THEN "dropped" ELSE status[r]]
        /\ UNCHANGED <<entries, revision, ask, reply>>

Next ==
    \/ \E r \in Requests : Call(r) \/ Read(r) \/ Write(r) \/ Mismatch(r) \/ Refuse(r)
    \/ Drop

Spec == Init /\ [][Next]_vars
=============================================================================
