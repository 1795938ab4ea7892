------------------------------- MODULE KvStub -------------------------------
(***************************************************************************)
(* The stub key-value store (startStubFiduciaKv() in src/stubs.mjs), which *)
(* runs inside the test process and serves the real service under test.    *)
(*                                                                         *)
(* Every request is a task of its own.  A PUT waits for its body, and in   *)
(* that await any other request is served; what follows the await, the     *)
(* comparison of prev_revision and the write, runs in one tick.  Requests  *)
(* and answers are delayed and lost, a body may be cut off or be no JSON,  *)
(* and the test may call stop() at any time.                               *)
(***************************************************************************)
EXTENDS Integers, Sequences

CONSTANTS
    Keys, Values,
    Requests,        \* the requests ever made
    Prevs,           \* the numbers callers send as prev_revision
    NoValue,         \* what an absent key holds
    Unconditional,   \* prev_revision null or missing
    NoAsk, NoReply

ASSUME KvAssumption ==
    /\ NoValue \notin Values
    /\ Prevs \subseteq Nat
    /\ Unconditional \notin Nat

VARIABLES
    entries,         \* the Map: value and mod_revision, 0 for an absent key
    revisionCounter,
    server,          \* serving, stopped by stop(), or crashed with the process
    unhandled,       \* a handler's promise was rejected with nobody to catch it
    stage,           \* where each request is
    ask,             \* method, key and body of each request
    reply,           \* what the stub answered
    log              \* history: every write, at the index of its revision

vars == <<entries, revisionCounter, server, unhandled, stage, ask, reply, log>>

\* A prev_revision may be any number, also one that was never issued.
Asks ==
    [op : {"GET"}, key : Keys]
    \cup [op : {"PUT"}, key : Keys, value : Values, prev : Prevs \cup {Unconditional}]
    \cup [op : {"other"}]
Replies == [result : {"found", "absent", "ok", "cas_mismatch", "error"},
            value  : Values \cup {NoValue},
            rev    : Nat]
ASSUME ReplyAssumption == NoReply \notin Replies

Stages  == {"idle", "sent", "reading", "answered", "delivered", "lost"}
Entries == [value : Values \cup {NoValue}, rev : Nat]
Writes  == [req : Requests, key : Keys, value : Values, prev : Prevs \cup {Unconditional}]

TypeOK ==
    /\ entries \in [Keys -> Entries]
    /\ revisionCounter \in Nat
    /\ server \in {"serving", "stopped", "crashed"}
    /\ unhandled \in BOOLEAN
    /\ stage \in [Requests -> Stages]
    /\ ask \in [Requests -> Asks \cup {NoAsk}]
    /\ \A r \in Requests : stage[r] # "idle" => ask[r] \in Asks
    /\ reply \in [Requests -> Replies \cup {NoReply}]
    /\ log \in Seq(Writes)

Init ==
    /\ entries = [k \in Keys |-> [value |-> NoValue, rev |-> 0]]
    /\ revisionCounter = 0
    /\ server = "serving"
    /\ unhandled = FALSE
    /\ stage = [r \in Requests |-> "idle"]
    /\ ask = [r \in Requests |-> NoAsk]
    /\ reply = [r \in Requests |-> NoReply]
    /\ log = <<>>

Move(r, to) == stage' = [stage EXCEPT ![r] = to]

-----------------------------------------------------------------------------
(* The network and the service under test.                                  *)

Send(r, a) ==
    /\ stage[r] = "idle"
    /\ Move(r, "sent")
    /\ ask' = [ask EXCEPT ![r] = a]
    /\ UNCHANGED <<entries, revisionCounter, server, unhandled, reply, log>>

\* The request, or its answer, is lost: the caller cannot tell which.
Lose(r) ==
    /\ stage[r] \in {"sent", "answered"}
    /\ Move(r, "lost")
    /\ UNCHANGED <<entries, revisionCounter, server, unhandled, ask, reply, log>>

Deliver(r) ==
    /\ stage[r] = "answered"
    /\ Move(r, "delivered")
    /\ UNCHANGED <<entries, revisionCounter, server, unhandled, ask, reply, log>>

-----------------------------------------------------------------------------
(* The request handler.                                                     *)

Answer(r, result, value, rev) ==
    /\ Move(r, "answered")
    /\ reply' = [reply EXCEPT ![r] = [result |-> result, value |-> value, rev |-> rev]]

Current(r) == entries[ask[r].key]

\* (mutants) a miss is answered like a hit, or without its default revision.
GetFindsAll(r) ==
    /\ server = "serving"
    /\ stage[r] = "sent" /\ ask[r].op = "GET"
    /\ Answer(r, "found", Current(r).value, Current(r).rev)
    /\ UNCHANGED <<entries, revisionCounter, server, unhandled, ask, log>>
GetWithoutDefault(r) ==
    /\ server = "serving"
    /\ stage[r] = "sent" /\ ask[r].op = "GET"
    /\ Answer(r, "found", Current(r).value, IF Current(r).rev = 0 THEN NoValue ELSE Current(r).rev)
    /\ UNCHANGED <<entries, revisionCounter, server, unhandled, ask, log>>

Get(r) ==
    /\ server = "serving"
    /\ stage[r] = "sent" /\ ask[r].op = "GET"
    /\ Answer(r, IF Current(r).rev = 0 THEN "absent" ELSE "found",
              Current(r).value, Current(r).rev)
    /\ UNCHANGED <<entries, revisionCounter, server, unhandled, ask, log>>

\* An unknown path or no key, and the method that no branch takes: an error.
Refuse(r) ==
    /\ server = "serving"
    /\ stage[r] = "sent" /\ ask[r].op = "other"
    /\ Answer(r, "error", NoValue, 0)
    /\ UNCHANGED <<entries, revisionCounter, server, unhandled, ask, log>>

\* The handler of a PUT runs up to the await of readBody().
AwaitBody(r) ==
    /\ server = "serving"
    /\ stage[r] = "sent" /\ ask[r].op = "PUT"
    /\ Move(r, "reading")
    /\ UNCHANGED <<entries, revisionCounter, server, unhandled, ask, reply, log>>

\* (mutants) prev_revision is tested for truth, so 0 counts as no condition;
\* the number is compared with a string.
MatchesTruthy(r) == ask[r].prev \in {Unconditional, 0, Current(r).rev}
MatchesStrictly(r) == ask[r].prev = Unconditional

Matches(r) == ask[r].prev \in {Unconditional, Current(r).rev}

\* (mutant) every key counts its own revisions.
RevisionOfKey(r) == Current(r).rev + 1

\* One counter for all keys.
NewRevision(r) == revisionCounter + 1

\* The body is there: compare and set in one tick.
Put(r) ==
    /\ server = "serving"
    /\ stage[r] = "reading"
    /\ \/ /\ ~Matches(r)
          /\ Answer(r, "cas_mismatch", NoValue, Current(r).rev)
          /\ UNCHANGED <<entries, revisionCounter, log>>
       \/ /\ Matches(r)
          /\ revisionCounter' = NewRevision(r)
          /\ entries' = [entries EXCEPT ![ask[r].key] =
                            [value |-> ask[r].value, rev |-> NewRevision(r)]]
          /\ log' = Append(log, [req |-> r, key |-> ask[r].key,
                                 value |-> ask[r].value, prev |-> ask[r].prev])
          /\ Answer(r, "ok", NoValue, NewRevision(r))
    /\ UNCHANGED <<server, unhandled, ask>>

\* The upload is cut off (readBody rejects) or JSON.parse throws.  Nothing in
\* the handler catches it.
BodyFails(r) ==
    /\ server = "serving"
    /\ stage[r] = "reading"
    /\ Move(r, "lost")
    /\ unhandled' = TRUE
    /\ UNCHANGED <<entries, revisionCounter, server, ask, reply, log>>

\* stopper(): every connection is closed, under a body that is being read too.
Stop ==
    /\ server = "serving"
    /\ server' = "stopped"
    /\ unhandled' = (unhandled \/ \E r \in Requests : stage[r] = "reading")
    /\ stage' = [r \in Requests |-> IF stage[r] = "reading" THEN "lost" ELSE stage[r]]
    /\ UNCHANGED <<entries, revisionCounter, ask, reply, log>>

\* What Node does about an unhandled rejection: the test process ends.
Crash ==
    /\ unhandled
    /\ server # "crashed"
    /\ server' = "crashed"
    /\ stage' = [r \in Requests |-> IF stage[r] = "reading" THEN "lost" ELSE stage[r]]
    /\ UNCHANGED <<entries, revisionCounter, unhandled, ask, reply, log>>

HandlerStep(r) == Get(r) \/ Refuse(r) \/ AwaitBody(r) \/ Put(r)
NetworkStep(r) == Lose(r) \/ Deliver(r)

Next ==
    \/ \E r \in Requests : HandlerStep(r) \/ NetworkStep(r) \/ BodyFails(r)
    \/ \E r \in Requests, a \in Asks : Send(r, a)
    \/ Stop \/ Crash

Spec == Init /\ [][Next]_vars

-----------------------------------------------------------------------------
(* Properties.                                                              *)

\* The revisions at which a key was written, before the n-th write.
WritesOf(k, n) == {i \in DOMAIN log : i < n /\ log[i].key = k}

IsLastWrite(i, k, n) ==
    \/ i = 0 /\ WritesOf(k, n) = {}
    \/ i \in WritesOf(k, n) /\ \A j \in WritesOf(k, n) : j <= i

\* A compare-and-set that succeeded saw the write right before it: between its
\* base and its own revision nobody wrote the key.  No update is lost, however
\* long a body takes to arrive, and a repeated request is applied only once.
CasSucceedsOnLastWrite ==
    \A n \in DOMAIN log :
        log[n].prev # Unconditional => IsLastWrite(log[n].prev, log[n].key, n)

\* A key holds the value and the revision of its last write, over all keys.
EntriesAreLastWrites ==
    \A k \in Keys :
        /\ IsLastWrite(entries[k].rev, k, Len(log) + 1)
        /\ entries[k].rev # 0 => entries[k].value = log[entries[k].rev].value

\* An answer tells the truth: an accepted request is the write its revision
\* names, a refused one wrote nothing, and no request wrote twice.
AnswersAreTrue ==
    \A r \in Requests :
        /\ reply[r] # NoReply /\ reply[r].result = "ok" =>
              reply[r].rev \in DOMAIN log /\ log[reply[r].rev].req = r
        /\ \A n \in DOMAIN log : log[n].req = r =>
              reply[r] # NoReply /\ reply[r].result = "ok" /\ reply[r].rev = n

\* The stub implements an atomic store.
Atomic == INSTANCE AtomicKv WITH
    revision <- revisionCounter,
    status   <- [r \in Requests |->
                   CASE stage[r] = "idle" -> "idle"
                     [] reply[r] # NoReply -> "answered"
                     [] stage[r] \in {"sent", "reading"} -> "pending"
                     [] OTHER -> "dropped"]
ImplementsAtomicKv == Atomic!Spec
=============================================================================
