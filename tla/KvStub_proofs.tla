---------------------------- MODULE KvStub_proofs ----------------------------
(***************************************************************************)
(* The KV stub loses no update and implements an atomic store, for every   *)
(* set of requests, keys, values and expected revisions.                   *)
(*                                                                         *)
(* The history log is the pivot: its length is the revision counter, every *)
(* key holds its last write (so a compare-and-set that succeeds saw the    *)
(* last write), and a request without an answer is in no write yet.        *)
(***************************************************************************)
EXTENDS KvStub, TLAPS

UnansweredAreUnwritten ==
    \A r \in Requests :
        /\ stage[r] \in {"idle", "sent", "reading"} => reply[r] = NoReply
        /\ stage[r] = "answered" => reply[r] # NoReply
        /\ stage[r] = "reading" => ask[r].op = "PUT"

IInv ==
    /\ TypeOK
    /\ revisionCounter = Len(log)
    /\ EntriesAreLastWrites
    /\ CasSucceedsOnLastWrite
    /\ AnswersAreTrue
    /\ UnansweredAreUnwritten

USE KvAssumption, ReplyAssumption DEF Stages, NewRevision
-----------------------------------------------------------------------------
\* What a PUT that matches does, as facts about the history.
LEMMA PutWrites ==
    ASSUME IInv, NEW r \in Requests, Put(r), Matches(r)
    PROVE  LET k == ask[r].key  n == Len(log) + 1 IN
           /\ ask[r] \in [op : {"PUT"}, key : Keys, value : Values, prev : Prevs \cup {Unconditional}]
           /\ log' \in Seq(Writes) /\ Len(log') = n /\ DOMAIN log = 1..Len(log) /\ DOMAIN log' = 1..n
           /\ \A i \in DOMAIN log : log'[i] = log[i]
           /\ log'[n] = [req |-> r, key |-> k, value |-> ask[r].value, prev |-> ask[r].prev]
           /\ entries'[k] = [value |-> ask[r].value, rev |-> n]
           /\ \A q \in Keys \ {k} : entries'[q] = entries[q]
           /\ reply' = [reply EXCEPT ![r] = [result |-> "ok", value |-> NoValue, rev |-> n]]
           /\ stage' = [stage EXCEPT ![r] = "answered"]
           /\ revisionCounter' = n
<1>1. ask[r] \in [op : {"PUT"}, key : Keys, value : Values, prev : Prevs \cup {Unconditional}]
  BY DEF IInv, TypeOK, UnansweredAreUnwritten, Put, Asks
<1>2. log' = Append(log, [req |-> r, key |-> ask[r].key, value |-> ask[r].value, prev |-> ask[r].prev])
  BY DEF Put
<1>3. [req |-> r, key |-> ask[r].key, value |-> ask[r].value, prev |-> ask[r].prev] \in Writes
  BY <1>1 DEF Writes
<1> QED
  BY <1>1, <1>2, <1>3 DEF IInv, TypeOK, Put, Answer, Move

\* Appending a write changes nothing about the writes before it.
LEMMA PastIsFixed ==
    ASSUME log \in Seq(Writes), log' \in Seq(Writes), Len(log') = Len(log) + 1,
           \A i \in DOMAIN log : log'[i] = log[i],
           NEW k \in Keys, NEW n \in 1..(Len(log) + 1)
    PROVE  WritesOf(k, n)' = WritesOf(k, n)
BY DEF WritesOf

\* An answer to a request that was made is well formed.
LEMMA AnswerType ==
    ASSUME TypeOK, NEW r \in Requests, stage[r] # "idle", UNCHANGED ask,
           NEW result \in {"found", "absent", "ok", "cas_mismatch", "error"},
           NEW value \in Values \cup {NoValue}, NEW rev \in Nat,
           Answer(r, result, value, rev)
    PROVE  /\ stage' \in [Requests -> Stages]
           /\ reply' \in [Requests -> Replies \cup {NoReply}]
           /\ \A q \in Requests : stage'[q] # "idle" => ask'[q] \in Asks
<1>1. [result |-> result, value |-> value, rev |-> rev] \in Replies
  BY DEF Replies
<1>2. reply' \in [Requests -> Replies \cup {NoReply}]
  BY <1>1 DEF TypeOK, Answer
<1> QED
  BY <1>2 DEF TypeOK, Answer, Move

\* Every step keeps every variable in its type.
LEMMA TypeStep == IInv /\ [Next]_vars => TypeOK'
<1> SUFFICES ASSUME IInv, [Next]_vars PROVE TypeOK'
  OBVIOUS
<1>0. TypeOK
  BY DEF IInv
<1>1. ASSUME NEW r \in Requests, Get(r) PROVE TypeOK'
  <2>1. ask[r].key \in Keys
    BY <1>0, <1>1 DEF TypeOK, Get, Asks
  <2>2. Current(r).value \in Values \cup {NoValue} /\ Current(r).rev \in Nat
    BY <1>0, <2>1 DEF TypeOK, Current, Entries
  <2>3. PICK result \in {"found", "absent"} : Answer(r, result, Current(r).value, Current(r).rev)
    BY <1>1 DEF Get
  <2>4. stage[r] # "idle" /\ UNCHANGED <<entries, revisionCounter, server, unhandled, ask, log>>
    BY <1>1 DEF Get
  <2>5. /\ stage' \in [Requests -> Stages]
        /\ reply' \in [Requests -> Replies \cup {NoReply}]
        /\ \A q \in Requests : stage'[q] # "idle" => ask'[q] \in Asks
    <3> DEFINE value == Current(r).value  rev == Current(r).rev
    <3> HIDE DEF value, rev
    <3>1. Answer(r, result, value, rev) /\ value \in Values \cup {NoValue} /\ rev \in Nat
      BY <2>2, <2>3 DEF value, rev
    <3> QED
      BY <1>0, <2>4, <3>1, AnswerType
  <2> QED
    BY <1>0, <2>4, <2>5 DEF TypeOK
<1>2. ASSUME NEW r \in Requests, Put(r) PROVE TypeOK'
  <2>0. /\ ask[r].key \in Keys /\ ask[r].value \in Values /\ stage[r] # "idle"
        /\ UNCHANGED <<ask, server, unhandled>>
    BY <1>2 DEF IInv, TypeOK, UnansweredAreUnwritten, Put, Asks
  <2>1. CASE Matches(r)
    <3>1. log' \in Seq(Writes)
      BY <1>2, <2>1, PutWrites
    <3>2. revisionCounter' \in Nat
      BY <1>0, <1>2, <2>1 DEF TypeOK, Put
    <3>3. entries' = [entries EXCEPT ![ask[r].key] = [value |-> ask[r].value, rev |-> revisionCounter + 1]]
      BY <1>2, <2>1 DEF Put
    <3>4. [value |-> ask[r].value, rev |-> revisionCounter + 1] \in Entries
      BY <1>0, <2>0 DEF TypeOK, Entries
    <3>5. entries' \in [Keys -> Entries]
      BY <1>0, <3>3, <3>4 DEF TypeOK
    <3>6. Answer(r, "ok", NoValue, revisionCounter + 1) /\ revisionCounter + 1 \in Nat
      BY <1>0, <1>2, <2>1 DEF TypeOK, Put
    <3> QED
      BY <1>0, <2>0, <3>1, <3>2, <3>5, <3>6, AnswerType DEF TypeOK
  <2>2. CASE ~Matches(r)
    <3>1. /\ Answer(r, "cas_mismatch", NoValue, Current(r).rev)
          /\ UNCHANGED <<entries, revisionCounter, log>>
      BY <1>2, <2>2 DEF Put
    <3>2. Current(r).rev \in Nat
      BY <1>0, <2>0 DEF TypeOK, Current, Entries
    <3> QED
      BY <1>0, <2>0, <3>1, <3>2, AnswerType DEF TypeOK
  <2> QED
    BY <2>1, <2>2
<1>3. ASSUME NEW r \in Requests, Refuse(r) PROVE TypeOK'
  <2>1. /\ Answer(r, "error", NoValue, 0) /\ stage[r] # "idle"
        /\ UNCHANGED <<entries, revisionCounter, server, unhandled, ask, log>>
    BY <1>3 DEF Refuse
  <2> QED
    BY <1>0, <2>1, AnswerType DEF TypeOK
<1>4. ASSUME NEW r \in Requests, AwaitBody(r) \/ Lose(r) \/ Deliver(r) \/ BodyFails(r)
      PROVE  TypeOK'
  BY <1>0, <1>4 DEF TypeOK, AwaitBody, Lose, Deliver, BodyFails, Move
<1>5. ASSUME NEW r \in Requests, NEW a \in Asks, Send(r, a) PROVE TypeOK'
  BY <1>0, <1>5 DEF TypeOK, Send, Move
<1>6. CASE Stop \/ Crash
  BY <1>0, <1>6 DEF TypeOK, Stop, Crash
<1>7. CASE UNCHANGED vars
  BY <1>0, <1>7 DEF TypeOK, vars
<1> QED
  BY <1>1, <1>2, <1>3, <1>4, <1>5, <1>6, <1>7 DEF Next, HandlerStep, NetworkStep

-----------------------------------------------------------------------------
\* The write a PUT makes is the last of its key and had the last one as its
\* base, and all other entries keep their last write.
LEMMA PutKeepsHistory ==
    ASSUME IInv, NEW r \in Requests, Put(r), Matches(r)
    PROVE  EntriesAreLastWrites' /\ CasSucceedsOnLastWrite' /\ AnswersAreTrue'
<1>p. ask[r] \in [op : {"PUT"}, key : Keys, value : Values, prev : Prevs \cup {Unconditional}]
  BY PutWrites
<1>q. log \in Seq(Writes) /\ Len(log) + 1 \in Nat
  BY DEF IInv, TypeOK
<1> PICK k \in Keys : k = ask[r].key
  BY <1>p
<1> PICK n \in Nat : n = Len(log) + 1
  BY <1>q
<1>a. /\ log' \in Seq(Writes) /\ Len(log') = n
      /\ DOMAIN log = 1..Len(log) /\ DOMAIN log' = 1..n
      /\ \A i \in DOMAIN log : log'[i] = log[i]
  BY PutWrites
<1>b. log'[n] = [req |-> r, key |-> k, value |-> ask[r].value, prev |-> ask[r].prev]
  BY PutWrites
<1>c. /\ entries'[k] = [value |-> ask[r].value, rev |-> n]
      /\ \A q \in Keys \ {k} : entries'[q] = entries[q]
  BY PutWrites
<1>d. reply' = [reply EXCEPT ![r] = [result |-> "ok", value |-> NoValue, rev |-> n]]
  BY PutWrites
<1>1. \A i \in DOMAIN log : log[i].key \in Keys /\ log[i].prev \in Nat \cup {Unconditional}
  <2> SUFFICES ASSUME NEW i \in DOMAIN log
               PROVE  log[i].key \in Keys /\ log[i].prev \in Nat \cup {Unconditional}
    OBVIOUS
  <2>1. log[i] \in Writes
    BY <1>a, <1>q
  <2> QED
    BY <2>1 DEF Writes
<1>3. EntriesAreLastWrites'
  <2> SUFFICES ASSUME NEW q \in Keys
               PROVE  /\ IsLastWrite(entries[q].rev, q, Len(log) + 1)'
                      /\ entries'[q].rev # 0 => entries'[q].value = log'[entries'[q].rev].value
    BY DEF EntriesAreLastWrites
  <2>1. CASE q = k
    <3>1. entries'[q].rev = n /\ entries'[q].value = log'[n].value
      BY <1>b, <1>c, <2>1
    <3>2. n \in WritesOf(q, Len(log) + 1)'
      BY <1>a, <1>q, <1>b, <2>1 DEF WritesOf
    <3>3. \A j \in WritesOf(q, Len(log) + 1)' : j <= n
      BY <1>a, <1>q DEF WritesOf
    <3> QED
      BY <3>1, <3>2, <3>3 DEF IsLastWrite
  <2>2. CASE q # k
    <3>1. entries'[q] = entries[q]
      BY <1>c, <2>2
    <3>2. IsLastWrite(entries[q].rev, q, n)
          /\ (entries[q].rev # 0 => entries[q].value = log[entries[q].rev].value)
      BY DEF IInv, EntriesAreLastWrites
    <3>3. WritesOf(q, Len(log) + 1)' = WritesOf(q, n)
      BY <1>a, <1>q, <1>b, <2>2 DEF WritesOf
    <3>4. entries[q].rev # 0 => entries[q].rev \in DOMAIN log
      BY <3>2 DEF IsLastWrite, WritesOf
    <3>5. IsLastWrite(entries[q].rev, q, Len(log) + 1)'
      BY <3>1, <3>2, <3>3 DEF IsLastWrite
    <3> QED
      BY <1>a, <1>q, <3>1, <3>2, <3>4, <3>5
  <2> QED
    BY <2>1, <2>2
<1>4. CasSucceedsOnLastWrite'
  <2> SUFFICES ASSUME NEW m \in DOMAIN log', log'[m].prev # Unconditional
               PROVE  IsLastWrite(log[m].prev, log[m].key, m)'
    BY DEF CasSucceedsOnLastWrite
  <2>1. CASE m = n
    <3>1. /\ log'[m].prev = entries[k].rev /\ log'[m].key = k
          /\ entries[k].rev \in Nat
      BY <1>a, <1>q, <1>b, <2>1 DEF Matches, Current, IInv, TypeOK, Entries
    <3>2. IsLastWrite(entries[k].rev, k, n)
      BY <1>a, <1>q DEF IInv, EntriesAreLastWrites
    <3>3. WritesOf(k, n)' = WritesOf(k, n)
      BY <1>a, <1>q, PastIsFixed
    <3>4. IsLastWrite(log[m].prev, log[m].key, m)' <=>
            \/ entries[k].rev = 0 /\ WritesOf(k, n)' = {}
            \/ entries[k].rev \in WritesOf(k, n)' /\ \A j \in WritesOf(k, n)' : j <= entries[k].rev
      BY <2>1, <3>1, <1>a, <1>q DEF IsLastWrite, WritesOf
    <3> QED
      BY <3>2, <3>3, <3>4 DEF IsLastWrite
  <2>2. CASE m # n
    <3>1. m \in DOMAIN log /\ log'[m] = log[m]
      BY <1>a, <1>q, <2>2
    <3>2. IsLastWrite(log[m].prev, log[m].key, m)
      BY <3>1 DEF IInv, CasSucceedsOnLastWrite
    <3>3. WritesOf(log[m].key, m)' = WritesOf(log[m].key, m)
      BY <1>1, <1>a, <1>q, <3>1, PastIsFixed
    <3> QED
      BY <3>1, <3>2, <3>3 DEF IsLastWrite
  <2> QED
    BY <2>1, <2>2
<1>5. AnswersAreTrue'
  <2> SUFFICES ASSUME NEW q \in Requests
               PROVE  /\ reply'[q] # NoReply /\ reply'[q].result = "ok" =>
                            reply'[q].rev \in DOMAIN log' /\ log'[reply'[q].rev].req = q
                      /\ \A m \in DOMAIN log' : log'[m].req = q =>
                            reply'[q] # NoReply /\ reply'[q].result = "ok" /\ reply'[q].rev = m
    BY DEF AnswersAreTrue
  <2>1. CASE q = r
    <3>1. reply[r] = NoReply
      BY DEF IInv, UnansweredAreUnwritten, Put
    <3>2. \A m \in DOMAIN log : log[m].req # r
      BY <3>1 DEF IInv, AnswersAreTrue
    <3>3. reply'[r] = [result |-> "ok", value |-> NoValue, rev |-> n]
      BY <1>d DEF IInv, TypeOK
    <3>4. reply'[r] # NoReply
      BY <3>3, <1>a, <1>q DEF Replies
    <3> QED
      BY <1>a, <1>q, <1>b, <2>1, <3>2, <3>3, <3>4
  <2>2. CASE q # r
    <3>1. reply'[q] = reply[q]
      BY <1>d, <2>2 DEF IInv, TypeOK
    <3>2. \A m \in DOMAIN log' : log'[m].req = q => m \in DOMAIN log /\ log'[m] = log[m]
      BY <1>a, <1>q, <1>b, <2>2
    <3>3. /\ reply[q] # NoReply /\ reply[q].result = "ok" =>
                reply[q].rev \in DOMAIN log /\ log[reply[q].rev].req = q
          /\ \A m \in DOMAIN log : log[m].req = q =>
                reply[q] # NoReply /\ reply[q].result = "ok" /\ reply[q].rev = m
      BY DEF IInv, AnswersAreTrue
    <3> QED
      BY <1>a, <1>q, <3>1, <3>2, <3>3
  <2> QED
    BY <2>1, <2>2
<1> QED
  BY <1>3, <1>4, <1>5

\* An answer that is no accepted write, given to a request that has none yet.
LEMMA OtherAnswersKeepHistory ==
    ASSUME IInv, NEW r \in Requests, reply[r] = NoReply, UNCHANGED <<entries, log>>,
           NEW result \in {"found", "absent", "cas_mismatch", "error"}, NEW value, NEW rev,
           Answer(r, result, value, rev)
    PROVE  EntriesAreLastWrites' /\ CasSucceedsOnLastWrite' /\ AnswersAreTrue'
<1>1. EntriesAreLastWrites' /\ CasSucceedsOnLastWrite'
  BY DEF IInv, EntriesAreLastWrites, CasSucceedsOnLastWrite, IsLastWrite, WritesOf
<1>2. \A m \in DOMAIN log : log[m].req # r
  BY DEF IInv, AnswersAreTrue
<1>3. AnswersAreTrue'
  BY <1>2 DEF IInv, AnswersAreTrue, TypeOK, Answer
<1> QED
  BY <1>1, <1>3

\* Every step keeps the inductive invariant.
LEMMA StepIInv == IInv /\ [Next]_vars => IInv'
<1> SUFFICES ASSUME IInv, [Next]_vars
             PROVE  /\ revisionCounter' = Len(log)' /\ UnansweredAreUnwritten'
                    /\ EntriesAreLastWrites' /\ CasSucceedsOnLastWrite' /\ AnswersAreTrue'
  BY TypeStep DEF IInv
<1>0. TypeOK /\ TypeOK' /\ revisionCounter = Len(log)
  BY TypeStep DEF IInv
<1>1. ASSUME NEW r \in Requests, Get(r) \/ Refuse(r) \/ (Put(r) /\ ~Matches(r))
      PROVE  /\ revisionCounter' = Len(log)' /\ UnansweredAreUnwritten'
             /\ EntriesAreLastWrites' /\ CasSucceedsOnLastWrite' /\ AnswersAreTrue'
  <2>1. PICK result \in {"found", "absent", "cas_mismatch", "error"},
             value \in Values \cup {NoValue}, rev \in Nat : Answer(r, result, value, rev)
    <3>1. Get(r) => ask[r].key \in Keys
      BY <1>0 DEF Get, TypeOK, Asks
    <3>2. Put(r) => ask[r].key \in Keys
      BY <1>0 DEF Put, TypeOK, Asks, IInv, UnansweredAreUnwritten
    <3>3. Get(r) \/ Put(r) => Current(r).value \in Values \cup {NoValue} /\ Current(r).rev \in Nat
      BY <1>0, <3>1, <3>2 DEF TypeOK, Current, Entries
    <3> QED
      BY <1>1, <3>3 DEF Get, Refuse, Put
  <2>2. /\ UNCHANGED <<entries, log, revisionCounter, ask>>
        /\ stage[r] \in {"sent", "reading"}
    BY <1>1 DEF Get, Refuse, Put
  <2>3. reply[r] = NoReply
    BY <2>2 DEF IInv, UnansweredAreUnwritten
  <2>4. EntriesAreLastWrites' /\ CasSucceedsOnLastWrite' /\ AnswersAreTrue'
    BY <2>1, <2>2, <2>3, OtherAnswersKeepHistory
  <2>5. reply'[r] # NoReply
    BY <1>0, <2>1 DEF TypeOK, Answer, Replies
  <2>6. UnansweredAreUnwritten'
    BY <1>0, <2>1, <2>2, <2>5 DEF IInv, UnansweredAreUnwritten, TypeOK, Answer, Move
  <2> QED
    BY <1>0, <2>2, <2>4, <2>6
<1>2. ASSUME NEW r \in Requests, Put(r), Matches(r)
      PROVE  /\ revisionCounter' = Len(log)' /\ UnansweredAreUnwritten'
             /\ EntriesAreLastWrites' /\ CasSucceedsOnLastWrite' /\ AnswersAreTrue'
  <2>1. revisionCounter' = Len(log)'
    BY <1>2, PutWrites
  <2>2. UNCHANGED ask /\ Answer(r, "ok", NoValue, revisionCounter + 1)
    BY <1>2 DEF Put
  <2>3. reply'[r] # NoReply
    BY <1>0, <2>2 DEF TypeOK, Answer, Replies
  <2>4. UnansweredAreUnwritten'
    BY <1>0, <2>2, <2>3 DEF IInv, UnansweredAreUnwritten, TypeOK, Answer, Move
  <2> QED
    BY <1>2, <2>1, <2>4, PutKeepsHistory
<1>3. ASSUME UNCHANGED <<entries, revisionCounter, reply, log>>
      PROVE  /\ revisionCounter' = Len(log)'
             /\ EntriesAreLastWrites' /\ CasSucceedsOnLastWrite' /\ AnswersAreTrue'
  BY <1>0, <1>3 DEF IInv, EntriesAreLastWrites, CasSucceedsOnLastWrite, AnswersAreTrue, IsLastWrite, WritesOf
<1>4. ASSUME NEW r \in Requests,
             AwaitBody(r) \/ Lose(r) \/ Deliver(r) \/ BodyFails(r) \/ \E a \in Asks : Send(r, a)
      PROVE  UNCHANGED <<entries, revisionCounter, reply, log>> /\ UnansweredAreUnwritten'
  BY <1>0, <1>4 DEF AwaitBody, Lose, Deliver, BodyFails, Send, Move, IInv, UnansweredAreUnwritten, TypeOK
<1>5. ASSUME Stop \/ Crash \/ UNCHANGED vars
      PROVE  UNCHANGED <<entries, revisionCounter, reply, log>> /\ UnansweredAreUnwritten'
  BY <1>0, <1>5 DEF Stop, Crash, vars, IInv, UnansweredAreUnwritten, TypeOK
<1> QED
  BY <1>1, <1>2, <1>3, <1>4, <1>5 DEF Next, HandlerStep, NetworkStep

-----------------------------------------------------------------------------
\* The invariant holds of the empty store.
LEMMA InitIInv == Init => IInv
<1> SUFFICES ASSUME Init PROVE IInv
  OBVIOUS
<1>1. DOMAIN log = {} /\ Len(log) = 0 /\ log \in Seq(Writes)
  BY DEF Init
<1>2. \A k \in Keys : WritesOf(k, Len(log) + 1) = {}
  BY <1>1 DEF WritesOf
<1>3. \A k \in Keys : entries[k] = [value |-> NoValue, rev |-> 0] /\ entries[k].rev = 0
  BY DEF Init
<1>4. TypeOK
  BY <1>1, <1>3 DEF Init, TypeOK, Entries
<1>5. EntriesAreLastWrites
  <2> SUFFICES ASSUME NEW k \in Keys
               PROVE  /\ IsLastWrite(entries[k].rev, k, Len(log) + 1)
                      /\ entries[k].rev # 0 => entries[k].value = log[entries[k].rev].value
    BY DEF EntriesAreLastWrites
  <2>1. entries[k].rev = 0 /\ WritesOf(k, Len(log) + 1) = {}
    BY <1>2, <1>3
  <2> QED
    BY <2>1 DEF IsLastWrite
<1>6. CasSucceedsOnLastWrite /\ AnswersAreTrue /\ UnansweredAreUnwritten
  BY <1>1 DEF Init, CasSucceedsOnLastWrite, AnswersAreTrue, UnansweredAreUnwritten
<1> QED
  BY <1>1, <1>4, <1>5, <1>6 DEF Init, IInv

\* The invariant holds in every reachable state.
THEOREM Invariance == Spec => []IInv
<1>1. IInv /\ [Next]_vars => IInv'
  BY StepIInv
<1> QED
  BY <1>1, InitIInv, PTL DEF Spec

\* The store, the requests and the answers stay well formed.
THEOREM TypeCorrect == Spec => []TypeOK
<1>1. IInv => TypeOK
  BY DEF IInv
<1> QED
  BY <1>1, Invariance, PTL

\* No compare-and-set that succeeded overwrites an update it did not see.
THEOREM NoLostUpdate == Spec => []CasSucceedsOnLastWrite
<1>1. IInv => CasSucceedsOnLastWrite
  BY DEF IInv
<1> QED
  BY <1>1, Invariance, PTL

\* The Map always holds the last write of each key.
THEOREM StoreIsCurrent == Spec => []EntriesAreLastWrites
<1>1. IInv => EntriesAreLastWrites
  BY DEF IInv
<1> QED
  BY <1>1, Invariance, PTL

\* No answer claims a write that was not made, or hides one that was.
THEOREM AnswersAreCorrect == Spec => []AnswersAreTrue
<1>1. IInv => AnswersAreTrue
  BY DEF IInv
<1> QED
  BY <1>1, Invariance, PTL

-----------------------------------------------------------------------------
(* Refinement.                                                              *)

\* The status a request has in the atomic store.
StatusOf(r) ==
    CASE stage[r] = "idle" -> "idle"
      [] reply[r] # NoReply -> "answered"
      [] stage[r] \in {"sent", "reading"} -> "pending"
      [] OTHER -> "dropped"
Status == [r \in Requests |-> StatusOf(r)]

\* Which stages stand for which status.
LEMMA StatusFacts ==
    ASSUME IInv, NEW r \in Requests
    PROVE  /\ stage[r] = "idle" => Status[r] = "idle"
           /\ stage[r] \in {"sent", "reading"} => Status[r] = "pending"
           /\ stage[r] # "idle" /\ reply[r] # NoReply => Status[r] = "answered"
           /\ stage[r] = "lost" /\ reply[r] = NoReply => Status[r] = "dropped"
BY DEF IInv, TypeOK, UnansweredAreUnwritten, Status, StatusOf

\* The empty stub is the empty atomic store.
LEMMA InitImplements == Init => Atomic!Init
BY DEF Init, Atomic!Init

\* Every step of the stub is a step of the atomic store, or none: the answer
\* is fixed in the tick that has the effect.
LEMMA StepImplements == IInv /\ IInv' /\ [Next]_vars => [Atomic!Next]_(Atomic!vars)
<1> SUFFICES ASSUME IInv, IInv', [Next]_vars
             PROVE  Atomic!Next \/ UNCHANGED <<entries, revisionCounter, Status, ask, reply>>
  BY DEF Atomic!vars, Status, StatusOf
<1>0. TypeOK /\ TypeOK'
  BY DEF IInv
<1>1. ASSUME NEW r \in Requests, stage[r] \in {"sent", "reading"},
             stage' = [stage EXCEPT ![r] = "answered"],
             \A q \in Requests \ {r} : reply'[q] = reply[q]
      PROVE  Status[r] = "pending" /\ Status' = [Status EXCEPT ![r] = "answered"]
  <2>1. \A q \in Requests \ {r} : StatusOf(q)' = StatusOf(q)
    BY <1>1, <1>0 DEF StatusOf, TypeOK
  <2>2. stage'[r] = "answered" /\ reply'[r] # NoReply
    BY <1>1, <1>0 DEF IInv, UnansweredAreUnwritten, TypeOK
  <2>3. StatusOf(r)' = "answered"
    BY <2>2 DEF StatusOf
  <2>4. Status' = [Status EXCEPT ![r] = "answered"]
    BY <2>1, <2>3 DEF Status
  <2> QED
    BY <1>1, <2>4, StatusFacts
<1>2. ASSUME NEW r \in Requests, Get(r) PROVE Atomic!Read(r)
  <2>1. Status[r] = "pending" /\ Status' = [Status EXCEPT ![r] = "answered"]
    BY <1>1, <1>2, <1>0 DEF Get, Answer, Move, TypeOK
  <2> QED
    BY <1>2, <2>1 DEF Get, Answer, Current, Atomic!Read, Atomic!Take, Atomic!Pending, Status, StatusOf
<1>3. ASSUME NEW r \in Requests, Refuse(r) PROVE Atomic!Refuse(r)
  <2>1. Status[r] = "pending" /\ Status' = [Status EXCEPT ![r] = "answered"]
    BY <1>1, <1>3, <1>0 DEF Refuse, Answer, Move, TypeOK
  <2> QED
    BY <1>3, <2>1 DEF Refuse, Answer, Atomic!Refuse, Atomic!Take, Atomic!Pending, Status, StatusOf
<1>4. ASSUME NEW r \in Requests, Put(r) PROVE Atomic!Write(r) \/ Atomic!Mismatch(r)
  <2>1. ask[r].op = "PUT"
    BY <1>4 DEF Put, IInv, UnansweredAreUnwritten
  <2>2. Status[r] = "pending" /\ Status' = [Status EXCEPT ![r] = "answered"]
    BY <1>1, <1>4, <1>0 DEF Put, Answer, Move, TypeOK
  <2>3. CASE Matches(r)
    BY <1>4, <2>1, <2>2, <2>3 DEF Put, Answer, Matches, Current, Atomic!Write, Atomic!Take,
       Atomic!Agrees, Atomic!Pending, Status, StatusOf
  <2>4. CASE ~Matches(r)
    BY <1>4, <2>1, <2>2, <2>4 DEF Put, Answer, Matches, Current, Atomic!Mismatch, Atomic!Take,
       Atomic!Agrees, Atomic!Pending, Status, StatusOf
  <2> QED
    BY <2>3, <2>4
<1>5. ASSUME NEW r \in Requests, NEW a \in Asks, Send(r, a) PROVE Atomic!Call(r)
  <2>1. Status[r] = "idle" /\ reply[r] = NoReply /\ UNCHANGED reply
    BY <1>5, StatusFacts DEF Send, IInv, UnansweredAreUnwritten
  <2>2. stage' = [stage EXCEPT ![r] = "sent"]
    BY <1>5 DEF Send, Move
  <2>3. StatusOf(r)' = "pending"
    BY <1>0, <2>1, <2>2 DEF StatusOf, TypeOK
  <2>4. \A q \in Requests \ {r} : StatusOf(q)' = StatusOf(q)
    BY <1>0, <2>1, <2>2 DEF StatusOf, TypeOK
  <2>5. Status' = [Status EXCEPT ![r] = "pending"]
    BY <2>3, <2>4 DEF Status
  <2> QED
    BY <1>5, <2>1, <2>5 DEF Send, Atomic!Call, Asks, Status, StatusOf
<1> DEFINE Fades(q) ==
      \/ stage'[q] = stage[q]
      \/ stage[q] = "sent" /\ stage'[q] = "reading"
      \/ stage[q] = "answered" /\ stage'[q] \in {"lost", "delivered"}
      \/ stage[q] \in {"sent", "reading"} /\ stage'[q] = "lost"
<1>6. ASSUME UNCHANGED <<entries, revisionCounter, ask, reply>>, \A q \in Requests : Fades(q)
      PROVE  Atomic!Drop
  <2> DEFINE failed == {r \in Requests : stage[r] \in {"sent", "reading"} /\ stage'[r] = "lost"}
  <2>1. failed \in SUBSET {r \in Requests : Status[r] = "pending"}
    BY StatusFacts
  <2>2. \A r \in Requests : StatusOf(r)' = IF r \in failed THEN "dropped" ELSE Status[r]
    BY <1>6, <1>0 DEF Status, StatusOf, IInv, UnansweredAreUnwritten, TypeOK
  <2>3. Status' = [r \in Requests |-> IF r \in failed THEN "dropped" ELSE Status[r]]
    BY <2>2 DEF Status
  <2> QED
    BY <1>6, <2>1, <2>3 DEF Atomic!Drop, Status, StatusOf
<1>7. ASSUME NEW r \in Requests, AwaitBody(r) \/ Lose(r) \/ Deliver(r) \/ BodyFails(r)
      PROVE  Atomic!Drop
  <2>1. UNCHANGED <<entries, revisionCounter, ask, reply>>
    BY <1>7 DEF AwaitBody, Lose, Deliver, BodyFails
  <2>2. \A q \in Requests : Fades(q)
    BY <1>7, <1>0 DEF AwaitBody, Lose, Deliver, BodyFails, Move, TypeOK
  <2> QED
    BY <1>6, <2>1, <2>2
<1>8. ASSUME Stop \/ Crash PROVE Atomic!Drop
  <2>1. UNCHANGED <<entries, revisionCounter, ask, reply>>
    BY <1>8 DEF Stop, Crash
  <2>2. stage' = [r \in Requests |-> IF stage[r] = "reading" THEN "lost" ELSE stage[r]]
    BY <1>8 DEF Stop, Crash
  <2>3. \A q \in Requests : Fades(q)
    BY <2>2
  <2> QED
    BY <1>6, <2>1, <2>3
<1>9. CASE UNCHANGED vars
  BY <1>9 DEF vars, Status, StatusOf
<1> QED
  BY <1>2, <1>3, <1>4, <1>5, <1>7, <1>8, <1>9 DEF Next, HandlerStep, NetworkStep, Atomic!Next

\* The stub is an atomic compare-and-set store, for all requests and keys.
THEOREM Refinement == Spec => ImplementsAtomicKv
<1>1. IInv /\ IInv' /\ [Next]_vars => [Atomic!Next]_(Atomic!vars)
  BY StepImplements
<1> QED
  BY <1>1, InitImplements, Invariance, PTL DEF Spec, ImplementsAtomicKv, Atomic!Spec
=============================================================================
