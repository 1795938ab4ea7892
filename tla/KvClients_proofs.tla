--------------------------- MODULE KvClients_proofs ---------------------------
(***************************************************************************)
(* What the clients of the stub store may rely on, for any number of       *)
(* clients, calls, time-outs and late requests.                            *)
(*                                                                         *)
(* The clients make calls that KvStub's callers may make, so all that is   *)
(* proved of it holds here.  Every value that a client read, and every     *)
(* prev_revision on its way, names a write in the history; a PUT that      *)
(* succeeds names the last one and adds to it.  So each write of the       *)
(* history is contained in all later ones.                                 *)
(***************************************************************************)
EXTENDS KvClients, KvStub_proofs

\* What was read: nothing yet, or a write of the history.
IsBase(value, rev) ==
    \/ rev = 0 /\ value = {}
    \/ rev \in DOMAIN log /\ log[rev].value = value

SeenInv == \A c \in Clients : IsBase(seen[c].value, seen[c].rev)

\* A request concerns the record; a PUT adds its caller to what it is based on.
AskInv ==
    \A r \in Requests : stage[r] # "idle" =>
        /\ ask[r].op \in {"GET", "PUT"}
        /\ ask[r].key = Record
        /\ ask[r].op = "PUT" =>
              /\ r[1] \in ask[r].value
              /\ \E base \in Values : IsBase(base, ask[r].prev) /\ base \subseteq ask[r].value

\* An answered GET tells a base.
ReplyInv ==
    \A r \in Requests : stage[r] # "idle" /\ ask[r].op = "GET" /\ reply[r] # NoReply =>
        IsBase(IF reply[r].result = "found" THEN reply[r].value ELSE {}, reply[r].rev)

\* A client that waits has made the call it waits for.
WaitInv ==
    \A c \in Clients :
        /\ step[c] = "reading" => /\ tries[c] \in 1..MaxTries
                                  /\ stage[Latest(c)] # "idle" /\ ask[Latest(c)].op = "GET"
        /\ step[c] = "writing" => tries[c] \in 1..MaxTries

\* No write was lost: each is contained in what the record holds now.
GrowsInv ==
    \A i \in DOMAIN log :
        /\ log[i].key = Record
        /\ log[i].req[1] \in log[i].value
        /\ log[i].value \subseteq entries[Record].value

DoneInv == \A c \in Clients : step[c] = "done" => \E i \in DOMAIN log : log[i].req[1] = c

CInv ==
    /\ IInv /\ ClientTypeOK
    /\ SeenInv /\ AskInv /\ ReplyInv /\ WaitInv /\ GrowsInv /\ DoneInv

USE ClientAssumption, KvAssumption
-----------------------------------------------------------------------------
(* Every step of the clients is one that callers of the stub may take.      *)

LEMMA RequestNames ==
    ASSUME NEW c \in Clients, NEW n \in 1..MaxTries
    PROVE  <<c, n>> \in Requests /\ <<c, n>>[1] = c
OBVIOUS

LEMMA ReadCalls ==
    ASSUME ClientTypeOK, NEW c \in Clients, Read(c)
    PROVE  /\ Next1(c) \in Requests /\ Next1(c)[1] = c
           /\ [op |-> "GET", key |-> Record] \in Asks
           /\ Send(Next1(c), [op |-> "GET", key |-> Record])
<1>1. tries[c] + 1 \in 1..MaxTries
  BY DEF Read, Issue, ClientTypeOK
<1>2. [op |-> "GET", key |-> Record] \in Asks
  BY DEF Asks
<1> QED
  BY <1>1, <1>2, RequestNames DEF Read, Issue, Next1

PutAsk(c) == [op |-> "PUT", key |-> Record, value |-> seen[c].value \cup {c}, prev |-> seen[c].rev]

LEMMA WriteCalls ==
    ASSUME ClientTypeOK, NEW c \in Clients, Write(c)
    PROVE  /\ Next1(c) \in Requests /\ Next1(c)[1] = c
           /\ PutAsk(c) \in Asks
           /\ Send(Next1(c), PutAsk(c))
<1>1. tries[c] + 1 \in 1..MaxTries
  BY DEF Write, Issue, ClientTypeOK
<1>2. seen[c].value \cup {c} \in Values /\ seen[c].rev \in Prevs
  BY DEF Write, ClientTypeOK
<1>3. PutAsk(c) \in [op : {"PUT"}, key : Keys, value : Values, prev : Prevs \cup {Unconditional}]
  BY <1>2 DEF PutAsk
<1>4. PutAsk(c) \in Asks
  BY <1>3 DEF Asks
<1> QED
  BY <1>1, <1>4, RequestNames DEF Write, Issue, Next1, PutAsk

LEMMA DoneDelivers ==
    ASSUME ClientTypeOK, WaitInv, NEW c \in Clients, ReadDone(c) \/ WriteDone(c)
    PROVE  Latest(c) \in Requests /\ Latest(c)[1] = c /\ Deliver(Latest(c))
<1>1. tries[c] \in 1..MaxTries
  BY DEF ReadDone, WriteDone, Transition, WaitInv
<1> QED
  BY <1>1, RequestNames DEF ReadDone, WriteDone, Latest

LEMMA ClientsCall ==
    ASSUME ClientTypeOK, WaitInv, [ClientNext]_<<vars, clientVars>>
    PROVE  [Next]_vars
<1>1. ASSUME NEW c \in Clients, Read(c) PROVE Next
  BY <1>1, ReadCalls DEF Next
<1>2. ASSUME NEW c \in Clients, Write(c) PROVE Next
  BY <1>2, WriteCalls DEF Next
<1>3. ASSUME NEW c \in Clients, ReadDone(c) \/ WriteDone(c) PROVE Next
  BY <1>3, DoneDelivers DEF Next, NetworkStep
<1>4. ASSUME NEW c \in Clients, Repeat(c) \/ GiveUp(c) PROVE UNCHANGED vars
  BY <1>4 DEF Repeat, GiveUp
<1>5. CASE StubStep
  BY <1>5 DEF StubStep, Next
<1> QED
  BY <1>1, <1>2, <1>3, <1>4, <1>5 DEF ClientNext, ClientStep

-----------------------------------------------------------------------------
(* What a step of the stub leaves as it was.                                *)

\* The history only grows.
LEMMA LogGrows ==
    ASSUME IInv, [Next]_vars
    PROVE  \A i \in DOMAIN log : i \in DOMAIN log' /\ log'[i] = log[i]
<1>1. ASSUME NEW r \in Requests, Put(r), Matches(r)
      PROVE  \A i \in DOMAIN log : i \in DOMAIN log' /\ log'[i] = log[i]
  <2>1. log \in Seq(Writes)
    BY DEF IInv, TypeOK
  <2>2. /\ DOMAIN log = 1..Len(log) /\ DOMAIN log' = 1..(Len(log) + 1)
        /\ \A i \in DOMAIN log : log'[i] = log[i]
    BY <1>1, PutWrites
  <2> QED
    BY <2>1, <2>2
<1>2. CASE UNCHANGED log
  BY <1>2
<1>3. ASSUME NEW r \in Requests, Put(r), ~Matches(r) PROVE UNCHANGED log
  BY <1>3 DEF Put
<1> QED
  BY <1>1, <1>2, <1>3 DEF Next, HandlerStep, NetworkStep, Get, Refuse, AwaitBody, Lose, Deliver,
     BodyFails, Send, Stop, Crash, vars

LEMMA BaseStays ==
    ASSUME IInv, [Next]_vars, NEW value, NEW rev, IsBase(value, rev)
    PROVE  IsBase(value, rev)'
BY LogGrows DEF IsBase

\* A request that was made is never made again.
LEMMA AskStays ==
    ASSUME IInv, [Next]_vars, NEW r \in Requests, stage[r] # "idle"
    PROVE  stage'[r] # "idle" /\ ask'[r] = ask[r]
<1>1. stage \in [Requests -> Stages] /\ ask \in [Requests -> Asks \cup {NoAsk}]
  BY DEF IInv, TypeOK
<1>2. ASSUME NEW q \in Requests, HandlerStep(q) \/ NetworkStep(q) \/ BodyFails(q)
      PROVE  stage'[r] # "idle" /\ ask'[r] = ask[r]
  BY <1>1, <1>2 DEF HandlerStep, NetworkStep, Get, Refuse, AwaitBody, Put, Lose, Deliver, BodyFails,
     Answer, Move
<1>3. ASSUME NEW q \in Requests, NEW a \in Asks, Send(q, a)
      PROVE  stage'[r] # "idle" /\ ask'[r] = ask[r]
  BY <1>1, <1>3 DEF Send, Move
<1>4. CASE Stop \/ Crash \/ UNCHANGED vars
  BY <1>1, <1>4 DEF Stop, Crash, vars
<1> QED
  BY <1>2, <1>3, <1>4 DEF Next

\* Only Get answers a GET.
LEMMA GetAnswers ==
    ASSUME IInv, [Next]_vars, NEW r \in Requests, stage[r] # "idle", ask[r].op = "GET"
    PROVE  reply'[r] = reply[r] \/ Get(r)
<1>0. reply \in [Requests -> Replies \cup {NoReply}]
  BY DEF IInv, TypeOK
<1>1. ASSUME NEW q \in Requests, q # r, HandlerStep(q) PROVE reply'[r] = reply[r]
  BY <1>0, <1>1 DEF HandlerStep, Get, Refuse, AwaitBody, Put, Answer
<1>2. ASSUME HandlerStep(r) PROVE Get(r)
  BY <1>2 DEF HandlerStep, Refuse, AwaitBody, Put, IInv, UnansweredAreUnwritten
<1> QED
  BY <1>1, <1>2 DEF Next, NetworkStep, Lose, Deliver, BodyFails, Send, Stop, Crash, vars

\* A request has no answer while it is idle, and gets none when it is sent.
LEMMA SendHasNoReply ==
    ASSUME IInv, [Next]_vars, NEW r \in Requests, stage[r] = "idle", stage'[r] # "idle"
    PROVE  reply'[r] = NoReply
<1>1. reply[r] = NoReply
  BY DEF IInv, UnansweredAreUnwritten
<1>2. stage \in [Requests -> Stages]
  BY DEF IInv, TypeOK
<1>3. ASSUME NEW q \in Requests, HandlerStep(q) \/ NetworkStep(q) \/ BodyFails(q) PROVE FALSE
  BY <1>2, <1>3 DEF HandlerStep, NetworkStep, Get, Refuse, AwaitBody, Put, Lose, Deliver, BodyFails,
     Answer, Move
<1>4. ~Stop /\ ~Crash /\ ~UNCHANGED vars
  BY DEF Stop, Crash, vars
<1>5. UNCHANGED reply
  BY <1>3, <1>4 DEF Next, Send
<1> QED
  BY <1>1, <1>5

-----------------------------------------------------------------------------
(* The invariant.                                                           *)

LEMMA WriteTypes == ASSUME IInv PROVE \A i \in DOMAIN log : log[i] \in Writes /\ log[i].value \in Values
<1>1. log \in Seq(Writes)
  BY DEF IInv, TypeOK
<1>2. \A w \in Writes : w.value \in Values
  BY DEF Writes
<1> QED
  BY <1>1, <1>2

LEMMA ClientType ==
    ASSUME CInv, [ClientNext]_<<vars, clientVars>>
    PROVE  ClientTypeOK'
<1>0. ClientTypeOK
  BY DEF CInv
<1>1. ASSUME NEW c \in Clients, Read(c) \/ Write(c) PROVE ClientTypeOK'
  BY <1>0, <1>1 DEF ClientTypeOK, Read, Write, Issue, Transition
<1>2. ASSUME NEW c \in Clients, ReadDone(c) PROVE ClientTypeOK'
  <2> DEFINE a == reply[Latest(c)]
             v == IF a.result = "found" THEN a.value ELSE {}
  <2>1. /\ Latest(c) \in Requests /\ stage[Latest(c)] = "answered"
        /\ stage[Latest(c)] # "idle" /\ ask[Latest(c)].op = "GET"
    BY <1>2, DoneDelivers DEF CInv, WaitInv, ReadDone, Transition, Deliver
  <2>2. reply[Latest(c)] # NoReply
    BY <2>1 DEF CInv, IInv, UnansweredAreUnwritten
  <2>3. IsBase(v, a.rev)
    BY <2>1, <2>2 DEF CInv, ReplyInv
  <2>4. a.rev \in Nat
    BY <2>1, <2>2 DEF CInv, IInv, TypeOK, Replies
  <2>5. v \in Values
    BY <2>3, WriteTypes DEF CInv, IsBase
  <2>6. seen' = [seen EXCEPT ![c] = [value |-> v, rev |-> a.rev]]
    BY <1>2 DEF ReadDone
  <2> HIDE DEF a, v
  <2>7. seen' \in [Clients -> [value : Values, rev : Nat]]
    BY <1>0, <2>4, <2>5, <2>6 DEF ClientTypeOK
  <2> QED
    BY <1>0, <1>2, <2>7 DEF ClientTypeOK, ReadDone, Transition
<1>3. ASSUME NEW c \in Clients, WriteDone(c) \/ Repeat(c) PROVE ClientTypeOK'
  BY <1>0, <1>3 DEF ClientTypeOK, WriteDone, Repeat, Transition
<1>4. ASSUME NEW c \in Clients, GiveUp(c) PROVE ClientTypeOK'
  BY <1>0, <1>4 DEF ClientTypeOK, GiveUp, Transition
<1>5. CASE StubStep \/ UNCHANGED <<vars, clientVars>>
  BY <1>0, <1>5 DEF ClientTypeOK, StubStep, clientVars
<1> QED
  BY <1>1, <1>2, <1>3, <1>4, <1>5 DEF ClientNext, ClientStep

LEMMA StepSeen ==
    ASSUME CInv, [ClientNext]_<<vars, clientVars>>, [Next]_vars
    PROVE  SeenInv'
<1>1. \A c \in Clients : IsBase(seen[c].value, seen[c].rev)'
                         \/ seen'[c] # seen[c]
  BY BaseStays DEF CInv, SeenInv
<1>2. ASSUME NEW c \in Clients, ReadDone(c) PROVE SeenInv'
  <2> DEFINE a == reply[Latest(c)]
             v == IF a.result = "found" THEN a.value ELSE {}
  <2>1. /\ Latest(c) \in Requests /\ stage[Latest(c)] = "answered"
        /\ stage[Latest(c)] # "idle" /\ ask[Latest(c)].op = "GET"
    BY <1>2, DoneDelivers DEF CInv, WaitInv, ReadDone, Transition, Deliver
  <2>2. reply[Latest(c)] # NoReply
    BY <2>1 DEF CInv, IInv, UnansweredAreUnwritten
  <2>3. IsBase(v, a.rev)
    BY <2>1, <2>2 DEF CInv, ReplyInv
  <2>4. seen' = [seen EXCEPT ![c] = [value |-> v, rev |-> a.rev]] /\ UNCHANGED log
    BY <1>2 DEF ReadDone, Deliver
  <2> HIDE DEF a, v
  <2>5. seen'[c].value = v /\ seen'[c].rev = a.rev /\ \A d \in Clients \ {c} : seen'[d] = seen[d]
    BY <2>4 DEF CInv, ClientTypeOK
  <2> QED
    BY <1>1, <2>3, <2>4, <2>5 DEF SeenInv, IsBase
<1>3. CASE UNCHANGED seen
  BY <1>1, <1>3 DEF SeenInv
<1> QED
  BY <1>2, <1>3 DEF ClientNext, ClientStep, Read, Write, WriteDone, Repeat, GiveUp, StubStep,
     clientVars

\* A request is new only if a client reads or writes.
LEMMA NewRequests ==
    ASSUME CInv, [ClientNext]_<<vars, clientVars>>, NEW r \in Requests,
           stage[r] = "idle", stage'[r] # "idle"
    PROVE  \/ ask'[r] = [op |-> "GET", key |-> Record]
           \/ ask'[r] = PutAsk(r[1]) /\ r[1] \in Clients
<1>0. stage \in [Requests -> Stages] /\ ask \in [Requests -> Asks \cup {NoAsk}]
  BY DEF CInv, IInv, TypeOK
<1>1. ASSUME NEW c \in Clients, Read(c) PROVE ask'[r] = [op |-> "GET", key |-> Record]
  <2>1. Send(Next1(c), [op |-> "GET", key |-> Record]) /\ Next1(c) \in Requests
    BY <1>1, ReadCalls DEF CInv
  <2> QED
    BY <1>0, <2>1 DEF Send, Move
<1>2. ASSUME NEW c \in Clients, Write(c) PROVE ask'[r] = PutAsk(r[1]) /\ r[1] \in Clients
  <2>1. Send(Next1(c), PutAsk(c)) /\ Next1(c) \in Requests /\ Next1(c)[1] = c
    BY <1>2, WriteCalls DEF CInv
  <2>2. r = Next1(c) /\ ask'[r] = PutAsk(c)
    BY <1>0, <2>1 DEF Send, Move
  <2> QED
    BY <2>1, <2>2
<1>3. ASSUME NEW c \in Clients, ReadDone(c) \/ WriteDone(c) PROVE FALSE
  <2>1. Latest(c) \in Requests /\ Deliver(Latest(c))
    BY <1>3, DoneDelivers DEF CInv
  <2> QED
    BY <1>0, <2>1 DEF Deliver, Move
<1>4. ASSUME NEW c \in Clients, Repeat(c) \/ GiveUp(c) PROVE FALSE
  BY <1>4 DEF Repeat, GiveUp, vars
<1>5. ASSUME NEW q \in Requests, HandlerStep(q) \/ NetworkStep(q) PROVE FALSE
  BY <1>0, <1>5 DEF HandlerStep, NetworkStep, Get, Refuse, AwaitBody, Put, Lose, Deliver, Answer, Move
<1>6. ~Stop /\ ~UNCHANGED vars
  BY DEF Stop, vars
<1> QED
  BY <1>1, <1>2, <1>3, <1>4, <1>5, <1>6 DEF ClientNext, ClientStep, StubStep

LEMMA StepAsk ==
    ASSUME CInv, [ClientNext]_<<vars, clientVars>>, [Next]_vars
    PROVE  AskInv'
<1> SUFFICES ASSUME NEW r \in Requests, stage'[r] # "idle"
             PROVE  /\ ask'[r].op \in {"GET", "PUT"}
                    /\ ask'[r].key = Record
                    /\ ask'[r].op = "PUT" =>
                          /\ r[1] \in ask'[r].value
                          /\ \E base \in Values :
                                IsBase(base, ask[r].prev)' /\ base \subseteq ask'[r].value
  BY DEF AskInv
<1>1. CASE stage[r] # "idle"
  <2>1. ask'[r] = ask[r]
    BY <1>1, AskStays DEF CInv
  <2>2. /\ ask[r].op \in {"GET", "PUT"}
        /\ ask[r].key = Record
        /\ ask[r].op = "PUT" =>
              /\ r[1] \in ask[r].value
              /\ \E base \in Values : IsBase(base, ask[r].prev) /\ base \subseteq ask[r].value
    BY <1>1 DEF CInv, AskInv
  <2>3. \A base \in Values : IsBase(base, ask[r].prev) => IsBase(base, ask[r].prev)'
    BY <2>1, LogGrows DEF IsBase, CInv
  <2> QED
    BY <2>1, <2>2, <2>3
<1>2. CASE stage[r] = "idle"
  <2>1. CASE ask'[r] = [op |-> "GET", key |-> Record]
    BY <2>1
  <2>2. CASE ask'[r] = PutAsk(r[1]) /\ r[1] \in Clients
    <3>1. /\ ask'[r].op = "PUT" /\ ask'[r].key = Record /\ ask'[r].prev = seen[r[1]].rev
          /\ ask'[r].value = seen[r[1]].value \cup {r[1]}
      BY <2>2 DEF PutAsk
    <3>2. IsBase(seen[r[1]].value, seen[r[1]].rev) /\ seen[r[1]].value \in Values
      BY <2>2 DEF CInv, SeenInv, ClientTypeOK
    <3> PICK base \in Values : base = seen[r[1]].value
      BY <3>2
    <3> PICK rev : rev = seen[r[1]].rev
      OBVIOUS
    <3>3. IsBase(base, rev)'
      BY <3>2, BaseStays DEF CInv
    <3>4. IsBase(base, ask[r].prev)'
      BY <3>1, <3>3 DEF IsBase
    <3> QED
      BY <3>1, <3>4
  <2> QED
    BY <1>2, <2>1, <2>2, NewRequests
<1> QED
  BY <1>1, <1>2

\* The record's entry is a base.
LEMMA CurrentIsBase ==
    ASSUME CInv, entries[Record].rev # 0
    PROVE  IsBase(entries[Record].value, entries[Record].rev)
<1>1. IsLastWrite(entries[Record].rev, Record, Len(log) + 1)
      /\ entries[Record].value = log[entries[Record].rev].value
  BY DEF CInv, IInv, EntriesAreLastWrites
<1>2. entries[Record].rev \in DOMAIN log
  BY <1>1 DEF IsLastWrite, WritesOf
<1> QED
  BY <1>1, <1>2 DEF IsBase

LEMMA StepReply ==
    ASSUME CInv, [ClientNext]_<<vars, clientVars>>, [Next]_vars
    PROVE  ReplyInv'
<1> SUFFICES ASSUME NEW r \in Requests, stage'[r] # "idle", ask'[r].op = "GET",
                    reply'[r] # NoReply
             PROVE  IsBase(IF reply[r].result = "found" THEN reply[r].value ELSE {}, reply[r].rev)'
  BY DEF ReplyInv
<1>1. stage[r] # "idle"
  BY SendHasNoReply DEF CInv
<1>2. ask'[r] = ask[r]
  BY <1>1, AskStays DEF CInv
<1>3. CASE reply'[r] = reply[r]
  <2> PICK value : value = IF reply[r].result = "found" THEN reply[r].value ELSE {}
    OBVIOUS
  <2> PICK rev : rev = reply[r].rev
    OBVIOUS
  <2>1. IsBase(value, rev)
    BY <1>1, <1>2, <1>3 DEF CInv, ReplyInv
  <2>2. IsBase(value, rev)'
    BY <2>1, BaseStays DEF CInv
  <2> QED
    BY <1>3, <2>2 DEF IsBase
<1>4. CASE Get(r)
  <2>1. ask[r].key = Record
    BY <1>1 DEF CInv, AskInv
  <2>2. /\ reply' = [reply EXCEPT ![r] =
               [result |-> IF entries[Record].rev = 0 THEN "absent" ELSE "found",
                value |-> entries[Record].value, rev |-> entries[Record].rev]]
        /\ UNCHANGED log
    BY <1>4, <2>1 DEF Get, Answer, Current
  <2>3. reply'[r] = [result |-> IF entries[Record].rev = 0 THEN "absent" ELSE "found",
                     value |-> entries[Record].value, rev |-> entries[Record].rev]
    BY <2>2 DEF CInv, IInv, TypeOK
  <2>4. CASE entries[Record].rev = 0
    BY <2>3, <2>4 DEF IsBase
  <2>5. CASE entries[Record].rev # 0
    BY <2>2, <2>3, <2>5, CurrentIsBase DEF IsBase
  <2> QED
    BY <2>4, <2>5
<1> QED
  BY <1>1, <1>2, <1>3, <1>4, GetAnswers DEF CInv

LEMMA StepWait ==
    ASSUME CInv, [ClientNext]_<<vars, clientVars>>, [Next]_vars
    PROVE  WaitInv'
<1>0. ClientTypeOK /\ WaitInv
  BY DEF CInv
<1>1. ASSUME NEW d \in Clients, step'[d] = step[d], tries'[d] = tries[d]
      PROVE  /\ step'[d] = "reading" => /\ tries'[d] \in 1..MaxTries
                                        /\ stage'[Latest(d)'] # "idle"
                                        /\ ask'[Latest(d)'].op = "GET"
             /\ step'[d] = "writing" => tries'[d] \in 1..MaxTries
  <2>1. CASE step[d] = "reading"
    <3>1. tries[d] \in 1..MaxTries /\ stage[Latest(d)] # "idle" /\ ask[Latest(d)].op = "GET"
      BY <1>0, <2>1 DEF WaitInv
    <3>2. Latest(d) \in Requests /\ Latest(d)' = Latest(d)
      BY <1>1, <3>1, RequestNames DEF Latest
    <3>3. stage'[Latest(d)] # "idle" /\ ask'[Latest(d)] = ask[Latest(d)]
      BY <3>1, <3>2, AskStays DEF CInv
    <3> QED
      BY <1>1, <2>1, <3>1, <3>2, <3>3
  <2>2. CASE step[d] # "reading"
    BY <1>0, <1>1, <2>2 DEF WaitInv
  <2> QED
    BY <2>1, <2>2
<1>2. ASSUME NEW c \in Clients, Read(c) PROVE WaitInv'
  <2>1. Send(Next1(c), [op |-> "GET", key |-> Record]) /\ Next1(c) \in Requests
    BY <1>0, <1>2, ReadCalls
  <2>2. /\ step'[c] = "reading" /\ tries'[c] = tries[c] + 1 /\ tries[c] + 1 \in 1..MaxTries
        /\ \A d \in Clients \ {c} : step'[d] = step[d] /\ tries'[d] = tries[d]
    BY <1>0, <1>2 DEF ClientTypeOK, Read, Issue, Transition
  <2>3. Latest(c)' = Next1(c)
    BY <2>2 DEF Latest, Next1
  <2>4. stage'[Next1(c)] # "idle" /\ ask'[Next1(c)].op = "GET"
    BY <2>1 DEF Send, Move, CInv, IInv, TypeOK
  <2> QED
    BY <1>1, <2>2, <2>3, <2>4 DEF WaitInv
<1>3. ASSUME NEW c \in Clients, Write(c) PROVE WaitInv'
  <2>1. /\ step'[c] = "writing" /\ tries'[c] \in 1..MaxTries
        /\ \A d \in Clients \ {c} : step'[d] = step[d] /\ tries'[d] = tries[d]
    BY <1>0, <1>3 DEF ClientTypeOK, Write, Issue, Transition
  <2> QED
    BY <1>1, <2>1 DEF WaitInv
<1>4. ASSUME NEW c \in Clients, ReadDone(c) \/ WriteDone(c) \/ Repeat(c) \/ GiveUp(c)
      PROVE  WaitInv'
  <2>1. /\ step'[c] \in {"read", "write", "done"}
        /\ \A d \in Clients \ {c} : step'[d] = step[d] /\ tries'[d] = tries[d]
    BY <1>0, <1>4 DEF ClientTypeOK, ReadDone, WriteDone, Repeat, GiveUp, Transition
  <2> QED
    BY <1>1, <2>1 DEF WaitInv
<1>5. CASE StubStep \/ UNCHANGED <<vars, clientVars>>
  BY <1>1, <1>5 DEF WaitInv, StubStep, clientVars
<1> QED
  BY <1>2, <1>3, <1>4, <1>5 DEF ClientNext, ClientStep

\* The one write that a step may make contains what the record held.
LEMMA PutAdds ==
    ASSUME CInv, NEW r \in Requests, Put(r), Matches(r)
    PROVE  /\ log'[Len(log) + 1].key = Record
           /\ log'[Len(log) + 1].req = r
           /\ r[1] \in log'[Len(log) + 1].value
           /\ entries'[Record].value = log'[Len(log) + 1].value
           /\ entries[Record].rev # 0 => entries[Record].value \subseteq entries'[Record].value
<1>1. stage[r] # "idle" /\ ask[r].op = "PUT"
  BY DEF Put, CInv, IInv, UnansweredAreUnwritten
<1>2. /\ ask[r].key = Record /\ r[1] \in ask[r].value
      /\ \E base \in Values : IsBase(base, ask[r].prev) /\ base \subseteq ask[r].value
  BY <1>1 DEF CInv, AskInv
<1>3. /\ log'[Len(log) + 1] =
            [req |-> r, key |-> Record, value |-> ask[r].value, prev |-> ask[r].prev]
      /\ entries'[Record] = [value |-> ask[r].value, rev |-> Len(log) + 1]
  BY <1>2, PutWrites DEF CInv
<1>4. PICK base \in Values : IsBase(base, ask[r].prev) /\ base \subseteq ask[r].value
  BY <1>2
<1>5. ask[r].prev = entries[Record].rev
  <2>1. ask[r].prev # Unconditional
    <3>1. log \in Seq(Writes)
      BY DEF CInv, IInv, TypeOK
    <3>2. DOMAIN log \subseteq Nat
      BY <3>1
    <3> QED
      BY <1>4, <3>2 DEF IsBase
  <2> QED
    BY <1>2, <2>1 DEF Matches, Current
<1>6. entries[Record].rev # 0 => entries[Record].value = base
  BY <1>4, <1>5, CurrentIsBase DEF IsBase
<1> QED
  BY <1>2, <1>3, <1>4, <1>6

\* Once it was written, the record has a revision.
LEMMA WrittenRecord == ASSUME CInv, NEW i \in DOMAIN log PROVE entries[Record].rev # 0
<1> SUFFICES ASSUME entries[Record].rev = 0 PROVE FALSE
  OBVIOUS
<1>1. IsLastWrite(0, Record, Len(log) + 1)
  BY DEF CInv, IInv, EntriesAreLastWrites
<1>2. log \in Seq(Writes)
  BY DEF CInv, IInv, TypeOK
<1>3. i \in Nat \ {0} /\ i < Len(log) + 1 /\ log[i].key = Record
  BY <1>2 DEF CInv, GrowsInv
<1>4. i \in WritesOf(Record, Len(log) + 1) /\ 0 \notin WritesOf(Record, Len(log) + 1)
  BY <1>2, <1>3 DEF WritesOf
<1> QED
  BY <1>1, <1>4 DEF IsLastWrite

\* The record's value only grows, and no write leaves it.
LEMMA RecordGrows ==
    ASSUME CInv, [Next]_vars
    PROVE  /\ entries[Record].rev # 0 => entries[Record].value \subseteq entries'[Record].value
           /\ \A i \in DOMAIN log : entries[Record].rev # 0
<1>1. \A i \in DOMAIN log : entries[Record].rev # 0
  BY WrittenRecord
<1>2. ASSUME NEW r \in Requests, Put(r), Matches(r), entries[Record].rev # 0
      PROVE  entries[Record].value \subseteq entries'[Record].value
  BY <1>2, PutAdds
<1>3. ASSUME NEW r \in Requests, Put(r), ~Matches(r) PROVE UNCHANGED entries
  BY <1>3 DEF Put
<1>4. \/ UNCHANGED entries
      \/ \E r \in Requests : Put(r) /\ Matches(r)
  BY <1>3 DEF Next, HandlerStep, NetworkStep, Get, Refuse, AwaitBody, Lose, Deliver, BodyFails,
     Send, Stop, Crash, vars
<1> QED
  BY <1>1, <1>2, <1>4

LEMMA StepGrows ==
    ASSUME CInv, [Next]_vars
    PROVE  GrowsInv'
<1>0. \A i \in DOMAIN log : /\ log[i].key = Record
                            /\ log[i].req[1] \in log[i].value
                            /\ log[i].value \subseteq entries'[Record].value
  BY RecordGrows DEF CInv, GrowsInv
<1>1. ASSUME NEW r \in Requests, Put(r), Matches(r) PROVE GrowsInv'
  <2>1. log \in Seq(Writes) /\ Len(log) \in Nat
    BY DEF CInv, IInv, TypeOK
  <2>2. /\ DOMAIN log = 1..Len(log) /\ DOMAIN log' = 1..(Len(log) + 1)
        /\ \A i \in DOMAIN log : log'[i] = log[i]
    BY <1>1, PutWrites DEF CInv
  <2>3. /\ log'[Len(log) + 1].key = Record
        /\ log'[Len(log) + 1].req[1] \in log'[Len(log) + 1].value
        /\ log'[Len(log) + 1].value \subseteq entries'[Record].value
    BY <1>1, PutAdds
  <2>4. \A i \in DOMAIN log' : i \in DOMAIN log \/ i = Len(log) + 1
    BY <2>1, <2>2
  <2> QED
    BY <1>0, <2>2, <2>3, <2>4 DEF GrowsInv
<1>2. CASE UNCHANGED log
  BY <1>0, <1>2 DEF GrowsInv
<1>3. ASSUME NEW r \in Requests, Put(r), ~Matches(r) PROVE UNCHANGED log
  BY <1>3 DEF Put
<1> QED
  BY <1>1, <1>2, <1>3 DEF Next, HandlerStep, NetworkStep, Get, Refuse, AwaitBody, Lose, Deliver,
     BodyFails, Send, Stop, Crash, vars

\* A client is done only when the answer to its last call was ok.
LEMMA StepDone ==
    ASSUME CInv, [ClientNext]_<<vars, clientVars>>, [Next]_vars
    PROVE  DoneInv'
<1> SUFFICES ASSUME NEW d \in Clients, step'[d] = "done"
             PROVE  \E i \in DOMAIN log' : log'[i].req[1] = d
  BY DEF DoneInv
<1>1. ASSUME NEW i \in DOMAIN log, log[i].req[1] = d
      PROVE  \E j \in DOMAIN log' : log'[j].req[1] = d
  BY <1>1, LogGrows DEF CInv
<1>2. CASE step[d] = "done"
  BY <1>1, <1>2 DEF CInv, DoneInv
<1>3. CASE WriteDone(d) /\ reply[Latest(d)].result = "ok"
  <2>1. Latest(d) \in Requests /\ Latest(d)[1] = d /\ Deliver(Latest(d))
    BY <1>3, DoneDelivers DEF CInv
  <2>2. reply[Latest(d)] # NoReply
    BY <2>1 DEF Deliver, CInv, IInv, UnansweredAreUnwritten
  <2>3. /\ reply[Latest(d)].rev \in DOMAIN log
        /\ log[reply[Latest(d)].rev].req = Latest(d)
    BY <1>3, <2>1, <2>2 DEF CInv, IInv, AnswersAreTrue
  <2> QED
    BY <1>1, <2>1, <2>3
<1>4. step \in [Clients -> {"read", "reading", "write", "writing", "done"}]
  BY DEF CInv, ClientTypeOK
<1>5. ASSUME step[d] # "done" PROVE WriteDone(d) /\ reply[Latest(d)].result = "ok"
  <2>1. ASSUME NEW c \in Clients, Read(c) \/ ReadDone(c) \/ Write(c) \/ Repeat(c) \/ GiveUp(c)
        PROVE  FALSE
    BY <1>4, <1>5, <2>1 DEF Read, ReadDone, Write, Repeat, GiveUp, Transition
  <2>2. ASSUME NEW c \in Clients, WriteDone(c)
        PROVE  c = d /\ reply[Latest(c)].result = "ok"
    BY <1>4, <1>5, <2>2 DEF WriteDone, Transition
  <2>3. ~StubStep /\ ~UNCHANGED <<vars, clientVars>>
    BY <1>5 DEF StubStep, clientVars
  <2> QED
    BY <2>1, <2>2, <2>3 DEF ClientNext, ClientStep
<1> QED
  BY <1>2, <1>3, <1>5

LEMMA StepCInv == CInv /\ [ClientNext]_<<vars, clientVars>> => CInv'
<1> SUFFICES ASSUME CInv, [ClientNext]_<<vars, clientVars>> PROVE CInv'
  OBVIOUS
<1>1. [Next]_vars
  BY ClientsCall DEF CInv
<1>2. IInv'
  BY <1>1, StepIInv DEF CInv
<1> QED
  BY <1>1, <1>2, ClientType, StepSeen, StepAsk, StepReply, StepWait, StepGrows, StepDone DEF CInv

LEMMA InitCInv == ClientInit => CInv
<1> SUFFICES ASSUME ClientInit PROVE CInv
  OBVIOUS
<1>1. IInv
  BY InitIInv DEF ClientInit
<1>2. \A c \in Clients : step[c] = "read" /\ tries[c] = 0 /\ seen[c].value = {} /\ seen[c].rev = 0
  BY DEF ClientInit
<1>3. ClientTypeOK
  <2>1. [value |-> {}, rev |-> 0] \in [value : Values, rev : Nat]
    OBVIOUS
  <2> QED
    BY <2>1 DEF ClientInit, ClientTypeOK
<1>4. SeenInv /\ WaitInv /\ DoneInv
  BY <1>2 DEF SeenInv, IsBase, WaitInv, DoneInv
<1>5. AskInv /\ ReplyInv
  BY DEF ClientInit, Init, AskInv, ReplyInv
<1>6. GrowsInv
  BY DEF ClientInit, Init, GrowsInv
<1> QED
  BY <1>1, <1>3, <1>4, <1>5, <1>6 DEF CInv

-----------------------------------------------------------------------------
(* The theorems.                                                            *)

\* The inductive invariant of clients and stub holds of every reachable state.
THEOREM ClientInvariance == ClientSpec => []CInv
BY InitCInv, StepCInv, PTL DEF ClientSpec

\* The clients' own state is well typed: what they read are records.
THEOREM ClientTypeCorrect == ClientSpec => []ClientTypeOK
<1>1. CInv => ClientTypeOK
  BY DEF CInv
<1> QED
  BY <1>1, ClientInvariance, PTL

\* The clients are callers of the stub store: all that KvStub promises every
\* caller, it promises them.
THEOREM ClientsAreCallers == ClientSpec => Spec
<1>1. CInv /\ [ClientNext]_<<vars, clientVars>> => [Next]_vars
  BY ClientsCall DEF CInv
<1>2. ClientInit => Init
  BY DEF ClientInit
<1> QED
  BY <1>1, <1>2, ClientInvariance, PTL DEF ClientSpec, Spec

\* An update that was acknowledged is in the record for ever, whatever was
\* retried, given up on, answered late or mismatched since.
THEOREM AcknowledgedSurvive == ClientSpec => []AcknowledgedUpdatesSurvive
<1>1. CInv => AcknowledgedUpdatesSurvive
  BY DEF CInv, DoneInv, GrowsInv, AcknowledgedUpdatesSurvive
<1> QED
  BY <1>1, ClientInvariance, PTL

\* No step takes an update out of the record, acknowledged or not.
THEOREM RecordNeverShrinks == ClientSpec => RecordOnlyGrows
<1>1. CInv /\ [ClientNext]_<<vars, clientVars>> =>
        [entries[Record].rev # 0 =>
            entries[Record].value \subseteq entries'[Record].value]_<<vars, clientVars>>
  BY ClientsCall, RecordGrows DEF CInv
<1> QED
  BY <1>1, ClientInvariance, PTL DEF ClientSpec, RecordOnlyGrows
=============================================================================
