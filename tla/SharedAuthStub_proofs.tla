------------------------ MODULE SharedAuthStub_proofs ------------------------
(***************************************************************************)
(* Exchanges, introspections and request counts of the Shared Auth fixture *)
(* for all identities, tokens, requests and lengths of time.               *)
(*                                                                         *)
(* A token that was signed never changes, so what was true of it at the    *)
(* moment of an answer is true of it for ever; and a request that reached  *)
(* a route keeps that route, so that it is counted once.                   *)
(***************************************************************************)
EXTENDS SharedAuthStub, FiniteSetTheorems, TLAPS

Minted   == [by : {"nobody", "exchange", "test"}, who : Identities \cup {None},
             own : BOOLEAN, exp : 0 .. MaxTime + Ttl]
Request  == [stage : Stages, route : Routes \cup {None}, answer : Answers,
             provider : ProviderTokens \cup {None}, token : AccessTokens \cup {None},
             began : 0 .. MaxTime, at : 0 .. MaxTime]
SignedOf == {t \in AccessTokens : minted[t] # Unsigned}

\* An answer that names a token names one that is signed.
TokenInv ==
    \A r \in Requests :
        /\ request[r].answer \in {"active", "issued"} => request[r].token # None
        /\ request[r].answer # "none" /\ request[r].token # None => request[r].token \in SignedOf

\* For each provider token the fixture serves the one identity that has it.
ServedInv ==
    /\ phase = "called" => DOMAIN byProviderToken = {}
    /\ \A n \in DOMAIN given : TokenOf[given[n]] \in DOMAIN byProviderToken =>
          byProviderToken[TokenOf[given[n]]] = given[n]

\* An exchange issued a token of the identity it serves for the provider token.
IssuedInv ==
    \A r \in Requests : request[r].answer = "issued" =>
        /\ request[r].provider \in DOMAIN byProviderToken
        /\ minted[request[r].token].who = byProviderToken[request[r].provider]

\* An issued token expires one lifetime after it was issued.
LifetimeInv ==
    \A r \in Requests : request[r].answer = "issued" =>
        /\ minted[request[r].token].own
        /\ minted[request[r].token].exp = request[r].at + Ttl

\* A request that has no route has not arrived, and one that waits for its body
\* has no answer.
StageInv ==
    \A r \in Requests :
        /\ request[r].stage = "unsent" <=> request[r].route = None
        /\ request[r].stage = "body" => request[r].route = "introspect"
        /\ request[r].stage \in {"unsent", "body"} =>
              request[r].answer = "none" /\ request[r].token = None

ReachedBy(route) == {r \in Requests : request[r].route = route}

\* Only finitely many requests have arrived, however many there may be.
CountInv ==
    \A route \in Routes :
        IsFiniteSet(ReachedBy(route)) /\ counts[route] = Cardinality(ReachedBy(route))

\* No two requests were issued one token.
UniqueInv ==
    \A r, s \in Requests :
        /\ request[r].answer = "issued" /\ request[s].answer = "issued"
        /\ request[r].token = request[s].token
        => r = s

IInv ==
    /\ TypeOK /\ StageInv /\ TokenInv /\ ServedInv /\ IssuedInv /\ LifetimeInv
    /\ UniqueInv /\ CountInv /\ ActiveMeansValidNow

USE SharedAuthAssumption DEF Routes, Stages, Answers
-----------------------------------------------------------------------------
LEMMA InitIInv == Init => IInv
<1> SUFFICES ASSUME Init PROVE IInv
  OBVIOUS
<1>1. \A r \in Requests : request[r] = Fresh
  BY DEF Init
<1>2. Fresh \in Request /\ Unsigned \in Minted
  BY DEF Fresh, Request, Unsigned, Minted
<1>3. TypeOK
  BY <1>2 DEF Init, TypeOK, Request, Minted
<1>4. StageInv /\ TokenInv /\ IssuedInv /\ LifetimeInv /\ UniqueInv /\ ActiveMeansValidNow
  BY <1>1 DEF Fresh, StageInv, TokenInv, IssuedInv, LifetimeInv, UniqueInv, ActiveMeansValidNow
<1>5. ServedInv
  BY DEF Init, ServedInv
<1>6. ASSUME NEW route \in Routes PROVE IsFiniteSet(ReachedBy(route)) /\ counts[route] = Cardinality(ReachedBy(route))
  <2>1. counts[route] = 0
    BY DEF Init
  <2>2. \A r \in Requests : request[r].route # route
    BY <1>1 DEF Fresh
  <2>3. ReachedBy(route) = {}
    BY <2>2 DEF ReachedBy
  <2> QED
    BY <2>1, <2>3, FS_EmptySet
<1>7. CountInv
  BY <1>6 DEF CountInv
<1> QED
  BY <1>3, <1>4, <1>5, <1>7 DEF IInv

\* No step changes a token that is signed.
LEMMA MintedGrows ==
    ASSUME TypeOK, [Next]_vars
    PROVE  \A t \in SignedOf : t \in SignedOf' /\ minted'[t] = minted[t]
<1>1. CASE UNCHANGED minted
  BY <1>1 DEF SignedOf
<1>2. ASSUME NEW t \in AccessTokens, NEW by, NEW who, NEW own, NEW exp, Sign(t, by, who, own, exp)
      PROVE  \A u \in SignedOf : u \in SignedOf' /\ minted'[u] = minted[u]
  BY <1>2 DEF Sign, SignedOf, TypeOK
<1> QED
  BY <1>1, <1>2 DEF Next, Start, SignForTest, RouteStep, BodyStep, Jwks, Exchange, ExchangeRefused,
     IntrospectRefused, Introspect, BodyArrives, BodyRejected, BodyIsNull, Tick, Stop, vars

\* What an exchange signs is a token.
LEMMA ExchangeSigns ==
    ASSUME TypeOK, NEW r \in Requests, NEW p \in ProviderTokens, NEW t \in AccessTokens, Exchange(r, p, t)
    PROVE  /\ p \in DOMAIN byProviderToken
           /\ minted[t] = Unsigned /\ minted'[t] # Unsigned /\ minted'[t].who = byProviderToken[p]
           /\ minted'[t].own /\ minted'[t].exp = clock + Ttl
<1>1. minted' = [minted EXCEPT ![t] = [by |-> "exchange", who |-> byProviderToken[p],
                                       own |-> TRUE, exp |-> clock + Ttl]]
  BY DEF Exchange, Sign, Expiry
<1>2. minted'[t] = [by |-> "exchange", who |-> byProviderToken[p], own |-> TRUE, exp |-> clock + Ttl]
  BY <1>1 DEF TypeOK
<1> QED
  BY <1>2 DEF Exchange, Sign, Unsigned

-----------------------------------------------------------------------------
(* What a step may do to a request.                                         *)

Answers0(r) ==
    /\ request[r].stage = "unsent" /\ request'[r].stage = "answered"
    /\ request'[r].route \in Routes
    /\ request'[r].answer \in {"keys", "unauthorized"} /\ request'[r].token = None
Issues(r) ==
    /\ request[r].stage = "unsent" /\ request'[r].stage = "answered"
    /\ request'[r].route \in Routes
    /\ request'[r].answer = "issued"
    /\ request'[r].token \in AccessTokens
    /\ minted[request'[r].token] = Unsigned /\ minted'[request'[r].token] # Unsigned
    /\ request'[r].provider \in DOMAIN byProviderToken
    /\ minted'[request'[r].token].who = byProviderToken[request'[r].provider]
    /\ minted'[request'[r].token].own
    /\ minted'[request'[r].token].exp = request'[r].at + Ttl
Awaits(r) ==
    /\ request[r].stage = "unsent" /\ request'[r].stage = "body"
    /\ request'[r].route = "introspect"
    /\ request'[r].answer = "none" /\ request'[r].token = None
Drops(r) ==
    /\ request[r].stage = "body" /\ request'[r].stage \in {"answered", "dropped"}
    /\ request'[r].route = request[r].route
    /\ request'[r].answer \in {"none", "rejected", "thrown"} /\ request'[r].token = None
Tells(r) ==
    /\ request[r].stage = "body" /\ request'[r].stage = "answered"
    /\ request'[r].route = request[r].route
    /\ request'[r].token \in AccessTokens \cup {None}
    /\ request'[r].token # None => request'[r].token \in SignedOf
    /\ request'[r].answer = IF Active(r, request'[r].token) THEN "active" ELSE "inactive"
    /\ request'[r].at = clock

\* One of these, or nothing.
LEMMA RequestStep ==
    ASSUME TypeOK, StageInv, [Next]_vars, NEW q \in Requests
    PROVE  \/ request'[q] = request[q]
           \/ Answers0(q) \/ Issues(q) \/ Awaits(q) \/ Drops(q) \/ Tells(q)
<1> DEFINE Goal == \/ request'[q] = request[q]
                   \/ Answers0(q) \/ Issues(q) \/ Awaits(q) \/ Drops(q) \/ Tells(q)
<1>0. request \in [Requests -> Request]
  BY DEF TypeOK, Request
<1>1. CASE UNCHANGED request
  BY <1>1
<1>2. ASSUME NEW r \in Requests, NEW route, NEW provider, NEW token, NEW answer,
             Answered(r, route, provider, token, answer)
      PROVE  /\ r # q => request'[q] = request[q]
             /\ request'[r].stage = "answered" /\ request'[r].route = route
             /\ request'[r].answer = answer /\ request'[r].token = token
             /\ request'[r].provider = provider /\ request'[r].at = clock
  BY <1>0, <1>2 DEF Answered
<1>3. ASSUME NEW r \in Requests, Jwks(r) \/ IntrospectRefused(r) PROVE Goal
  <2>1. CASE Jwks(r)
    <3>1. Answered(r, "jwks", None, None, "keys") /\ request[r].stage = "unsent"
      BY <2>1 DEF Jwks, Reach
    <3> QED
      BY <1>2, <3>1 DEF Answers0
  <2>2. CASE IntrospectRefused(r)
    <3>1. Answered(r, "introspect", None, None, "unauthorized") /\ request[r].stage = "unsent"
      BY <2>2 DEF IntrospectRefused, Reach
    <3> QED
      BY <1>2, <3>1 DEF Answers0
  <2> QED
    BY <1>3, <2>1, <2>2
<1>4. ASSUME NEW r \in Requests, NEW p \in ProviderTokens, ExchangeRefused(r, p) PROVE Goal
  BY <1>2, <1>4 DEF ExchangeRefused, Reach, Answers0
<1>5. ASSUME NEW r \in Requests, NEW p \in ProviderTokens, NEW t \in AccessTokens, Exchange(r, p, t)
      PROVE  Goal
  <2>1. Answered(r, "exchange", p, t, "issued") /\ request[r].stage = "unsent"
    BY <1>5 DEF Exchange, Reach
  <2>2. /\ p \in DOMAIN byProviderToken
        /\ minted[t] = Unsigned /\ minted'[t] # Unsigned /\ minted'[t].who = byProviderToken[p]
        /\ minted'[t].own /\ minted'[t].exp = clock + Ttl
    BY <1>5, ExchangeSigns
  <2>3. /\ r # q => request'[q] = request[q]
        /\ request'[r].stage = "answered" /\ request'[r].route = "exchange"
        /\ request'[r].answer = "issued" /\ request'[r].token = t /\ request'[r].provider = p
        /\ request'[r].at = clock
    BY <1>2, <2>1
  <2> QED
    BY <2>1, <2>2, <2>3 DEF Issues
<1>6. ASSUME NEW r \in Requests, Introspect(r) PROVE Goal
  <2>1. /\ request' = [request EXCEPT ![r].stage = "body", ![r].route = "introspect",
                                      ![r].began = clock]
        /\ request[r].stage = "unsent"
    BY <1>6 DEF Introspect, Reach
  <2>2. request[r].answer = "none" /\ request[r].token = None
    BY <2>1 DEF StageInv
  <2> QED
    BY <1>0, <2>1, <2>2 DEF Awaits, Request
<1>7. ASSUME NEW r \in Requests, NEW t \in AccessTokens \cup {None}, BodyArrives(r, t) PROVE Goal
  <2>1. /\ request[r].stage = "body" /\ request[r].route = "introspect"
        /\ t # None => t \in SignedOf
        /\ Answered(r, "introspect", None, t, IF Active(r, t) THEN "active" ELSE "inactive")
    BY <1>7 DEF BodyArrives, StageInv, SignedOf
  <2> QED
    BY <1>2, <2>1 DEF Tells
<1>8. ASSUME NEW r \in Requests, BodyRejected(r) PROVE Goal
  <2>1. /\ request[r].stage = "body" /\ request[r].route = "introspect"
        /\ request[r].answer = "none" /\ request[r].token = None
    BY <1>8 DEF BodyRejected, StageInv
  <2>2. CASE Answered(r, "introspect", None, None, "rejected")
    BY <1>2, <2>1, <2>2 DEF Drops
  <2>3. CASE request' = [request EXCEPT ![r].stage = "dropped", ![r].began = 0]
    BY <1>0, <2>1, <2>3 DEF Drops, Request
  <2> QED
    BY <1>8, <2>2, <2>3 DEF BodyRejected
<1>9. Dropped[q] = IF request[q].stage = "body"
                   THEN [request[q] EXCEPT !.stage = "dropped", !.began = 0] ELSE request[q]
  BY DEF Dropped
<1>10. request[q].stage = "body" => request[q].answer = "none" /\ request[q].token = None
  BY DEF StageInv
<1>11. CASE Stop
  BY <1>0, <1>9, <1>10, <1>11 DEF Stop, Drops, Request
<1>12. ASSUME NEW r \in Requests, BodyIsNull(r) PROVE Goal
  <2>1. request' = [Dropped EXCEPT ![r].answer = "thrown"] /\ request[r].stage = "body"
    BY <1>12 DEF BodyIsNull
  <2>2. DOMAIN Dropped = Requests
    BY DEF Dropped
  <2>3. CASE q # r
    <3>1. request'[q] = Dropped[q]
      BY <2>1, <2>2, <2>3
    <3> QED
      BY <1>0, <1>9, <1>10, <3>1 DEF Drops, Request
  <2>4. CASE q = r
    <3>1. request'[q] = [Dropped[q] EXCEPT !.answer = "thrown"]
      BY <2>1, <2>2, <2>4
    <3>2. Dropped[q] = [request[q] EXCEPT !.stage = "dropped", !.began = 0] /\ request[q] \in Request
      BY <1>0, <1>9, <2>1, <2>4
    <3>3. /\ request'[q].stage = "dropped" /\ request'[q].route = request[q].route
          /\ request'[q].answer = "thrown" /\ request'[q].token = request[q].token
      BY ONLY <3>1, <3>2 DEF Request
    <3> QED
      BY <1>10, <2>1, <2>4, <3>3 DEF Drops
  <2> QED
    BY <2>3, <2>4
<1> QED
  BY <1>1, <1>3, <1>4, <1>5, <1>6, <1>7, <1>8, <1>11, <1>12
  DEF Next, RouteStep, BodyStep, Start, SignForTest, Tick, vars

-----------------------------------------------------------------------------
(* Types.                                                                   *)

\* With distinct provider tokens, each finds its own identity.
LEMMA ByTokenFinds ==
    ASSUME NEW ids \in Seq(Identities), DistinctTokens(ids)
    PROVE  /\ DOMAIN ByToken(ids) = {TokenOf[ids[n]] : n \in DOMAIN ids}
           /\ \A n \in DOMAIN ids : ByToken(ids)[TokenOf[ids[n]]] = ids[n]
<1>1. DOMAIN ByToken(ids) = {TokenOf[ids[n]] : n \in DOMAIN ids}
  BY DEF ByToken
<1>2. ASSUME NEW n \in DOMAIN ids PROVE ByToken(ids)[TokenOf[ids[n]]] = ids[n]
  <2>1. {m \in DOMAIN ids : TokenOf[ids[m]] = TokenOf[ids[n]]} = {n}
    BY DEF DistinctTokens
  <2>2. n \in Int
    OBVIOUS
  <2>3. Max({n}) = n
    BY <2>2 DEF Max
  <2>4. ByToken(ids)[TokenOf[ids[n]]] =
            ids[Max({m \in DOMAIN ids : TokenOf[ids[m]] = TokenOf[ids[n]]})]
    BY <1>1 DEF ByToken
  <2> QED
    BY <2>1, <2>3, <2>4
<1> QED
  BY <1>1, <1>2

LEMMA GivenIsSeq == \A ids \in SeqOf(Identities, MaxGiven) : ids \in Seq(Identities)
<1> SUFFICES ASSUME NEW m \in 0 .. MaxGiven, NEW ids \in [1 .. m -> Identities]
             PROVE  ids \in Seq(Identities)
  BY DEF SeqOf
<1> QED
  OBVIOUS

\* The part of TypeOK that only the start, the clock and a stop touch.
ServerTypeOK ==
    /\ phase \in {"called", "serving", "refused", "stopped", "crashed"}
    /\ given \in Seq(Identities)
    /\ DOMAIN byProviderToken \subseteq ProviderTokens
    /\ \A p \in DOMAIN byProviderToken : byProviderToken[p] \in Identities
    /\ clock \in 0 .. MaxTime

LEMMA StartType == ASSUME TypeOK, [Next]_vars PROVE ServerTypeOK'
<1>0. ServerTypeOK
  BY DEF TypeOK, ServerTypeOK
<1>1. ASSUME NEW ids \in SeqOf(Identities, MaxGiven), NEW configured \in BOOLEAN,
             Start(ids, configured)
      PROVE  ServerTypeOK'
  <2>1. ids \in Seq(Identities)
    BY GivenIsSeq
  <2>2. CASE byProviderToken' = ByToken(ids) /\ DistinctTokens(ids)
    <3>1. /\ DOMAIN byProviderToken' = {TokenOf[ids[n]] : n \in DOMAIN ids}
          /\ \A n \in DOMAIN ids : byProviderToken'[TokenOf[ids[n]]] = ids[n]
      BY <2>1, <2>2, ByTokenFinds
    <3>2. \A n \in DOMAIN ids : ids[n] \in Identities /\ TokenOf[ids[n]] \in ProviderTokens
      BY <2>1
    <3> QED
      BY <1>0, <1>1, <2>1, <3>1, <3>2 DEF Start, ServerTypeOK
  <2>3. CASE UNCHANGED byProviderToken
    BY <1>0, <1>1, <2>1, <2>3 DEF Start, ServerTypeOK
  <2> QED
    BY <1>1, <2>2, <2>3 DEF Start
<1>2. CASE Tick
  BY <1>0, <1>2 DEF Tick, ServerTypeOK
<1>3. ASSUME UNCHANGED <<given, byProviderToken, clock>>, phase' \in {phase, "crashed", "stopped"}
      PROVE  ServerTypeOK'
  BY <1>0, <1>3 DEF ServerTypeOK
<1>4. ASSUME NEW r \in Requests, RouteStep(r) PROVE ServerTypeOK'
  <2>1. UNCHANGED <<phase, given, byProviderToken, clock>>
    BY <1>4 DEF RouteStep, Jwks, Exchange, ExchangeRefused, IntrospectRefused, Introspect, Reach
  <2> QED
    BY <1>3, <2>1
<1>5. ASSUME NEW r \in Requests, BodyStep(r) PROVE ServerTypeOK'
  <2>1. UNCHANGED <<given, byProviderToken, clock>> /\ phase' \in {phase, "crashed", "stopped"}
    BY <1>5 DEF BodyStep, BodyArrives, BodyRejected, BodyIsNull
  <2> QED
    BY <1>3, <2>1
<1>6. ASSUME NEW t \in AccessTokens, NEW i \in Identities, NEW own \in BOOLEAN,
             NEW exp \in 0 .. MaxTime, SignForTest(t, i, own, exp)
      PROVE  ServerTypeOK'
  BY <1>3, <1>6 DEF SignForTest
<1>7. CASE Stop \/ UNCHANGED vars
  BY <1>3, <1>7 DEF Stop, vars
<1> QED
  BY <1>1, <1>2, <1>4, <1>5, <1>6, <1>7 DEF Next

LEMMA CountsType == ASSUME TypeOK, [Next]_vars PROVE counts' \in [Routes -> Nat]
<1>1. CASE UNCHANGED counts
  BY <1>1 DEF TypeOK
<1>2. ASSUME NEW r, NEW route \in Routes, NEW letIn, Reach(r, route, letIn)
      PROVE  counts' \in [Routes -> Nat]
  BY <1>2 DEF Reach, Counted, TypeOK
<1> QED
  BY <1>1, <1>2
  DEF Next, RouteStep, BodyStep, Start, SignForTest, Jwks, Exchange, ExchangeRefused,
      IntrospectRefused, Introspect, BodyArrives, BodyRejected, BodyIsNull, Tick, Stop, vars

LEMMA MintedType == ASSUME TypeOK, [Next]_vars PROVE minted' \in [AccessTokens -> Minted]
<1>0. minted \in [AccessTokens -> Minted]
  BY DEF TypeOK, Minted
<1>1. CASE UNCHANGED minted
  BY <1>0, <1>1
<1>2. ASSUME NEW t \in AccessTokens, NEW by \in {"exchange", "test"}, NEW who \in Identities,
             NEW own \in BOOLEAN, NEW exp \in 0 .. MaxTime + Ttl, Sign(t, by, who, own, exp)
      PROVE  minted' \in [AccessTokens -> Minted]
  <2>1. [by |-> by, who |-> who, own |-> own, exp |-> exp] \in Minted
    BY DEF Minted
  <2> QED
    BY <1>0, <1>2, <2>1 DEF Sign
<1>3. ASSUME NEW t \in AccessTokens, NEW i \in Identities, NEW own \in BOOLEAN,
             NEW exp \in 0 .. MaxTime, SignForTest(t, i, own, exp)
      PROVE  minted' \in [AccessTokens -> Minted]
  <2>1. Sign(t, "test", i, own, exp) /\ exp \in 0 .. MaxTime + Ttl
    BY <1>3 DEF SignForTest
  <2> QED
    BY <1>2, <2>1
<1>4. ASSUME NEW r \in Requests, NEW p \in ProviderTokens, NEW t \in AccessTokens, Exchange(r, p, t)
      PROVE  minted' \in [AccessTokens -> Minted]
  <2>1. Sign(t, "exchange", byProviderToken[p], TRUE, clock + Ttl) /\ p \in DOMAIN byProviderToken
    BY <1>4 DEF Exchange, Expiry
  <2>2. byProviderToken[p] \in Identities /\ clock \in 0 .. MaxTime
    BY <2>1 DEF TypeOK
  <2>3. clock + Ttl \in 0 .. MaxTime + Ttl
    BY <2>2
  <2> QED
    BY <1>2, <2>1, <2>2, <2>3
<1> QED
  BY <1>1, <1>3, <1>4
  DEF Next, RouteStep, BodyStep, Start, Jwks, ExchangeRefused, IntrospectRefused, Introspect,
      BodyArrives, BodyRejected, BodyIsNull, Tick, Stop, vars

LEMMA RequestType == ASSUME TypeOK, [Next]_vars PROVE request' \in [Requests -> Request]
<1>0. request \in [Requests -> Request] /\ clock \in 0 .. MaxTime /\ 0 \in 0 .. MaxTime
  BY DEF TypeOK, Request
<1>1. CASE UNCHANGED request
  BY <1>0, <1>1
<1>2. ASSUME NEW r \in Requests, NEW route \in Routes, NEW provider \in ProviderTokens \cup {None},
             NEW token \in AccessTokens \cup {None}, NEW answer \in Answers,
             Answered(r, route, provider, token, answer)
      PROVE  request' \in [Requests -> Request]
  <2>1. [stage |-> "answered", route |-> route, answer |-> answer, provider |-> provider,
         token |-> token, began |-> 0, at |-> clock] \in Request
    BY <1>0 DEF Request
  <2> QED
    BY <1>0, <1>2, <2>1 DEF Answered
<1>3. \A r \in Requests : [request[r] EXCEPT !.stage = "dropped", !.began = 0] \in Request
  BY <1>0 DEF Request
<1>4. Dropped \in [Requests -> Request]
  BY <1>0, <1>3 DEF Dropped
<1>5. ASSUME NEW r \in Requests, RouteStep(r) PROVE request' \in [Requests -> Request]
  <2>1. CASE Jwks(r)
    BY <1>2, <2>1 DEF Jwks
  <2>2. CASE IntrospectRefused(r)
    BY <1>2, <2>2 DEF IntrospectRefused
  <2>3. ASSUME NEW p \in ProviderTokens, ExchangeRefused(r, p)
        PROVE  request' \in [Requests -> Request]
    BY <1>2, <2>3 DEF ExchangeRefused
  <2>4. ASSUME NEW p \in ProviderTokens, NEW t \in AccessTokens, Exchange(r, p, t)
        PROVE  request' \in [Requests -> Request]
    BY <1>2, <2>4 DEF Exchange
  <2>5. CASE Introspect(r)
    <3>1. request' = [request EXCEPT ![r] =
              [request[r] EXCEPT !.stage = "body", !.route = "introspect", !.began = clock]]
      BY <1>0, <2>5 DEF Introspect
    <3>2. [request[r] EXCEPT !.stage = "body", !.route = "introspect", !.began = clock] \in Request
      BY <1>0 DEF Request
    <3> QED
      BY <1>0, <3>1, <3>2
  <2> QED
    BY <1>5, <2>1, <2>2, <2>3, <2>4, <2>5 DEF RouteStep
<1>6. ASSUME NEW r \in Requests, BodyStep(r) PROVE request' \in [Requests -> Request]
  <2>1. ASSUME NEW t \in AccessTokens \cup {None}, BodyArrives(r, t)
        PROVE  request' \in [Requests -> Request]
    <3>1. Answered(r, "introspect", None, t, IF Active(r, t) THEN "active" ELSE "inactive")
      BY <2>1 DEF BodyArrives
    <3> QED
      BY <1>2, <3>1
  <2>2. CASE BodyRejected(r)
    <3>1. CASE Answered(r, "introspect", None, None, "rejected")
      BY <1>2, <3>1
    <3>2. CASE request' = [request EXCEPT ![r].stage = "dropped", ![r].began = 0]
      <4>1. request' = [request EXCEPT ![r] =
                [request[r] EXCEPT !.stage = "dropped", !.began = 0]]
        BY <1>0, <3>2
      <4> QED
        BY <1>0, <1>3, <4>1
    <3> QED
      BY <2>2, <3>1, <3>2 DEF BodyRejected
  <2>3. CASE BodyIsNull(r)
    <3>1. request' = [Dropped EXCEPT ![r] = [Dropped[r] EXCEPT !.answer = "thrown"]]
      BY <1>4, <2>3 DEF BodyIsNull
    <3>2. [Dropped[r] EXCEPT !.answer = "thrown"] \in Request
      BY <1>4 DEF Request
    <3> QED
      BY <1>4, <3>1, <3>2
  <2> QED
    BY <1>6, <2>1, <2>2, <2>3 DEF BodyStep
<1>7. CASE Stop
  BY <1>4, <1>7 DEF Stop
<1> QED
  BY <1>1, <1>5, <1>6, <1>7 DEF Next, Start, SignForTest, Tick, vars

LEMMA StepType == TypeOK /\ [Next]_vars => TypeOK'
BY StartType, CountsType, MintedType, RequestType DEF ServerTypeOK, TypeOK, Minted, Request

-----------------------------------------------------------------------------
(* The invariant.                                                           *)

\* In each state after a step, what RequestStep says of each request.
LEMMA StepStage == IInv /\ [Next]_vars => StageInv'
<1> SUFFICES ASSUME IInv, [Next]_vars, NEW q \in Requests
             PROVE  /\ request'[q].stage = "unsent" <=> request'[q].route = None
                    /\ request'[q].stage = "body" => request'[q].route = "introspect"
                    /\ request'[q].stage \in {"unsent", "body"} =>
                          request'[q].answer = "none" /\ request'[q].token = None
  BY DEF StageInv
<1>1. /\ request[q].stage = "unsent" <=> request[q].route = None
      /\ request[q].stage = "body" => request[q].route = "introspect"
      /\ request[q].stage \in {"unsent", "body"} =>
            request[q].answer = "none" /\ request[q].token = None
  BY DEF IInv, StageInv
<1>2. \/ request'[q] = request[q]
      \/ Answers0(q) \/ Issues(q) \/ Awaits(q) \/ Drops(q) \/ Tells(q)
  BY RequestStep DEF IInv
<1> QED
  BY <1>1, <1>2 DEF Answers0, Issues, Awaits, Drops, Tells

LEMMA StepToken == IInv /\ [Next]_vars => TokenInv'
<1> SUFFICES ASSUME IInv, [Next]_vars, NEW q \in Requests
             PROVE  /\ request'[q].answer \in {"active", "issued"} => request'[q].token # None
                    /\ request'[q].answer # "none" /\ request'[q].token # None =>
                          request'[q].token \in SignedOf'
  BY DEF TokenInv
<1>1. /\ request[q].answer \in {"active", "issued"} => request[q].token # None
      /\ request[q].answer # "none" /\ request[q].token # None => request[q].token \in SignedOf
  BY DEF IInv, TokenInv
<1>2. \/ request'[q] = request[q]
      \/ Answers0(q) \/ Issues(q) \/ Awaits(q) \/ Drops(q) \/ Tells(q)
  BY RequestStep DEF IInv
<1>3. \A t \in SignedOf : t \in SignedOf'
  BY MintedGrows DEF IInv
<1>4. CASE Issues(q)
  BY <1>4 DEF Issues, SignedOf
<1>5. CASE Tells(q)
  BY <1>3, <1>5 DEF Tells, Active
<1> QED
  BY <1>1, <1>2, <1>3, <1>4, <1>5 DEF Answers0, Awaits, Drops

LEMMA StepServed == IInv /\ [Next]_vars => ServedInv'
<1> SUFFICES ASSUME IInv, [Next]_vars PROVE ServedInv'
  OBVIOUS
<1>1. ASSUME NEW ids \in SeqOf(Identities, MaxGiven), NEW configured \in BOOLEAN,
             Start(ids, configured)
      PROVE  ServedInv'
  <2>1. ids \in Seq(Identities)
    BY GivenIsSeq
  <2>2. CASE phase' = "serving" /\ byProviderToken' = ByToken(ids) /\ DistinctTokens(ids)
    BY <1>1, <2>1, <2>2, ByTokenFinds DEF ServedInv, Start
  <2>3. CASE phase' = "refused" /\ UNCHANGED byProviderToken
    BY <1>1, <2>3 DEF IInv, ServedInv, Start
  <2> QED
    BY <1>1, <2>2, <2>3 DEF Start
<1>2. CASE UNCHANGED <<given, byProviderToken>> /\ (phase' = "called" => phase = "called")
  BY <1>2 DEF IInv, ServedInv
<1>3. ASSUME NEW r \in Requests, RouteStep(r) PROVE UNCHANGED <<phase, given, byProviderToken>>
  BY <1>3 DEF RouteStep, Jwks, Exchange, ExchangeRefused, IntrospectRefused, Introspect, Reach
<1>4. ASSUME NEW r \in Requests, BodyStep(r)
      PROVE  UNCHANGED <<given, byProviderToken>> /\ phase' \in {phase, "crashed"}
  BY <1>4 DEF BodyStep, BodyArrives, BodyRejected, BodyIsNull
<1>5. ASSUME NEW t \in AccessTokens, NEW i \in Identities, NEW own \in BOOLEAN,
             NEW exp \in 0 .. MaxTime, SignForTest(t, i, own, exp)
      PROVE  UNCHANGED <<phase, given, byProviderToken>>
  BY <1>5 DEF SignForTest
<1>6. CASE Stop \/ Tick \/ UNCHANGED vars
  BY <1>2, <1>6 DEF Stop, Tick, vars
<1> QED
  BY <1>1, <1>2, <1>3, <1>4, <1>5, <1>6 DEF Next

\* What the fixture serves does not change once requests can arrive.
LEMMA ServedStays ==
    ASSUME IInv, [Next]_vars, NEW p \in DOMAIN byProviderToken
    PROVE  p \in DOMAIN byProviderToken' /\ byProviderToken'[p] = byProviderToken[p]
<1>1. phase # "called"
  BY DEF IInv, ServedInv
<1>2. UNCHANGED byProviderToken
  BY <1>1 DEF Next, Start, RouteStep, BodyStep, SignForTest, Jwks, Exchange, ExchangeRefused,
     IntrospectRefused, Introspect, Reach, BodyArrives, BodyRejected, BodyIsNull, Stop, Tick, vars
<1> QED
  BY <1>2

LEMMA StepIssued == IInv /\ [Next]_vars => IssuedInv'
<1> SUFFICES ASSUME IInv, [Next]_vars, NEW q \in Requests, request'[q].answer = "issued"
             PROVE  /\ request'[q].provider \in DOMAIN byProviderToken'
                    /\ minted'[request'[q].token].who = byProviderToken'[request'[q].provider]
  BY DEF IssuedInv
<1>1. CASE request'[q] = request[q]
  <2>1. /\ request[q].provider \in DOMAIN byProviderToken
        /\ minted[request[q].token].who = byProviderToken[request[q].provider]
        /\ request[q].token \in SignedOf
    BY <1>1 DEF IInv, IssuedInv, TokenInv
  <2>2. minted'[request[q].token] = minted[request[q].token]
    BY <2>1, MintedGrows DEF IInv
  <2> QED
    BY <1>1, <2>1, <2>2, ServedStays
<1>2. CASE Issues(q)
  BY <1>2, ServedStays DEF Issues
<1>3. \/ request'[q] = request[q]
      \/ Answers0(q) \/ Issues(q) \/ Awaits(q) \/ Drops(q) \/ Tells(q)
  BY RequestStep DEF IInv
<1> QED
  BY <1>1, <1>2, <1>3 DEF Answers0, Awaits, Drops, Tells

LEMMA StepLifetime == IInv /\ [Next]_vars => LifetimeInv'
<1> SUFFICES ASSUME IInv, [Next]_vars, NEW q \in Requests, request'[q].answer = "issued"
             PROVE  /\ minted'[request'[q].token].own
                    /\ minted'[request'[q].token].exp = request'[q].at + Ttl
  BY DEF LifetimeInv
<1>1. CASE request'[q] = request[q]
  <2>1. /\ minted[request[q].token].own
        /\ minted[request[q].token].exp = request[q].at + Ttl
        /\ request[q].token \in SignedOf
    BY <1>1 DEF IInv, LifetimeInv, TokenInv
  <2>2. minted'[request[q].token] = minted[request[q].token]
    BY <2>1, MintedGrows DEF IInv
  <2> QED
    BY <1>1, <2>1, <2>2
<1>2. CASE Issues(q)
  BY <1>2 DEF Issues
<1>3. \/ request'[q] = request[q]
      \/ Answers0(q) \/ Issues(q) \/ Awaits(q) \/ Drops(q) \/ Tells(q)
  BY RequestStep DEF IInv
<1> QED
  BY <1>1, <1>2, <1>3 DEF Answers0, Awaits, Drops, Tells

\* A step issues a token to one request.
LEMMA OneExchange ==
    ASSUME IInv, [Next]_vars, NEW q \in Requests, NEW s \in Requests, Issues(q), Issues(s)
    PROVE  q = s
<1>1. request'[q] # request[q] /\ request'[s] # request[s] /\ minted' # minted
  BY DEF Issues
<1>2. PICK r \in Requests, p \in ProviderTokens, t \in AccessTokens : Exchange(r, p, t)
  <2>1. ~ UNCHANGED request /\ ~ UNCHANGED minted
    BY <1>1
  <2> QED
    BY <2>1 DEF Next, RouteStep, BodyStep, Start, SignForTest, Jwks, ExchangeRefused,
       IntrospectRefused, Introspect, BodyArrives, BodyRejected, BodyIsNull, Tick, Stop, vars
<1>3. \A u \in Requests : u # r => request'[u] = request[u]
  BY <1>2 DEF Exchange, Answered, IInv, TypeOK
<1> QED
  BY <1>1, <1>3

LEMMA StepUnique == IInv /\ [Next]_vars => UniqueInv'
<1> SUFFICES ASSUME IInv, [Next]_vars, NEW q \in Requests, NEW s \in Requests,
                    request'[q].answer = "issued", request'[s].answer = "issued",
                    request'[q].token = request'[s].token
             PROVE  q = s
  BY DEF UniqueInv
<1>1. \A r \in Requests : request'[r].answer = "issued" => request'[r] = request[r] \/ Issues(r)
  BY RequestStep DEF IInv, Answers0, Awaits, Drops, Tells
<1>2. \A r \in Requests : request'[r] = request[r] /\ request'[r].answer = "issued" =>
          minted[request'[r].token] # Unsigned
  BY DEF IInv, TokenInv, SignedOf
<1>3. CASE request'[q] = request[q] /\ request'[s] = request[s]
  BY <1>3 DEF IInv, UniqueInv
<1>4. CASE Issues(q) /\ Issues(s)
  BY <1>4, OneExchange
<1> QED
  BY <1>1, <1>2, <1>3, <1>4 DEF Issues

LEMMA StepActive == IInv /\ [Next]_vars => ActiveMeansValidNow'
<1> SUFFICES ASSUME IInv, [Next]_vars, NEW q \in Requests,
                    request'[q].answer \in {"active", "inactive"}
             PROVE  request'[q].answer = "active" <=>
                        /\ request'[q].token # None
                        /\ minted'[request'[q].token].own
                        /\ minted'[request'[q].token].exp > request'[q].at
  BY DEF ActiveMeansValidNow
<1>1. /\ request'[q].token # None =>
             request'[q].token \in SignedOf
      /\ request'[q].answer = "active" <=>
             /\ request'[q].token # None
             /\ minted[request'[q].token].own
             /\ minted[request'[q].token].exp > request'[q].at
  <2>1. CASE request'[q] = request[q]
    BY <2>1 DEF IInv, ActiveMeansValidNow, TokenInv
  <2>2. CASE Tells(q)
    BY <2>2 DEF Tells, Active, Unexpired
  <2> QED
    BY <2>1, <2>2, RequestStep DEF IInv, Answers0, Issues, Awaits, Drops
<1>2. request'[q].token # None => minted'[request'[q].token] = minted[request'[q].token]
  BY <1>1, MintedGrows DEF IInv
<1> QED
  BY <1>1, <1>2

\* A request that has a route keeps it, and the one that reached a route now
\* is the one that was counted.
LEMMA StepCount == IInv /\ [Next]_vars => CountInv'
<1> SUFFICES ASSUME IInv, [Next]_vars PROVE CountInv'
  OBVIOUS
<1>0. counts \in [Routes -> Nat]
  BY DEF IInv, TypeOK
<1>1. ASSUME UNCHANGED counts, \A q \in Requests : request'[q].route = request[q].route
      PROVE  CountInv'
  <2>1. \A route \in Routes : ReachedBy(route)' = ReachedBy(route)
    BY <1>1 DEF ReachedBy
  <2> QED
    BY <1>1, <2>1 DEF IInv, CountInv
<1>2. ASSUME NEW r \in Requests, NEW route \in Routes, NEW letIn, Reach(r, route, letIn),
             request'[r].route = route, \A q \in Requests \ {r} : request'[q] = request[q]
      PROVE  CountInv'
  <2>1. request[r].route = None /\ None \notin Routes
    BY <1>2 DEF Reach, IInv, StageInv
  <2>2. counts' = [counts EXCEPT ![route] = @ + 1]
    BY <1>2 DEF Reach, Counted
  <2>3. ASSUME NEW other \in Routes
        PROVE  IsFiniteSet(ReachedBy(other)') /\ counts'[other] = Cardinality(ReachedBy(other)')
    <3>1. IsFiniteSet(ReachedBy(other)) /\ counts[other] = Cardinality(ReachedBy(other))
      BY DEF IInv, CountInv
    <3>2. CASE other = route
      <4>1. ReachedBy(other)' = ReachedBy(other) \cup {r}
        BY <1>2, <2>1, <3>2 DEF ReachedBy
      <4>2. r \notin ReachedBy(other)
        BY <2>1 DEF ReachedBy
      <4>3. counts'[other] = counts[other] + 1
        BY <1>0, <2>2, <3>2
      <4>4. /\ IsFiniteSet(ReachedBy(other) \cup {r})
            /\ Cardinality(ReachedBy(other) \cup {r}) = Cardinality(ReachedBy(other)) + 1
        BY <3>1, <4>2, FS_AddElement
      <4> QED
        BY <3>1, <4>1, <4>3, <4>4
    <3>3. CASE other # route
      <4>1. ReachedBy(other)' = ReachedBy(other)
        BY <1>2, <2>1, <3>3 DEF ReachedBy
      <4>2. counts'[other] = counts[other]
        BY <1>0, <2>2, <3>3
      <4> QED
        BY <3>1, <4>1, <4>2
    <3> QED
      BY <3>2, <3>3
  <2> QED
    BY <2>3 DEF CountInv
<1>3. request \in [Requests -> Request]
  BY DEF IInv, TypeOK, Request
<1>4. ASSUME NEW r \in Requests, NEW route \in Routes, NEW provider, NEW token, NEW answer,
             Answered(r, route, provider, token, answer)
      PROVE  request'[r].route = route /\ \A q \in Requests \ {r} : request'[q] = request[q]
  BY <1>3, <1>4 DEF Answered
<1>5. ASSUME NEW r \in Requests, RouteStep(r) PROVE CountInv'
  <2>1. CASE Jwks(r)
    BY <1>2, <1>4, <2>1 DEF Jwks
  <2>2. CASE IntrospectRefused(r)
    BY <1>2, <1>4, <2>2 DEF IntrospectRefused
  <2>3. ASSUME NEW p \in ProviderTokens, ExchangeRefused(r, p) PROVE CountInv'
    BY <1>2, <1>4, <2>3 DEF ExchangeRefused
  <2>4. ASSUME NEW p \in ProviderTokens, NEW t \in AccessTokens, Exchange(r, p, t) PROVE CountInv'
    BY <1>2, <1>4, <2>4 DEF Exchange
  <2>5. CASE Introspect(r)
    <3>1. request' = [request EXCEPT ![r] =
              [request[r] EXCEPT !.stage = "body", !.route = "introspect", !.began = clock]]
      BY <1>3, <2>5 DEF Introspect
    <3>2. [request[r] EXCEPT !.stage = "body", !.route = "introspect", !.began = clock].route =
              "introspect"
      BY <1>3 DEF Request
    <3>3. request'[r].route = "introspect" /\ \A q \in Requests \ {r} : request'[q] = request[q]
      BY <1>3, <3>1, <3>2
    <3> QED
      BY <1>2, <2>5, <3>3 DEF Introspect
  <2> QED
    BY <1>5, <2>1, <2>2, <2>3, <2>4, <2>5 DEF RouteStep
<1>6. ASSUME NEW r \in Requests, BodyStep(r) PROVE CountInv'
  <2>1. UNCHANGED counts /\ request[r].stage = "body"
    BY <1>6 DEF BodyStep, BodyArrives, BodyRejected, BodyIsNull
  <2>2. ASSUME NEW q \in Requests PROVE request'[q].route = request[q].route
    <3>1. CASE request[q].stage = "unsent"
      <4>1. q # r
        BY <2>1, <3>1
      <4>2. Dropped[q] = request[q] /\ DOMAIN Dropped = Requests
        BY <3>1 DEF Dropped
      <4> QED
        BY <1>3, <1>6, <4>1, <4>2 DEF BodyStep, BodyArrives, BodyRejected, BodyIsNull, Answered
    <3>2. CASE request[q].stage # "unsent"
      BY <3>2, RequestStep DEF IInv, Answers0, Issues, Awaits, Drops, Tells
    <3> QED
      BY <3>1, <3>2
  <2> QED
    BY <1>1, <2>1, <2>2
<1>7. CASE Stop
  <2>1. ASSUME NEW q \in Requests PROVE request'[q].route = request[q].route
    <3>1. CASE request[q].stage = "unsent"
      BY <1>7, <3>1 DEF Stop, Dropped
    <3>2. CASE request[q].stage # "unsent"
      BY <3>2, RequestStep DEF IInv, Answers0, Issues, Awaits, Drops, Tells
    <3> QED
      BY <3>1, <3>2
  <2> QED
    BY <1>1, <1>7, <2>1 DEF Stop
<1> QED
  BY <1>1, <1>5, <1>6, <1>7 DEF Next, Start, SignForTest, Tick, vars

LEMMA StepIInv == IInv /\ [Next]_vars => IInv'
BY StepType, StepStage, StepToken, StepServed, StepIssued, StepLifetime, StepUnique, StepCount,
   StepActive
DEF IInv

-----------------------------------------------------------------------------
(* The theorems.                                                            *)

\* The inductive invariant holds of every reachable state.
THEOREM Invariance == Spec => []IInv
BY InitIInv, StepIInv, PTL DEF Spec

\* The fixture's state is well typed: what it serves are identities it was
\* given, under their provider tokens, and every answer is one it can give.
THEOREM TypeCorrect == Spec => []TypeOK
BY Invariance, PTL DEF IInv

\* However long a body takes and whatever happens in that await, introspection
\* says active of exactly the tokens that are valid at the moment it answers.
THEOREM ActiveMeansValid == Spec => []ActiveMeansValidNow
BY Invariance, PTL DEF IInv

\* For any list of identities a test may pass, an exchange issues a token of
\* the one that has the provider token, and no token twice.
THEOREM ExchangeUnambiguous == Spec => []ExchangeIsUnambiguous
<1>1. IInv => ExchangeIsUnambiguous
  BY DEF IInv, IssuedInv, ServedInv, UniqueInv, ExchangeIsUnambiguous
<1> QED
  BY Invariance, <1>1, PTL

\* For every lifetime and any number of requests, an issued token is active for
\* as long as its client was told, and no longer.
THEOREM IssuedTokensLive == Spec => []IssuedTokensLiveTheirTtl
<1>1. IInv => IssuedTokensLiveTheirTtl
  <2> SUFFICES ASSUME IInv, NEW r \in Requests, NEW q \in Requests,
                      request[r].answer = "issued",
                      request[q].answer \in {"active", "inactive"},
                      request[q].token = request[r].token
               PROVE  request[q].answer = "active" <=> request[q].at < request[r].at + Ttl
    BY DEF IssuedTokensLiveTheirTtl
  <2>1. /\ request[r].token # None
        /\ minted[request[r].token].own
        /\ minted[request[r].token].exp = request[r].at + Ttl
    BY DEF IInv, TokenInv, LifetimeInv
  <2>2. request[q].at \in Nat /\ request[r].at \in Nat
    BY DEF IInv, TypeOK
  <2>3. request[q].answer = "active" <=>
           minted[request[q].token].own /\ minted[request[q].token].exp > request[q].at
    BY <2>1 DEF IInv, ActiveMeansValidNow
  <2> QED
    BY <2>1, <2>2, <2>3
<1> QED
  BY Invariance, <1>1, PTL

\* Each count is the number of requests that reached the route, for any number
\* of requests, let in or not.
THEOREM CountsComplete == Spec => []CountsAreComplete
<1>1. IInv => CountsAreComplete
  BY DEF IInv, CountInv, ReachedBy, CountsAreComplete
<1> QED
  BY Invariance, <1>1, PTL
=============================================================================
