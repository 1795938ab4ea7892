--------------------------- MODULE SharedAuthStub ---------------------------
(***************************************************************************)
(* The Shared Auth fixture (startStubSharedAuth() in                       *)
(* src/shared-auth-stub.mjs): identities that are checked before it        *)
(* listens, tokens it signs for an exchange or for the test, and           *)
(* introspection, which awaits its body after the secret was checked and   *)
(* before the token is looked at.  Time passes and other requests are      *)
(* served in that await.  A signature is taken as unforgeable.             *)
(***************************************************************************)
EXTENDS Naturals, Sequences, FiniteSetsExt, SequencesExt

CONSTANTS
    Identities,      \* identity records a test may pass
    ProviderTokens,
    TokenOf,         \* ... the provider token in each
    WellFormed,      \* ... those whose identifiers and token are well formed
    AccessTokens,    \* names for signed tokens
    Requests,        \* names for requests to the fixture
    Ttl,             \* accessTokenTtlSeconds
    MaxTime,         \* bound on the clock
    MaxGiven,        \* bound on the identities a test passes
    None

Routes == {"jwks", "exchange", "introspect"}

ASSUME SharedAuthAssumption ==
    /\ TokenOf \in [Identities -> ProviderTokens]
    /\ WellFormed \subseteq Identities
    /\ Ttl \in Nat \ {0} /\ MaxTime \in Nat /\ MaxGiven \in Nat
    /\ None \notin Identities \cup ProviderTokens \cup AccessTokens \cup Routes

VARIABLES
    phase,             \* of startStubSharedAuth() and the server it returns
    given,             \* the identities passed to it
    byProviderToken,   \* the Map of the identities it serves
    clock,
    counts,            \* requestCounts
    minted,            \* access tokens: whose, for this fixture or another, until when
    request            \* where each request is, and its answer

vars == <<phase, given, byProviderToken, clock, counts, minted, request>>

Stages  == {"unsent", "body", "answered", "dropped"}
Answers == {"none", "keys", "issued", "active", "inactive", "unauthorized", "rejected", "thrown"}
Fresh   == [stage |-> "unsent", route |-> None, answer |-> "none",
            provider |-> None, token |-> None, began |-> 0, at |-> 0]
Unsigned == [by |-> "nobody", who |-> None, own |-> FALSE, exp |-> 0]

TypeOK ==
    /\ phase \in {"called", "serving", "refused", "stopped", "crashed"}
    /\ given \in Seq(Identities)
    /\ DOMAIN byProviderToken \subseteq ProviderTokens
    /\ \A p \in DOMAIN byProviderToken : byProviderToken[p] \in Identities
    /\ clock \in 0 .. MaxTime
    /\ counts \in [Routes -> Nat]
    /\ minted \in [AccessTokens -> [by : {"nobody", "exchange", "test"},
                                    who : Identities \cup {None}, own : BOOLEAN,
                                    exp : 0 .. MaxTime + Ttl]]
    /\ request \in [Requests -> [stage : Stages, route : Routes \cup {None},
                                 answer : Answers, provider : ProviderTokens \cup {None},
                                 token : AccessTokens \cup {None},
                                 began : 0 .. MaxTime, at : 0 .. MaxTime]]

Init ==
    /\ phase = "called"
    /\ given = <<>> /\ byProviderToken = <<>>
    /\ clock = 0
    /\ counts = [route \in Routes |-> 0]
    /\ minted = [t \in AccessTokens |-> Unsigned]
    /\ request = [r \in Requests |-> Fresh]

-----------------------------------------------------------------------------
(* The start.                                                               *)

\* normalizeIdentity() throws on anything else.
Normalizes(ids) == \A n \in DOMAIN ids : ids[n] \in WellFormed

\* (mutant) a later identity replaces one with the same provider token.
AnyTokens(ids) == TRUE

DistinctTokens(ids) ==
    \A m, n \in DOMAIN ids : m # n => TokenOf[ids[m]] # TokenOf[ids[n]]

ByToken(ids) ==
    [p \in {TokenOf[ids[n]] : n \in DOMAIN ids} |->
        ids[Max({n \in DOMAIN ids : TokenOf[ids[n]] = p})]]

\* configured: the project, audience, secret, issuer and ttl are valid.
Start(ids, configured) ==
    /\ phase = "called"
    /\ given' = ids
    /\ IF configured /\ Normalizes(ids) /\ DistinctTokens(ids)
       THEN phase' = "serving" /\ byProviderToken' = ByToken(ids)
       ELSE phase' = "refused" /\ UNCHANGED byProviderToken
    /\ UNCHANGED <<clock, counts, minted, request>>

Tick ==
    /\ clock < MaxTime
    /\ clock' = clock + 1
    /\ UNCHANGED <<phase, given, byProviderToken, counts, minted, request>>

-----------------------------------------------------------------------------
(* Tokens.                                                                  *)

Sign(t, by, who, own, exp) ==
    /\ minted[t] = Unsigned
    /\ minted' = [minted EXCEPT ![t] = [by |-> by, who |-> who, own |-> own, exp |-> exp]]

\* The test signs a token: for any well-formed identity, with another issuer
\* or audience if it likes, and with any expiry.
SignForTest(t, i, own, exp) ==
    /\ phase = "serving"
    /\ i \in WellFormed
    /\ Sign(t, "test", i, own, exp)
    /\ UNCHANGED <<phase, given, byProviderToken, clock, counts, request>>

-----------------------------------------------------------------------------
(* The routes.                                                              *)

\* (mutant) a request counts once it was let in.
CountedIf(letIn, route) == IF letIn THEN [counts EXCEPT ![route] = @ + 1] ELSE counts

\* Every request to a route counts, let in or not.
Counted(letIn, route) == [counts EXCEPT ![route] = @ + 1]

Reach(r, route, letIn) ==
    /\ phase = "serving"
    /\ request[r].stage = "unsent"
    /\ counts' = Counted(letIn, route)
    /\ UNCHANGED <<phase, given, byProviderToken, clock>>

Answered(r, route, provider, token, answer) ==
    request' = [request EXCEPT ![r] =
        [stage |-> "answered", route |-> route, answer |-> answer,
         provider |-> provider, token |-> token, began |-> 0, at |-> clock]]

Jwks(r) ==
    /\ Reach(r, "jwks", TRUE)
    /\ Answered(r, "jwks", None, None, "keys")
    /\ UNCHANGED minted

\* (mutant) the lifetime is taken for the moment of expiry.
ExpiryWithoutNow == Ttl

Expiry == clock + Ttl

Exchange(r, p, t) ==
    /\ p \in DOMAIN byProviderToken
    /\ Reach(r, "exchange", TRUE)
    /\ Sign(t, "exchange", byProviderToken[p], TRUE, Expiry)
    /\ Answered(r, "exchange", p, t, "issued")

ExchangeRefused(r, p) ==
    /\ p \notin DOMAIN byProviderToken
    /\ Reach(r, "exchange", FALSE)
    /\ Answered(r, "exchange", p, None, "unauthorized")
    /\ UNCHANGED minted

IntrospectRefused(r) ==
    /\ Reach(r, "introspect", FALSE)
    /\ Answered(r, "introspect", None, None, "unauthorized")
    /\ UNCHANGED minted

\* The secret is right: the body is awaited.
Introspect(r) ==
    /\ Reach(r, "introspect", TRUE)
    /\ request' = [request EXCEPT ![r].stage = "body", ![r].route = "introspect",
                                  ![r].began = clock]
    /\ UNCHANGED minted

\* (mutant) the time was read before the body was awaited.
UnexpiredWhenAsked(r, t) == minted[t].exp > request[r].began

\* `now` is read after the await.
Unexpired(r, t) == minted[t].exp > clock

\* Signed with this key, for this issuer and audience, and not expired.
Active(r, t) == t # None /\ minted[t].own /\ Unexpired(r, t)

\* A whole body with a token that was signed, or with none of ours.
BodyArrives(r, t) ==
    /\ request[r].stage = "body"
    /\ t # None => minted[t] # Unsigned
    /\ Answered(r, "introspect", None, t, IF Active(r, t) THEN "active" ELSE "inactive")
    /\ UNCHANGED <<phase, given, byProviderToken, clock, counts, minted>>

\* Whoever waits is not answered any more.
Dropped == [r \in Requests |-> IF request[r].stage = "body"
                               THEN [request[r] EXCEPT !.stage = "dropped", !.began = 0]
                               ELSE request[r]]

\* Too large, no JSON, or cut off: caught and answered.  Leaving the loop over a
\* body that is too large destroys its stream, and the answer may be lost with
\* the connection, although tests/shared-auth-stub.test.mjs:124-133 awaits it.
BodyRejected(r) ==
    /\ request[r].stage = "body"
    /\ \/ Answered(r, "introspect", None, None, "rejected")
       \/ request' = [request EXCEPT ![r].stage = "dropped", ![r].began = 0]
    /\ UNCHANGED <<phase, given, byProviderToken, clock, counts, minted>>

\* A body or token header that is JSON null: the access to its field throws
\* where nothing catches, and Node.js ends the process.
BodyIsNull(r) ==
    /\ request[r].stage = "body"
    /\ phase' = "crashed"
    /\ request' = [Dropped EXCEPT ![r].answer = "thrown"]
    /\ UNCHANGED <<given, byProviderToken, clock, counts, minted>>

\* closeAllConnections(): the pending awaits throw, and that is caught.
Stop ==
    /\ phase = "serving"
    /\ phase' = "stopped"
    /\ request' = Dropped
    /\ UNCHANGED <<given, byProviderToken, clock, counts, minted>>

BodyStep(r) ==
    \/ \E t \in AccessTokens \cup {None} : BodyArrives(r, t)
    \/ BodyRejected(r)
    \/ BodyIsNull(r)

RouteStep(r) ==
    \/ Jwks(r) \/ IntrospectRefused(r) \/ Introspect(r)
    \/ \E p \in ProviderTokens :
          ExchangeRefused(r, p) \/ \E t \in AccessTokens : Exchange(r, p, t)

Next ==
    \/ \E ids \in SeqOf(Identities, MaxGiven), configured \in BOOLEAN : Start(ids, configured)
    \/ \E t \in AccessTokens, i \in Identities, own \in BOOLEAN, exp \in 0 .. MaxTime :
          SignForTest(t, i, own, exp)
    \/ \E r \in Requests : RouteStep(r) \/ BodyStep(r)
    \/ Tick \/ Stop

Spec == Init /\ [][Next]_vars

-----------------------------------------------------------------------------
(* Properties.                                                              *)

\* An introspection says active of exactly the tokens that this fixture signed
\* for its own issuer and audience and that are valid at the moment of the
\* answer, however long the body took to arrive.
ActiveMeansValidNow ==
    \A r \in Requests : request[r].answer \in {"active", "inactive"} =>
        (request[r].answer = "active" <=>
            /\ request[r].token # None
            /\ minted[request[r].token].own
            /\ minted[request[r].token].exp > request[r].at)

\* An exchange issues a token of the one identity the test configured with that
\* provider token, and no token is issued twice.
ExchangeIsUnambiguous ==
    \A r \in Requests : request[r].answer = "issued" =>
        /\ \A n \in DOMAIN given : TokenOf[given[n]] = request[r].provider =>
              minted[request[r].token].who = given[n]
        /\ \A s \in Requests \ {r} :
              request[s].answer = "issued" => request[s].token # request[r].token

\* requestCounts is how many requests reached each route, whether they were let
\* in, still wait for their body, or were dropped.
CountsAreComplete ==
    \A route \in Routes :
        counts[route] = Cardinality({r \in Requests : request[r].route = route})

\* What the exchange promises, the introspection keeps: a token that was issued
\* is active for the expires_in its client was told and inactive from then on,
\* whichever request asks, however long that one waited for its body, and
\* whatever tokens were signed in between.
IssuedTokensLiveTheirTtl ==
    \A r, q \in Requests :
        /\ request[r].answer = "issued"
        /\ request[q].answer \in {"active", "inactive"}
        /\ request[q].token = request[r].token
        => (request[q].answer = "active" <=> request[q].at < request[r].at + Ttl)
=============================================================================
