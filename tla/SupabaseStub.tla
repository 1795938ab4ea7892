---------------------------- MODULE SupabaseStub ----------------------------
(***************************************************************************)
(* Sessions, factors and challenges of the stub GoTrue server              *)
(* (startStubSupabase() in src/stubs.mjs), one account record per user and *)
(* everything in memory.                                                   *)
(*                                                                         *)
(* A handler that reads no state before it awaits its body (the grants and *)
(* the OTP redemption) is one step.  The factors routes authenticate the   *)
(* bearer first and then await the body, so enrolling and verifying are two*)
(* steps, and in between tokens expire, challenges are redeemed by others  *)
(* and factors are removed.                                                *)
(***************************************************************************)
CONSTANTS
    Accounts,
    Factors,       \* names for factor ids, seeded or drawn at random
    Challenges,    \* names for challenge ids
    Sessions,      \* names for issued token pairs
    Requests,      \* names for the requests that await a body
    Seeded,        \* factors an account is configured with, already verified
    SeededOwner,   \* ... and whose they are
    None

ASSUME SupabaseAssumption ==
    /\ Seeded \subseteq Factors
    /\ SeededOwner \in [Seeded -> Accounts]
    /\ None \notin Accounts \cup Factors \cup Challenges \cup Sessions

VARIABLES
    factor,        \* id -> status and the account whose list it is in
    challenge,     \* the challenges Map, and what was taken out of it
    session,       \* every token pair that was issued
    expired,       \* sessions whose access token is past its exp
    task,          \* requests whose body has not arrived yet
    unhandled      \* a handler's promise was rejected with nobody to catch it

vars == <<factor, challenge, session, expired, task, unhandled>>

FactorStates    == {"absent", "unverified", "verified", "removed"}
ChallengeStates == {"unused", "open", "redeemed"}
Names(S)        == S \cup {None}
NoTask          == [op |-> "none", account |-> None, factor |-> None,
                    challenge |-> None, rightCode |-> FALSE]

\* What a token pair was issued for.  stepUp is the challenge that an aal2
\* session redeemed, and factorIs the status its factor had then.
SessionType ==
    [state : {"unused", "issued"}, account : Names(Accounts), aal : {"aal1", "aal2"},
     stepUp : Names(Challenges), factorIs : FactorStates]

TypeOK ==
    /\ factor    \in [Factors -> [status : FactorStates, owner : Names(Accounts)]]
    /\ challenge \in [Challenges -> [state : ChallengeStates, factor : Names(Factors),
                                     account : Names(Accounts)]]
    /\ session   \in [Sessions -> SessionType]
    /\ expired   \subseteq Sessions
    /\ task      \in [Requests -> [op : {"none", "enroll", "verify"},
                                   account : Names(Accounts), factor : Names(Factors),
                                   challenge : Names(Challenges), rightCode : BOOLEAN]]
    /\ unhandled \in BOOLEAN

Init ==
    /\ factor = [f \in Factors |->
                   IF f \in Seeded THEN [status |-> "verified", owner |-> SeededOwner[f]]
                   ELSE [status |-> "absent", owner |-> None]]
    /\ challenge = [c \in Challenges |-> [state |-> "unused", factor |-> None, account |-> None]]
    /\ session = [s \in Sessions |-> [state |-> "unused", account |-> None, aal |-> "aal1",
                                      stepUp |-> None, factorIs |-> "absent"]]
    /\ expired = {}
    /\ task = [r \in Requests |-> NoTask]
    /\ unhandled = FALSE

Issued    == {s \in Sessions : session[s].state = "issued"}
ListOf(a) == {f \in Factors : factor[f].owner = a /\ factor[f].status \in {"unverified", "verified"}}

\* accountFromBearer(): an access token that is signed and not past its exp.
Bearer(s) == s \in Issued \ expired

-----------------------------------------------------------------------------
(* Tokens.                                                                  *)

\* sessionResponse() and the body of the token grant: a new token pair.
Issue(s, a, aal, stepUp, factorIs) ==
    /\ session[s].state = "unused"
    /\ session' = [session EXCEPT ![s] = [state |-> "issued", account |-> a, aal |-> aal,
                                          stepUp |-> stepUp, factorIs |-> factorIs]]

\* The password grant with the right credentials.
PasswordGrant(s, a) ==
    /\ Issue(s, a, "aal1", None, "absent")
    /\ UNCHANGED <<factor, challenge, expired, task, unhandled>>

\* The redemption of a one-time code, with the right code and identifier.
RedeemOtp(s, a) ==
    /\ Issue(s, a, "aal1", None, "absent")
    /\ UNCHANGED <<factor, challenge, expired, task, unhandled>>

\* The refresh grant: the old refresh token stays in the Map, its age and the
\* assurance level of its session do not matter.
RefreshGrant(old, s) ==
    /\ old \in Issued
    /\ Issue(s, session[old].account, "aal1", None, "absent")
    /\ UNCHANGED <<factor, challenge, expired, task, unhandled>>

Expire(s) ==
    /\ s \in Issued \ expired
    /\ expired' = expired \cup {s}
    /\ UNCHANGED <<factor, challenge, session, task, unhandled>>

-----------------------------------------------------------------------------
(* Factors.                                                                 *)

BeginEnroll(r, s) ==
    /\ Bearer(s)
    /\ task[r] = NoTask
    /\ task' = [task EXCEPT ![r] = [NoTask EXCEPT !.op = "enroll", !.account = session[s].account]]
    /\ UNCHANGED <<factor, challenge, session, expired, unhandled>>

\* (mutant) the status has no default.
EnrollWithoutStatus(r, f) ==
    /\ task[r].op = "enroll"
    /\ factor[f].status = "absent"
    /\ factor' = [factor EXCEPT ![f] = [status |-> None, owner |-> task[r].account]]
    /\ task' = [task EXCEPT ![r] = NoTask]
    /\ UNCHANGED <<challenge, session, expired, unhandled>>

Enroll(r, f) ==
    /\ task[r].op = "enroll"
    /\ factor[f].status = "absent"
    /\ factor' = [factor EXCEPT ![f] = [status |-> "unverified", owner |-> task[r].account]]
    /\ task' = [task EXCEPT ![r] = NoTask]
    /\ UNCHANGED <<challenge, session, expired, unhandled>>

\* No body is read: one step.
Challenge(s, f, c) ==
    /\ Bearer(s)
    /\ f \in ListOf(session[s].account)
    /\ challenge[c].state = "unused"
    /\ challenge' = [challenge EXCEPT ![c] =
                       [state |-> "open", factor |-> f, account |-> session[s].account]]
    /\ UNCHANGED <<factor, session, expired, task, unhandled>>

BeginVerify(r, s, f, c, right) ==
    /\ Bearer(s)
    /\ task[r] = NoTask
    /\ task' = [task EXCEPT ![r] = [op |-> "verify", account |-> session[s].account,
                                    factor |-> f, challenge |-> c, rightCode |-> right]]
    /\ UNCHANGED <<factor, challenge, session, expired, unhandled>>

\* (mutants) a challenge of somebody else, or for another factor, will do.
RedeemableByAnyone(t) ==
    challenge[t.challenge].state = "open" /\ challenge[t.challenge].factor = t.factor
RedeemableForAny(t) ==
    challenge[t.challenge].state = "open" /\ challenge[t.challenge].account = t.account

Redeemable(t) ==
    /\ challenge[t.challenge].state = "open"
    /\ challenge[t.challenge].factor = t.factor
    /\ challenge[t.challenge].account = t.account

\* (mutant) the challenge stays in the Map.
KeepChallenge(t) == UNCHANGED challenge

ConsumeChallenge(t) == challenge' = [challenge EXCEPT ![t.challenge].state = "redeemed"]

\* The factors with the verified one marked, if it is still listed.
Marked(t) ==
    [factor EXCEPT ![t.factor].status = IF t.factor \in ListOf(t.account) THEN "verified" ELSE @]

\* The body is there: the challenge is looked up, redeemed and turned into an
\* aal2 session in one tick.
Verify(r, s) ==
    LET t == task[r] IN
    /\ t.op = "verify"
    /\ Redeemable(t) /\ t.rightCode
    /\ ConsumeChallenge(t)
    /\ factor' = Marked(t)
    /\ Issue(s, t.account, "aal2", t.challenge, factor'[t.factor].status)
    /\ task' = [task EXCEPT ![r] = NoTask]
    /\ UNCHANGED <<expired, unhandled>>

\* (mutant) the challenge is deleted before the code is compared.
VerifyRefusedSpends(r) ==
    /\ task[r].op = "verify"
    /\ ~Redeemable(task[r]) \/ ~task[r].rightCode
    /\ IF Redeemable(task[r]) THEN ConsumeChallenge(task[r]) ELSE UNCHANGED challenge
    /\ task' = [task EXCEPT ![r] = NoTask]
    /\ UNCHANGED <<factor, session, expired, unhandled>>

\* 400: the challenge is unknown or another's, or the code is wrong.  A
\* challenge survives a wrong code.
VerifyRefused(r) ==
    /\ task[r].op = "verify"
    /\ ~Redeemable(task[r]) \/ ~task[r].rightCode
    /\ task' = [task EXCEPT ![r] = NoTask]
    /\ UNCHANGED <<factor, challenge, session, expired, unhandled>>

\* The upload is cut off or is no JSON: nobody catches it.
BodyFails(r) ==
    /\ task[r] # NoTask
    /\ task' = [task EXCEPT ![r] = NoTask]
    /\ unhandled' = TRUE
    /\ UNCHANGED <<factor, challenge, session, expired>>

\* The factor leaves the list; its open challenges stay.
Unenroll(s, f) ==
    /\ Bearer(s)
    /\ f \in ListOf(session[s].account)
    /\ factor' = [factor EXCEPT ![f].status = "removed"]
    /\ UNCHANGED <<challenge, session, expired, task, unhandled>>

TokenStep ==
    \/ \E s \in Sessions, a \in Accounts : PasswordGrant(s, a) \/ RedeemOtp(s, a)
    \/ \E old, s \in Sessions : RefreshGrant(old, s)
    \/ \E s \in Sessions : Expire(s)

FactorStep ==
    \/ \E s \in Sessions, f \in Factors :
          Unenroll(s, f) \/ \E c \in Challenges : Challenge(s, f, c)
    \/ \E r \in Requests, s \in Sessions :
          \/ BeginEnroll(r, s) \/ Verify(r, s)
          \/ \E f \in Factors, c \in Challenges, right \in BOOLEAN :
                BeginVerify(r, s, f, c, right)
    \/ \E r \in Requests :
          VerifyRefused(r) \/ BodyFails(r) \/ \E f \in Factors : Enroll(r, f)

Next == TokenStep \/ FactorStep

Spec == Init /\ [][Next]_vars

-----------------------------------------------------------------------------
(* Properties.                                                              *)

SteppedUp == {s \in Issued : session[s].aal = "aal2"}

\* stubs.mjs: "A challenge is consumed by the matching /verify".  However many
\* verify requests await their bodies with the same challenge and the right
\* code, one of them gets a session.
ChallengeRedeemedOnce ==
    \A s, t \in SteppedUp : session[s].stepUp = session[t].stepUp => s = t

\* An aal2 session belongs to the account whose own factor was challenged,
\* also when the bearer token expired in between.
StepUpIsOwn ==
    \A s \in SteppedUp :
        LET c == challenge[session[s].stepUp] IN
        /\ c.state = "redeemed"
        /\ c.account = session[s].account
        /\ factor[c.factor].owner = session[s].account

\* A factor that was not configured as verified is so only because a challenge
\* for it was redeemed.
ActivationNeedsRedemption ==
    \A f \in Factors \ Seeded : factor[f].status = "verified" =>
        \E c \in Challenges : challenge[c].factor = f /\ challenge[c].state = "redeemed"

\* The other half of ChallengeRedeemedOnce: no challenge is spent for nothing.
\* Whatever wrong codes, foreign verifies and broken bodies raced for it, one
\* that was taken out of the Map was turned into a session, so a user who
\* mistyped a code can still answer the same challenge.
RedemptionGivesSession ==
    \A c \in Challenges : challenge[c].state = "redeemed" =>
        \E s \in SteppedUp : session[s].stepUp = c

\* stubs.mjs: "Verify: [...] -> mark verified + step-up session": a step-up
\* session comes with a factor that is verified when it is issued.
StepUpMarksFactor == \A s \in SteppedUp : session[s].factorIs = "verified"
=============================================================================
