------------------------- MODULE SupabaseStub_proofs -------------------------
(***************************************************************************)
(* Step-ups of the stub GoTrue server, for all sets of accounts, factors,  *)
(* challenges, sessions and requests in flight.                            *)
(*                                                                         *)
(* What carries the proof is that nothing a verify looked at before its    *)
(* await is used after it except names: a challenge that is open then      *)
(* still names its factor and its account, a factor never changes hands,   *)
(* and a redeemed challenge is never open again.                           *)
(***************************************************************************)
EXTENDS SupabaseStub, TLAPS

\* Whoever was authenticated is an account, and what a verify named exists.
NamesInv ==
    /\ \A s \in Issued : session[s].account \in Accounts
    /\ \A r \in Requests :
          /\ task[r].op # "none" => task[r].account \in Accounts
          /\ task[r].op = "verify" => task[r].factor \in Factors /\ task[r].challenge \in Challenges

\* A challenge that was opened is for a factor that was enrolled, and of the
\* account that owns it, whatever became of the factor.
ChallengeInv ==
    \A c \in Challenges : challenge[c].state # "unused" =>
        /\ challenge[c].factor \in Factors
        /\ challenge[c].account \in Accounts
        /\ factor[challenge[c].factor].owner = challenge[c].account
        /\ factor[challenge[c].factor].status # "absent"

\* A step-up session names the challenge that was redeemed for it.
StepUpInv ==
    \A s \in SteppedUp :
        /\ session[s].stepUp \in Challenges
        /\ challenge[session[s].stepUp].state = "redeemed"
        /\ challenge[session[s].stepUp].account = session[s].account

IInv ==
    /\ TypeOK
    /\ NamesInv
    /\ ChallengeInv
    /\ StepUpInv
    /\ ChallengeRedeemedOnce
    /\ ActivationNeedsRedemption

USE SupabaseAssumption DEF FactorStates, ChallengeStates, Names
-----------------------------------------------------------------------------
LEMMA InitIInv == Init => IInv
<1> SUFFICES ASSUME Init PROVE IInv
  OBVIOUS
<1>1. NoTask.op = "none"
  BY DEF NoTask
<1>2. Issued = {} /\ SteppedUp = {}
  BY DEF Init, Issued, SteppedUp
<1>3. TypeOK
  BY DEF Init, TypeOK, NoTask, SessionType
<1>4. NamesInv
  BY <1>1, <1>2 DEF Init, NamesInv
<1>5. ChallengeInv
  BY DEF Init, ChallengeInv
<1>6. StepUpInv /\ ChallengeRedeemedOnce
  BY <1>2 DEF StepUpInv, ChallengeRedeemedOnce
<1>7. ActivationNeedsRedemption
  BY DEF Init, ActivationNeedsRedemption
<1> QED
  BY <1>3, <1>4, <1>5, <1>6, <1>7 DEF IInv

\* A new token pair is the only session that changes.
LEMMA IssueFacts ==
    ASSUME TypeOK, NEW s \in Sessions, NEW a \in Accounts, NEW aal \in {"aal1", "aal2"},
           NEW stepUp \in Names(Challenges), NEW status \in FactorStates,
           Issue(s, a, aal, stepUp, status)
    PROVE  /\ session' \in [Sessions -> SessionType]
           /\ s \notin Issued
           /\ Issued' = Issued \cup {s}
           /\ SteppedUp' = IF aal = "aal2" THEN SteppedUp \cup {s} ELSE SteppedUp
           /\ session'[s].account = a /\ session'[s].stepUp = stepUp
           /\ \A t \in Issued : session'[t] = session[t]
<1>1. session \in [Sessions -> SessionType]
  BY DEF TypeOK
<1>2. session' = [session EXCEPT ![s] = [state |-> "issued", account |-> a, aal |-> aal,
                                         stepUp |-> stepUp, factorIs |-> status]]
  BY DEF Issue
<1>3. session[s].state = "unused"
  BY DEF Issue
<1>4. session' \in [Sessions -> SessionType]
  BY <1>1, <1>2 DEF SessionType
<1>5. s \notin Issued /\ Issued' = Issued \cup {s}
  BY <1>1, <1>2, <1>3 DEF Issued
<1>6. SteppedUp' = IF aal = "aal2" THEN SteppedUp \cup {s} ELSE SteppedUp
  BY <1>1, <1>2, <1>5 DEF SteppedUp, Issued
<1> QED
  BY <1>1, <1>2, <1>4, <1>5, <1>6 DEF Issued

\* The password and refresh grants: an aal1 session of an account.
LEMMA GrantKeeps ==
    ASSUME IInv, NEW s \in Sessions, NEW a \in Accounts,
           Issue(s, a, "aal1", None, "absent"), UNCHANGED <<factor, challenge, task, expired, unhandled>>
    PROVE  IInv'
<1> USE DEF IInv
<1>1. /\ session' \in [Sessions -> SessionType] /\ Issued' = Issued \cup {s}
      /\ SteppedUp' = SteppedUp /\ session'[s].account = a
      /\ \A t \in Issued : session'[t] = session[t]
  BY IssueFacts
<1>2. TypeOK'
  BY <1>1 DEF TypeOK
<1>3. NamesInv'
  BY <1>1 DEF NamesInv
<1>4. ChallengeInv' /\ ActivationNeedsRedemption'
  BY DEF ChallengeInv, ActivationNeedsRedemption
<1>5. SteppedUp \subseteq Issued
  BY DEF SteppedUp
<1>6. StepUpInv' /\ ChallengeRedeemedOnce'
  BY <1>1, <1>5 DEF StepUpInv, ChallengeRedeemedOnce
<1> QED
  BY <1>2, <1>3, <1>4, <1>6

\* Whatever changes only tasks, expiry and the unhandled rejection.
LEMMA TaskKeeps ==
    ASSUME IInv, TypeOK', UNCHANGED <<factor, challenge, session>>,
           \A r \in Requests : \/ task'[r] = task[r]
                               \/ task'[r].op = "none"
                               \/ /\ task'[r].account \in Accounts
                                  /\ task'[r].op = "verify" =>
                                        task'[r].factor \in Factors /\ task'[r].challenge \in Challenges
    PROVE  IInv'
<1>1. Issued' = Issued /\ SteppedUp' = SteppedUp
  BY DEF Issued, SteppedUp
<1>2. NamesInv'
  BY <1>1 DEF IInv, NamesInv
<1>3. ChallengeInv' /\ ActivationNeedsRedemption'
  BY DEF IInv, ChallengeInv, ActivationNeedsRedemption
<1>4. StepUpInv' /\ ChallengeRedeemedOnce'
  BY <1>1 DEF IInv, StepUpInv, ChallengeRedeemedOnce
<1> QED
  BY <1>2, <1>3, <1>4 DEF IInv

\* The steps that await and end the await of a body.
LEMMA TaskStep ==
    ASSUME IInv, NEW r \in Requests,
           \/ VerifyRefused(r) \/ BodyFails(r)
           \/ \E s \in Sessions :
                 \/ BeginEnroll(r, s)
                 \/ \E f \in Factors, c \in Challenges, right \in BOOLEAN : BeginVerify(r, s, f, c, right)
    PROVE  IInv'
<1>1. NoTask.op = "none"
  BY DEF NoTask
<1>2. CASE VerifyRefused(r) \/ BodyFails(r)
  <2>a. unhandled' \in BOOLEAN
    BY <1>2 DEF IInv, TypeOK, VerifyRefused, BodyFails
  <2>b. task' = [task EXCEPT ![r] = NoTask] /\ UNCHANGED expired
    BY <1>2 DEF VerifyRefused, BodyFails
  <2>2. UNCHANGED <<factor, challenge, session>>
    BY <1>2 DEF VerifyRefused, BodyFails
  <2>1. TypeOK'
    BY <2>a, <2>b, <2>2 DEF IInv, TypeOK, NoTask
  <2>3. \A q \in Requests : task'[q] = task[q] \/ task'[q].op = "none"
    BY <1>1, <1>2 DEF IInv, TypeOK, VerifyRefused, BodyFails
  <2> QED
    BY <2>1, <2>2, <2>3, TaskKeeps
<1>3. ASSUME NEW s \in Sessions, BeginEnroll(r, s) PROVE IInv'
  <2>1. session[s].account \in Accounts
    BY <1>3 DEF IInv, NamesInv, BeginEnroll, Bearer
  <2>2. TypeOK'
    BY <1>3, <2>1 DEF IInv, TypeOK, BeginEnroll, NoTask
  <2>3. /\ task'[r].op = "enroll" /\ task'[r].account = session[s].account
        /\ \A q \in Requests \ {r} : task'[q] = task[q]
    BY <1>3 DEF IInv, TypeOK, BeginEnroll, NoTask
  <2>4. UNCHANGED <<factor, challenge, session>>
    BY <1>3 DEF BeginEnroll
  <2> QED
    BY <2>1, <2>2, <2>3, <2>4, TaskKeeps
<1>4. ASSUME NEW s \in Sessions, NEW f \in Factors, NEW c \in Challenges, NEW right \in BOOLEAN,
             BeginVerify(r, s, f, c, right)
      PROVE  IInv'
  <2>1. session[s].account \in Accounts
    BY <1>4 DEF IInv, NamesInv, BeginVerify, Bearer
  <2>2. TypeOK'
    BY <1>4, <2>1 DEF IInv, TypeOK, BeginVerify
  <2>3. /\ task'[r].account = session[s].account /\ task'[r].factor = f /\ task'[r].challenge = c
        /\ \A q \in Requests \ {r} : task'[q] = task[q]
    BY <1>4 DEF IInv, TypeOK, BeginVerify
  <2>4. UNCHANGED <<factor, challenge, session>>
    BY <1>4 DEF BeginVerify
  <2> QED
    BY <2>1, <2>2, <2>3, <2>4, TaskKeeps
<1> QED
  BY <1>2, <1>3, <1>4

\* A factor that is enrolled was absent, so no challenge is about it.
LEMMA EnrollStep ==
    ASSUME IInv, NEW r \in Requests, NEW f \in Factors, Enroll(r, f)
    PROVE  IInv'
<1> USE DEF IInv
<1>1. /\ task[r].account \in Accounts /\ factor[f].status = "absent"
      /\ factor' = [factor EXCEPT ![f] = [status |-> "unverified", owner |-> task[r].account]]
      /\ task' = [task EXCEPT ![r] = NoTask]
      /\ UNCHANGED <<challenge, session, expired, unhandled>>
  BY DEF Enroll, NamesInv
<1>2. TypeOK'
  BY <1>1 DEF TypeOK, NoTask
<1>3. Issued' = Issued /\ SteppedUp' = SteppedUp
  BY <1>1 DEF Issued, SteppedUp
<1>4. NamesInv'
  BY <1>1, <1>3 DEF NamesInv, TypeOK, NoTask
<1>5. \A g \in Factors \ {f} : factor'[g] = factor[g]
  BY <1>1 DEF TypeOK
<1>6. factor'[f].status = "unverified"
  BY <1>1 DEF TypeOK
<1>7. ChallengeInv'
  BY <1>1, <1>5 DEF ChallengeInv
<1>8. StepUpInv' /\ ChallengeRedeemedOnce'
  BY <1>1, <1>3 DEF StepUpInv, ChallengeRedeemedOnce
<1>9. ActivationNeedsRedemption'
  BY <1>1, <1>5, <1>6 DEF ActivationNeedsRedemption
<1> QED
  BY <1>2, <1>4, <1>7, <1>8, <1>9

\* A challenge is opened on a factor of the account that asks for it.
LEMMA ChallengeStep ==
    ASSUME IInv, NEW s \in Sessions, NEW f \in Factors, NEW c \in Challenges, Challenge(s, f, c)
    PROVE  IInv'
<1> USE DEF IInv
<1>1. /\ session[s].account \in Accounts
      /\ factor[f].owner = session[s].account /\ factor[f].status # "absent"
      /\ challenge[c].state = "unused"
      /\ challenge' = [challenge EXCEPT ![c] =
                          [state |-> "open", factor |-> f, account |-> session[s].account]]
      /\ UNCHANGED <<factor, session, expired, task, unhandled>>
  BY DEF Challenge, NamesInv, Bearer, ListOf
<1>2. TypeOK'
  BY <1>1 DEF TypeOK
<1>3. Issued' = Issued /\ SteppedUp' = SteppedUp
  BY <1>1 DEF Issued, SteppedUp
<1>4. NamesInv' /\ ChallengeRedeemedOnce'
  BY <1>1, <1>3 DEF NamesInv, ChallengeRedeemedOnce
<1>5. /\ challenge'[c] = [state |-> "open", factor |-> f, account |-> session[s].account]
      /\ \A d \in Challenges \ {c} : challenge'[d] = challenge[d]
  BY <1>1 DEF TypeOK
<1>6. ChallengeInv'
  BY <1>1, <1>5 DEF ChallengeInv
<1>7. StepUpInv'
  BY <1>1, <1>3, <1>5 DEF StepUpInv
<1>8. ActivationNeedsRedemption'
  BY <1>1, <1>5 DEF ActivationNeedsRedemption
<1> QED
  BY <1>2, <1>4, <1>6, <1>7, <1>8

\* A factor that leaves the list keeps its owner.
LEMMA UnenrollStep ==
    ASSUME IInv, NEW s \in Sessions, NEW f \in Factors, Unenroll(s, f)
    PROVE  IInv'
<1> USE DEF IInv
<1>1. /\ factor' = [factor EXCEPT ![f].status = "removed"]
      /\ UNCHANGED <<challenge, session, expired, task, unhandled>>
  BY DEF Unenroll
<1>2. TypeOK'
  BY <1>1 DEF TypeOK
<1>3. Issued' = Issued /\ SteppedUp' = SteppedUp
  BY <1>1 DEF Issued, SteppedUp
<1>4. NamesInv' /\ ChallengeRedeemedOnce' /\ StepUpInv'
  BY <1>1, <1>3 DEF NamesInv, ChallengeRedeemedOnce, StepUpInv
<1>5. /\ factor'[f].status = "removed" /\ factor'[f].owner = factor[f].owner
      /\ \A g \in Factors \ {f} : factor'[g] = factor[g]
  BY <1>1 DEF TypeOK
<1>6. ChallengeInv' /\ ActivationNeedsRedemption'
  BY <1>1, <1>5 DEF ChallengeInv, ActivationNeedsRedemption
<1> QED
  BY <1>2, <1>4, <1>6

\* What the matching verify does to the factor, the challenge and the sessions.
LEMMA VerifyFacts ==
    ASSUME IInv, NEW r \in Requests, NEW s \in Sessions, Verify(r, s)
    PROVE  LET t == task[r] IN
           /\ t.account \in Accounts /\ t.factor \in Factors /\ t.challenge \in Challenges
           /\ challenge[t.challenge].state = "open"
           /\ challenge[t.challenge].factor = t.factor /\ challenge[t.challenge].account = t.account
           /\ challenge' = [challenge EXCEPT ![t.challenge].state = "redeemed"]
           /\ factor' = [factor EXCEPT ![t.factor].status =
                            IF t.factor \in ListOf(t.account) THEN "verified" ELSE @]
           /\ factor'[t.factor].status \in FactorStates
           /\ Issue(s, t.account, "aal2", t.challenge, factor'[t.factor].status)
           /\ task' = [task EXCEPT ![r] = NoTask]
           /\ UNCHANGED <<expired, unhandled>>
<1>1. task[r].account \in Accounts /\ task[r].factor \in Factors /\ task[r].challenge \in Challenges
  BY DEF IInv, NamesInv, Verify
<1>2. factor' = [factor EXCEPT ![task[r].factor].status =
                    IF task[r].factor \in ListOf(task[r].account) THEN "verified" ELSE @]
  BY DEF Verify, Marked
<1>3. factor'[task[r].factor].status \in FactorStates
  BY <1>1, <1>2 DEF IInv, TypeOK
<1> QED
  BY <1>1, <1>2, <1>3 DEF Verify, Redeemable, ConsumeChallenge

\* The matching verify: the challenge was open, so no session names it yet.
LEMMA VerifyStep ==
    ASSUME IInv, NEW r \in Requests, NEW s \in Sessions, Verify(r, s)
    PROVE  IInv'
<1> USE DEF IInv
<1> DEFINE t == task[r]
<1>1. /\ t.account \in Accounts /\ t.factor \in Factors /\ t.challenge \in Challenges
      /\ challenge[t.challenge].state = "open"
      /\ challenge[t.challenge].factor = t.factor /\ challenge[t.challenge].account = t.account
      /\ challenge' = [challenge EXCEPT ![t.challenge].state = "redeemed"]
      /\ factor' = [factor EXCEPT ![t.factor].status =
                       IF t.factor \in ListOf(t.account) THEN "verified" ELSE @]
      /\ factor'[t.factor].status \in FactorStates
      /\ Issue(s, t.account, "aal2", t.challenge, factor'[t.factor].status)
      /\ task' = [task EXCEPT ![r] = NoTask]
      /\ UNCHANGED <<expired, unhandled>>
  BY VerifyFacts
<1>2. /\ session' \in [Sessions -> SessionType]
      /\ s \notin Issued /\ Issued' = Issued \cup {s} /\ SteppedUp' = SteppedUp \cup {s}
      /\ session'[s].account = t.account /\ session'[s].stepUp = t.challenge
      /\ \A u \in Issued : session'[u] = session[u]
  BY <1>1, IssueFacts
<1> HIDE DEF t
<1>3. /\ challenge' \in [Challenges -> [state : ChallengeStates, factor : Names(Factors),
                                        account : Names(Accounts)]]
      /\ challenge'[t.challenge].state = "redeemed"
      /\ challenge'[t.challenge].factor = t.factor /\ challenge'[t.challenge].account = t.account
      /\ \A d \in Challenges \ {t.challenge} : challenge'[d] = challenge[d]
  BY <1>1 DEF TypeOK
<1>4. /\ factor' \in [Factors -> [status : FactorStates, owner : Names(Accounts)]]
      /\ factor'[t.factor].owner = factor[t.factor].owner
      /\ factor'[t.factor].status \in {factor[t.factor].status, "verified"}
      /\ \A g \in Factors \ {t.factor} : factor'[g] = factor[g]
  <2>1. PICK status \in {factor[t.factor].status, "verified"} :
           factor' = [factor EXCEPT ![t.factor].status = status]
    BY <1>1
  <2>2. factor \in [Factors -> [status : FactorStates, owner : Names(Accounts)]] /\ t.factor \in Factors
    BY <1>1 DEF TypeOK
  <2>3. status \in FactorStates
    BY <2>2
  <2> QED
    BY <2>1, <2>2, <2>3
<1>5. task' \in [Requests -> [op : {"none", "enroll", "verify"},
                              account : Names(Accounts), factor : Names(Factors),
                              challenge : Names(Challenges), rightCode : BOOLEAN]]
  BY <1>1 DEF TypeOK, NoTask
<1>6. TypeOK'
  BY <1>1, <1>2, <1>3, <1>4, <1>5 DEF TypeOK
<1>7. NamesInv'
  <2>1. task'[r].op = "none" /\ \A q \in Requests \ {r} : task'[q] = task[q]
    BY <1>1 DEF TypeOK, NoTask
  <2> QED
    BY <1>1, <1>2, <2>1 DEF NamesInv
<1>8. ChallengeInv'
  <2> SUFFICES ASSUME NEW c \in Challenges, challenge'[c].state # "unused"
               PROVE  /\ challenge'[c].factor \in Factors
                      /\ challenge'[c].account \in Accounts
                      /\ factor'[challenge'[c].factor].owner = challenge'[c].account
                      /\ factor'[challenge'[c].factor].status # "absent"
    BY DEF ChallengeInv
  <2>1. /\ challenge[c].state # "unused"
        /\ challenge'[c].factor = challenge[c].factor
        /\ challenge'[c].account = challenge[c].account
    BY <1>1, <1>3
  <2> QED
    BY <1>4, <2>1 DEF ChallengeInv
<1>9. SteppedUp \subseteq Issued
  BY DEF SteppedUp
<1>10. StepUpInv'
  BY <1>1, <1>2, <1>3, <1>9 DEF StepUpInv
<1>11. ChallengeRedeemedOnce'
  <2>1. \A u \in SteppedUp : session[u].stepUp # t.challenge
    BY <1>1 DEF StepUpInv
  <2> QED
    BY <1>2, <1>9, <2>1 DEF ChallengeRedeemedOnce
<1>12. ActivationNeedsRedemption'
  <2> SUFFICES ASSUME NEW f \in Factors \ Seeded, factor'[f].status = "verified"
               PROVE  \E c \in Challenges : challenge'[c].factor = f /\ challenge'[c].state = "redeemed"
    BY DEF ActivationNeedsRedemption
  <2>1. CASE f = t.factor
    BY <1>1, <1>3, <2>1
  <2>2. CASE f # t.factor
    <3>1. PICK c \in Challenges : challenge[c].factor = f /\ challenge[c].state = "redeemed"
      BY <1>4, <2>2 DEF ActivationNeedsRedemption
    <3> QED
      BY <1>1, <1>3, <3>1
  <2> QED
    BY <2>1, <2>2
<1> QED
  BY <1>6, <1>7, <1>8, <1>10, <1>11, <1>12

LEMMA StepIInv == IInv /\ [Next]_vars => IInv'
<1> SUFFICES ASSUME IInv, [Next]_vars PROVE IInv'
  OBVIOUS
<1>1. ASSUME NEW s \in Sessions, NEW a \in Accounts, PasswordGrant(s, a) \/ RedeemOtp(s, a)
      PROVE  IInv'
  BY <1>1, GrantKeeps DEF PasswordGrant, RedeemOtp
<1>2. ASSUME NEW old \in Sessions, NEW s \in Sessions, RefreshGrant(old, s) PROVE IInv'
  <2>1. session[old].account \in Accounts
    BY <1>2 DEF IInv, NamesInv, RefreshGrant
  <2> QED
    BY <1>2, <2>1, GrantKeeps DEF RefreshGrant
<1>3. ASSUME NEW s \in Sessions, Expire(s) PROVE IInv'
  <2>1. TypeOK'
    BY <1>3 DEF IInv, TypeOK, Expire
  <2> QED
    BY <1>3, <2>1, TaskKeeps DEF Expire
<1>4. CASE UNCHANGED vars
  <2>1. TypeOK'
    BY <1>4 DEF IInv, TypeOK, vars
  <2> QED
    BY <1>4, <2>1, TaskKeeps DEF vars
<1> QED
  BY <1>1, <1>2, <1>3, <1>4, TaskStep, EnrollStep, ChallengeStep, UnenrollStep, VerifyStep
  DEF Next, TokenStep, FactorStep

-----------------------------------------------------------------------------
\* The invariant holds of every state of the stub.
THEOREM Invariance == Spec => []IInv
<1> QED
  BY InitIInv, StepIInv, PTL DEF Spec

\* Factors, challenges, sessions and pending requests stay well formed.
THEOREM TypeCorrect == Spec => []TypeOK
<1>1. IInv => TypeOK
  BY DEF IInv
<1> QED
  BY <1>1, Invariance, PTL

\* However many verify requests await their bodies with one challenge, at most
\* one of them becomes an aal2 session.
THEOREM OneSessionPerChallenge == Spec => []ChallengeRedeemedOnce
<1>1. IInv => ChallengeRedeemedOnce
  BY DEF IInv
<1> QED
  BY <1>1, Invariance, PTL

\* An aal2 session belongs to the account whose own factor was challenged.
THEOREM StepUpsAreOwn == Spec => []StepUpIsOwn
<1>1. IInv => StepUpIsOwn
  BY DEF IInv, StepUpInv, ChallengeInv, StepUpIsOwn
<1> QED
  BY <1>1, Invariance, PTL

\* A factor that was not configured as verified became so by a redemption.
THEOREM ActivationIsEarned == Spec => []ActivationNeedsRedemption
<1>1. IInv => ActivationNeedsRedemption
  BY DEF IInv
<1> QED
  BY <1>1, Invariance, PTL

\* A session is for good, so what a redemption was turned into is there to stay.
LEMMA SessionsStay ==
    ASSUME IInv, Next
    PROVE  \A s \in SteppedUp : s \in SteppedUp' /\ session'[s].stepUp = session[s].stepUp
<1>1. SteppedUp \subseteq Issued
  BY DEF SteppedUp
<1>2. CASE UNCHANGED session
  BY <1>2 DEF SteppedUp, Issued
<1>3. ASSUME NEW s \in Sessions, NEW a \in Accounts, Issue(s, a, "aal1", None, "absent")
      PROVE  \A u \in SteppedUp : u \in SteppedUp' /\ session'[u].stepUp = session[u].stepUp
  <2>1. SteppedUp' = SteppedUp /\ \A u \in Issued : session'[u] = session[u]
    BY <1>3, IssueFacts DEF IInv
  <2> QED
    BY <1>1, <2>1
<1>4. ASSUME NEW r \in Requests, NEW s \in Sessions, Verify(r, s)
      PROVE  \A u \in SteppedUp : u \in SteppedUp' /\ session'[u].stepUp = session[u].stepUp
  <2>1. /\ task[r].account \in Accounts /\ task[r].challenge \in Challenges
        /\ factor'[task[r].factor].status \in FactorStates
        /\ Issue(s, task[r].account, "aal2", task[r].challenge, factor'[task[r].factor].status)
    BY <1>4, VerifyFacts
  <2>2. SteppedUp' = SteppedUp \cup {s} /\ \A u \in Issued : session'[u] = session[u]
    BY <2>1, IssueFacts DEF IInv
  <2> QED
    BY <1>1, <2>2
<1>5. ASSUME NEW old \in Sessions, NEW s \in Sessions, RefreshGrant(old, s)
      PROVE  session[old].account \in Accounts
  BY <1>5 DEF IInv, NamesInv, RefreshGrant
<1> QED
  BY <1>2, <1>3, <1>4, <1>5
  DEF Next, TokenStep, FactorStep, PasswordGrant, RedeemOtp, RefreshGrant, Expire, BeginEnroll, Enroll,
      BeginVerify, Challenge, VerifyRefused, BodyFails, Unenroll

\* A challenge is taken out of the Map only by the verify that issues a session
\* for it: neither a wrong code nor a broken body spends one.
THEOREM RedemptionsArePaid == Spec => []RedemptionGivesSession
<1>1. Init => RedemptionGivesSession
  BY DEF Init, RedemptionGivesSession
<1>2. ASSUME IInv, RedemptionGivesSession, [Next]_vars PROVE RedemptionGivesSession'
  <2>1. CASE UNCHANGED vars
    BY <1>2, <2>1 DEF RedemptionGivesSession, SteppedUp, Issued, vars
  <2>2. CASE Next
    <3> SUFFICES ASSUME NEW c \in Challenges, challenge'[c].state = "redeemed"
                 PROVE  \E s \in SteppedUp' : session'[s].stepUp = c
      BY DEF RedemptionGivesSession
    <3>1. \A s \in SteppedUp : s \in SteppedUp' /\ session'[s].stepUp = session[s].stepUp
      BY <1>2, <2>2, SessionsStay
    <3>2. CASE challenge[c].state = "redeemed"
      BY <1>2, <3>1, <3>2 DEF RedemptionGivesSession
    <3>3. ASSUME NEW r \in Requests, NEW s \in Sessions, Verify(r, s),
                 challenge[c].state # "redeemed"
          PROVE  \E u \in SteppedUp' : session'[u].stepUp = c
      <4>1. /\ task[r].account \in Accounts /\ task[r].challenge \in Challenges
            /\ challenge' = [challenge EXCEPT ![task[r].challenge].state = "redeemed"]
            /\ factor'[task[r].factor].status \in FactorStates
            /\ Issue(s, task[r].account, "aal2", task[r].challenge,
                     factor'[task[r].factor].status)
        BY <1>2, <3>3, VerifyFacts
      <4>2. c = task[r].challenge
        BY <1>2, <3>3, <4>1 DEF IInv, TypeOK
      <4> QED
        BY <1>2, <4>1, <4>2, IssueFacts DEF IInv
    <3>4. ASSUME NEW s \in Sessions, NEW f \in Factors, NEW d \in Challenges, Challenge(s, f, d),
                 challenge[c].state # "redeemed"
          PROVE  FALSE
      BY <1>2, <3>4 DEF Challenge, IInv, TypeOK
    <3> QED
      BY <2>2, <3>2, <3>3, <3>4
      DEF Next, TokenStep, FactorStep, PasswordGrant, RedeemOtp, RefreshGrant, Expire, BeginEnroll, Enroll,
          BeginVerify, VerifyRefused, BodyFails, Unenroll
  <2> QED
    BY <1>2, <2>1, <2>2
<1> QED
  BY <1>1, <1>2, Invariance, PTL DEF Spec
=============================================================================
