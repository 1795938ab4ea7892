--------------------------- MODULE Harness_proofs ---------------------------
(***************************************************************************)
(* The safety of stop() for every tree of processes, every set of callers  *)
(* and every choice of the hazards Harness.tla is parameterised by.        *)
(*                                                                         *)
(* The heart of the argument is that a group without members never gets    *)
(* one again once the server was spawned (GoneStaysGone), so what the last *)
(* look of a round saw still holds when the promise's reactions run and    *)
(* when the callers resume.  The rest of the inductive invariant says which*)
(* attempt is in flight in which phase, and that stop() hands out only it. *)
(***************************************************************************)
EXTENDS Harness, TLAPS

\* Which attempt runs in which phase of startServer().
AttemptInv ==
    /\ phase \notin {"cleanup", "ready"} => \A a \in Attempts : pc[a] = "idle"
    /\ phase = "cleanup" => OneAttempt
    /\ phase = "ready" => \A a \in Attempts : pc[a] # "idle" <=> stopPromise = a
    /\ phase # "ready" => stopPromise = NoAttempt /\ ~stopped

\* Whom the callers wait for, and what a resolved one may rely on.
CallerInv ==
    /\ \A c \in Callers : caller[c] \in Attempts => caller[c] = stopPromise
    /\ phase = "ready" => \A c \in Callers : caller[c] = "resolved" => stopped
    /\ phase \notin {"ready", "reused"} => \A c \in Callers : caller[c] = "idle"

\* Where the code takes the group to be gone, it is.
GoneInv ==
    /\ phase \in {"called", "reused", "rejected"} => ~GroupAlive
    /\ stopped => ~GroupAlive
    /\ \A a \in Attempts : pc[a] \in {"fulfilled", "then"} => ~GroupAlive
    /\ \A a \in Attempts : pc[a] = "then" => stopped

\* SIGKILL is next only when the grace period is over.
GraceInv ==
    \A a \in Attempts :
        /\ pc[a] = "probe" => signal[a] = "SIGTERM"
        /\ pc[a] = "final" => late[a] \/ ~GroupAlive
        /\ pc[a] = "send" /\ signal[a] = "SIGKILL" => late[a]

IInv == TypeOK /\ AttemptInv /\ CallerInv /\ GoneInv /\ GraceInv

USE DEF SyncSteps, Steps, Outcomes, Phases, ProcStates
-----------------------------------------------------------------------------
\* Every step keeps every variable in its type.
LEMMA TypeStep == TypeOK /\ [Next]_vars => TypeOK'
<1> SUFFICES ASSUME TypeOK, [Next]_vars PROVE TypeOK'
  OBVIOUS
<1> USE LeaderAssumption, AttemptAssumption DEF TypeOK, startVars, osVars, termVars, stopVars
<1>1. CASE KernelStep
  BY <1>1 DEF KernelStep, ReapLeader, Fork, Escape, Exit, Reap, Turn
<1>2. CASE StartStep
  <2>1. CASE StartupFails
    BY <2>1 DEF StartupFails, Enter, Begin
  <2>2. CASE Reuse \/ Spawn \/ SpawnErrorEvent \/ Fetch
    BY <2>2 DEF Enter, Reuse, Spawn, SpawnErrorEvent, Fetch
  <2>3. CASE FetchOk \/ FetchNotOk \/ Delay
    BY <2>3 DEF Enter, FetchOk, FetchNotOk, Delay
  <2> QED
    BY <1>2, <2>1, <2>2, <2>3 DEF StartStep
<1>3. CASE StartupDeadline
  BY <1>3 DEF StartupDeadline
<1>4. ASSUME NEW a \in Attempts, AttemptStep(a) \/ RoundDeadline(a)
      PROVE  TypeOK'
  <2>1. CASE Probe(a) \/ Poll(a) \/ Sleep(a)
    BY <2>1 DEF Probe, Poll, Sleep, Goto, Go, Enter
  <2>2. CASE Send(a)
    BY <2>2 DEF Send, Goto, Go, Enter
  <2>3. CASE Final(a) \/ CleanupSettles(a)
    BY <2>3 DEF Final, CleanupSettles, Goto, Go, Enter
  <2>4. CASE Then(a)
    BY <2>4 DEF Then, Goto, Go, Enter
  <2>6. CASE Finally(a)
    <3>1. caller' \in [Callers -> Attempts \cup Outcomes]
      BY <2>6 DEF Goto, Finally
    <3>2. pc' \in [Attempts -> Steps] /\ stopPromise' \in Attempts \cup {NoAttempt}
      BY <2>6 DEF Goto, Finally
    <3> QED
      BY <2>6, <3>1, <3>2 DEF Goto, Finally
  <2>5. CASE RoundDeadline(a)
    BY <2>5 DEF RoundDeadline
  <2> QED
    BY <1>4, <2>1, <2>2, <2>3, <2>4, <2>5, <2>6 DEF AttemptStep
<1>5. ASSUME NEW c \in Callers, StopCall(c)
      PROVE  TypeOK'
  <2>1. CASE StopReturns(c)
    BY <2>1 DEF StopReturns
  <2>2. CASE StopJoins(c)
    BY <2>2 DEF StopJoins
  <2>3. CASE StopBegins(c)
    BY <2>3 DEF StopBegins, Begin
  <2> QED
    BY <1>5, <2>1, <2>2, <2>3 DEF StopCall
<1>6. CASE UNCHANGED vars
  BY <1>6 DEF vars
<1> QED
  BY <1>1, <1>2, <1>3, <1>4, <1>5, <1>6 DEF Next

\* A group without members stays without members: only a member forks one.
LEMMA GoneStaysGone ==
    ASSUME TypeOK, [Next]_vars, phase # "called", ~GroupAlive
    PROVE  ~GroupAlive'
<1> USE LeaderAssumption DEF TypeOK, startVars, osVars, termVars, stopVars, GroupAlive, Members
<1>1. CASE KernelStep
  BY <1>1 DEF KernelStep, ReapLeader, Fork, Escape, Exit, Reap, Turn
<1>2. CASE StartStep
  BY <1>2 DEF StartStep, Enter, Reuse, Spawn, SpawnErrorEvent, StartupFails, Fetch, FetchOk, FetchNotOk, Delay
<1>3. CASE StartupDeadline
  BY <1>3 DEF StartupDeadline
<1>4. ASSUME NEW a \in Attempts, AttemptStep(a) \/ RoundDeadline(a)
      PROVE  ~GroupAlive'
  BY <1>4 DEF AttemptStep, Goto, Go, Enter, RoundDeadline, Probe, Send, Poll, Sleep, Final, CleanupSettles, Then, Finally
<1>5. ASSUME NEW c \in Callers, StopCall(c)
      PROVE  ~GroupAlive'
  BY <1>5 DEF StopCall, StopReturns, StopJoins, StopBegins
<1>6. CASE UNCHANGED vars
  BY <1>6 DEF vars
<1> QED
  BY <1>1, <1>2, <1>3, <1>4, <1>5, <1>6 DEF Next

\* The invariant holds before startServer() is called.
LEMMA InitIInv == Init => IInv
BY AttemptAssumption DEF Init, IInv, TypeOK, AttemptInv, CallerInv, GoneInv, GraceInv,
   OneAttempt, Active, GroupAlive, Members

\* Every step keeps the inductive invariant.
LEMMA StepIInv == IInv /\ [Next]_vars => IInv'
<1> SUFFICES ASSUME IInv, [Next]_vars PROVE AttemptInv' /\ CallerInv' /\ GoneInv' /\ GraceInv'
  BY TypeStep DEF IInv
<1>0. TypeOK /\ TypeOK'
  BY TypeStep DEF IInv
<1>g. phase # "called" /\ ~GroupAlive => ~GroupAlive'
  BY <1>0, GoneStaysGone
<1> USE LeaderAssumption, AttemptAssumption DEF IInv, startVars, osVars, termVars, stopVars
<1>1. CASE KernelStep
  <2>1. UNCHANGED <<phase, pc, signal, late, stopped, stopPromise, caller>>
    BY <1>1 DEF KernelStep, ReapLeader, Fork, Escape, Exit, Reap, Turn
  <2>2. ~GroupAlive => ~GroupAlive'
    BY <1>1, <1>0 DEF KernelStep, ReapLeader, Fork, Escape, Exit, Reap, Turn, TypeOK, GroupAlive, Members
  <2>3. AttemptInv' /\ CallerInv'
    BY <2>1 DEF AttemptInv, CallerInv, OneAttempt, Active
  <2>4. GoneInv' /\ GraceInv'
    BY <2>1, <2>2 DEF GoneInv, GraceInv
  <2> QED
    BY <2>3, <2>4
<1>2. CASE StartStep
  <2>1. CASE StartupFails
    <3>1. AttemptInv'
      BY <2>1, <1>0 DEF StartupFails, Enter, Begin, TypeOK, AttemptInv, OneAttempt, Active
    <3>2. CallerInv'
      BY <2>1 DEF StartupFails, Enter, CallerInv
    <3>3. GoneInv'
      BY <2>1, <1>0, <1>g DEF StartupFails, Enter, Begin, TypeOK, GoneInv, AttemptInv
    <3>4. GraceInv'
      BY <2>1, <1>0, <1>g DEF StartupFails, Enter, Begin, TypeOK, GraceInv, AttemptInv
    <3> QED
      BY <3>1, <3>2, <3>3, <3>4
  <2>2. CASE Spawn
    BY <2>2, <1>0 DEF Enter, Spawn, TypeOK, AttemptInv, CallerInv, GoneInv, GraceInv, OneAttempt, Active
  <2>3. CASE Reuse \/ SpawnErrorEvent \/ Fetch \/ FetchOk \/ FetchNotOk \/ Delay
    <3>1. /\ UNCHANGED <<proc, pc, signal, late, stopped, stopPromise, caller>>
          /\ phase' = phase \/ (phase' \in {"fetch", "delay", "check", "ready"} /\ phase \in {"check", "fetch", "delay"})
                            \/ (phase = "called" /\ phase' = "reused")
      BY <2>3 DEF Enter, Reuse, SpawnErrorEvent, Fetch, FetchOk, FetchNotOk, Delay
    <3>2. GroupAlive' = GroupAlive
      BY <3>1 DEF GroupAlive, Members
    <3>3. AttemptInv'
      BY <3>1, <1>0 DEF AttemptInv, OneAttempt, Active, TypeOK
    <3>4. CallerInv' /\ GoneInv' /\ GraceInv'
      BY <3>1, <3>2, <1>0 DEF CallerInv, GoneInv, GraceInv, TypeOK
    <3> QED
      BY <3>3, <3>4
  <2> QED
    BY <1>2, <2>1, <2>2, <2>3 DEF StartStep
<1>3. CASE StartupDeadline
  BY <1>3 DEF StartupDeadline, AttemptInv, CallerInv, GoneInv, GraceInv, OneAttempt, Active, GroupAlive, Members
<1>4. ASSUME NEW a \in Attempts, AttemptStep(a) \/ RoundDeadline(a)
      PROVE  AttemptInv' /\ CallerInv' /\ GoneInv' /\ GraceInv'
  <2>1. CASE Probe(a) \/ Send(a) \/ Poll(a) \/ Sleep(a) \/ Final(a) \/ RoundDeadline(a)
    <3>1. /\ UNCHANGED <<phase, proc, stopped, stopPromise, caller>>
          /\ pc[a] # "idle" /\ pc'[a] # "idle" /\ pc'[a] # "then"
          /\ \A b \in Attempts \ {a} : pc'[b] = pc[b] /\ signal'[b] = signal[b] /\ late'[b] = late[b]
      BY <2>1, <1>0 DEF Probe, Send, Poll, Sleep, Final, RoundDeadline, Goto, Go, Enter, TypeOK
    <3>2. GroupAlive' = GroupAlive
      BY <3>1 DEF GroupAlive, Members
    <3>3. pc'[a] = "fulfilled" => ~GroupAlive
      BY <2>1, <1>0 DEF Probe, Send, Poll, Sleep, Final, RoundDeadline, Goto, Go, Enter, TypeOK
    <3>4. AttemptInv'
      BY <3>1, <1>0 DEF AttemptInv, OneAttempt, Active, TypeOK
    <3>5. CallerInv'
      BY <3>1 DEF CallerInv
    <3>6. GoneInv'
      BY <3>1, <3>2, <3>3 DEF GoneInv
    <3>7. /\ pc'[a] = "probe" => signal'[a] = "SIGTERM"
          /\ pc'[a] = "final" => late'[a] \/ ~GroupAlive
          /\ pc'[a] = "send" /\ signal'[a] = "SIGKILL" => late'[a]
      BY <2>1, <1>0 DEF Probe, Send, Poll, Sleep, Final, RoundDeadline, Goto, Go, Enter, TypeOK, GraceInv, AttemptInv
    <3> QED
      BY <3>1, <3>2, <3>4, <3>5, <3>6, <3>7 DEF GraceInv
  <2>2. CASE CleanupSettles(a)
    <3>1. AttemptInv'
      BY <2>2, <1>0 DEF CleanupSettles, Goto, Go, Enter, TypeOK, AttemptInv, OneAttempt, Active
    <3>2. CallerInv'
      BY <2>2, <1>0 DEF CleanupSettles, Goto, Enter, TypeOK, CallerInv
    <3>3. GoneInv' /\ GraceInv'
      BY <2>2, <1>0, <1>g DEF CleanupSettles, Goto, Go, Enter, TypeOK, GoneInv, GraceInv, GroupAlive, Members
    <3> QED
      BY <3>1, <3>2, <3>3
  <2>3. CASE Then(a)
    BY <2>3, <1>0, <1>g DEF Then, Goto, Go, Enter, TypeOK, AttemptInv, CallerInv, GoneInv, GraceInv, OneAttempt, Active, GroupAlive, Members
  <2>4. CASE Finally(a)
    <3>1. AttemptInv'
      BY <2>4, <1>0 DEF Goto, Finally, TypeOK, AttemptInv
    <3>2. \A c \in Callers : caller'[c] = IF caller[c] # a THEN caller[c]
                               ELSE IF pc[a] = "then" THEN "resolved" ELSE "rejected"
      BY <2>4 DEF Goto, Finally
    <3>3. CallerInv'
      BY <2>4, <3>2, <1>0 DEF Goto, Finally, TypeOK, AttemptInv, CallerInv, GoneInv
    <3>4. GoneInv' /\ GraceInv'
      BY <2>4, <1>0, <1>g DEF Goto, Finally, TypeOK, GoneInv, GraceInv, GroupAlive, Members
    <3> QED
      BY <3>1, <3>3, <3>4
  <2> QED
    BY <1>4, <2>1, <2>2, <2>3, <2>4 DEF AttemptStep
<1>5. ASSUME NEW c \in Callers, StopCall(c)
      PROVE  AttemptInv' /\ CallerInv' /\ GoneInv' /\ GraceInv'
  <2>1. GroupAlive' = GroupAlive
    BY <1>5 DEF StopCall, StopReturns, StopJoins, StopBegins, GroupAlive, Members
  <2>2. CASE StopReturns(c) \/ StopJoins(c)
    <3>1. UNCHANGED <<phase, pc, signal, late, stopped, stopPromise>>
      BY <2>2 DEF StopReturns, StopJoins
    <3>2. CallerInv'
      BY <2>2, <3>1, <1>0 DEF StopReturns, StopJoins, CallerInv, TypeOK
    <3>3. AttemptInv' /\ GoneInv' /\ GraceInv'
      BY <2>1, <3>1 DEF AttemptInv, GoneInv, GraceInv, OneAttempt, Active
    <3> QED
      BY <3>2, <3>3
  <2>3. CASE StopBegins(c)
    <3> PICK a \in Attempts : Begin(a) /\ stopPromise' = a /\ caller' = [caller EXCEPT ![c] = a]
      BY <2>3 DEF StopBegins
    <3>1. phase = "ready" /\ ~stopped /\ stopPromise = NoAttempt /\ UNCHANGED <<phase, stopped>>
      BY <2>3 DEF StopBegins
    <3>2. AttemptInv'
      BY <3>1, <1>0 DEF Begin, AttemptInv, TypeOK
    <3>3. CallerInv'
      BY <3>1, <1>0 DEF CallerInv, TypeOK
    <3>4. GoneInv' /\ GraceInv'
      BY <3>1, <2>1, <1>0 DEF Begin, GoneInv, GraceInv, TypeOK
    <3> QED
      BY <3>2, <3>3, <3>4
  <2> QED
    BY <1>5, <2>2, <2>3 DEF StopCall
<1>6. CASE UNCHANGED vars
  BY <1>6 DEF vars, AttemptInv, CallerInv, GoneInv, GraceInv, OneAttempt, Active, GroupAlive, Members
<1> QED
  BY <1>1, <1>2, <1>3, <1>4, <1>5, <1>6 DEF Next

-----------------------------------------------------------------------------
\* The invariant holds in every reachable state.
THEOREM Invariance == Spec => []IInv
<1>1. IInv /\ [Next]_vars => IInv'
  BY StepIInv
<1> QED
  BY <1>1, InitIInv, PTL DEF Spec

\* The state of startServer(), of the processes and of every stop() call stays
\* in its type.
THEOREM TypeCorrect == Spec => []TypeOK
<1>1. IInv => TypeOK
  BY DEF IInv
<1> QED
  BY <1>1, Invariance, PTL

\* stop() resolves only over a process group without members, for any number
\* of processes and callers and whichever processes refuse signals or escape.
THEOREM StopIsSafe == Spec => []ResolvedStopMeansGroupGone
<1>1. IInv => ResolvedStopMeansGroupGone
  BY DEF IInv, CallerInv, GoneInv, ResolvedStopMeansGroupGone
<1> QED
  BY <1>1, Invariance, PTL

\* A startServer() that rejects without an AggregateError left no group.
THEOREM RejectionIsClean == Spec => []PlainRejectionMeansGroupGone
<1>1. IInv => PlainRejectionMeansGroupGone
  BY DEF IInv, GoneInv, PlainRejectionMeansGroupGone
<1> QED
  BY <1>1, Invariance, PTL

\* At most one terminateProcessTree() is in flight, whoever calls stop() when.
THEOREM AttemptsAreShared == Spec => []OneAttempt
<1>1. IInv => OneAttempt
  BY DEF IInv, AttemptInv, OneAttempt, Active
<1> QED
  BY <1>1, Invariance, PTL

\* A caller that waits awaits the attempt in flight.
THEOREM CallersAreServed == Spec => []NoForgottenCaller
<1>1. ASSUME IInv PROVE NoForgottenCaller
  <2> SUFFICES ASSUME NEW c \in Callers, caller[c] \in Attempts
               PROVE  caller[c] = stopPromise /\ pc[caller[c]] # "idle"
    BY DEF NoForgottenCaller, Active
  <2>1. caller[c] = stopPromise
    BY <1>1 DEF IInv, CallerInv
  <2>2. phase = "ready"
    BY <2>1, <1>1, AttemptAssumption DEF IInv, AttemptInv
  <2> QED
    BY <2>1, <2>2, <1>1 DEF IInv, AttemptInv
<1> QED
  BY <1>1, Invariance, PTL

\* Nobody is sent SIGKILL before an attempt's grace period is over.
THEOREM GraceIsGiven == Spec => KillOnlyAfterGrace
<1>1. ASSUME IInv, [Next]_vars, killed' # killed
      PROVE  \E a \in Attempts : signal[a] = "SIGKILL" /\ late[a]
  <2>1. PICK a \in Attempts : Send(a)
    BY <1>1 DEF Next, vars, KernelStep, ReapLeader, Fork, Escape, Exit, Reap, Turn,
       StartStep, Enter, Goto, Go, Reuse, Spawn, SpawnErrorEvent, StartupFails, Fetch, FetchOk, FetchNotOk, Delay,
       StartupDeadline, AttemptStep, RoundDeadline, Probe, Poll, Sleep, Final, CleanupSettles,
       Then, Finally, StopCall, StopReturns, StopJoins, StopBegins,
       startVars, osVars, termVars, stopVars
  <2>2. pc[a] = "send" /\ signal[a] = "SIGKILL"
    BY <2>1, <1>1 DEF Send, Goto
  <2> QED
    BY <2>2, <1>1 DEF IInv, GraceInv
<1>2. IInv /\ [Next]_vars =>
        [killed' # killed => \E a \in Attempts : signal[a] = "SIGKILL" /\ late[a]]_vars
  BY <1>1
<1> QED
  BY <1>2, Invariance, PTL DEF Spec, KillOnlyAfterGrace

-----------------------------------------------------------------------------
(* Refinement of ServerLifecycle, its safety.                               *)

\* The abstract state, as Lifecycle's substitution computes it.
ServerOf == CASE phase = "rejected"  -> "failed"
              [] phase = "aggregate" -> "leaked"
              [] phase = "ready"     -> "up"
              [] phase = "reused"    -> "reused"
              [] OTHER               -> "starting"
GroupOf  == CASE GroupAlive              -> "alive"
              [] proc[Leader] = "unborn" -> "unborn"
              [] OTHER                   -> "gone"
StopOf   == [c \in Callers |-> IF caller[c] \in Attempts THEN "waiting" ELSE caller[c]]

\* What the abstract steps need beyond IInv: the tree grows from its leader,
\* an attempt of stop() is somebody's, and only its reactions outlive stopped.
RefInv ==
    /\ phase = "called" \/ proc[Leader] = "unborn" => \A p \in Procs : proc[p] = "unborn"
    /\ phase = "ready" => \A a \in Attempts : pc[a] # "idle" => \E c \in Callers : caller[c] = a
    /\ stopped => \A a \in Attempts : pc[a] \in {"idle", "then"}

\* It holds before startServer() is called.
LEMMA InitRefInv == Init => RefInv
BY LeaderAssumption DEF Init, RefInv

\* Every step keeps it.
LEMMA StepRefInv == IInv /\ RefInv /\ [Next]_vars => RefInv'
<1> SUFFICES ASSUME IInv, RefInv, [Next]_vars PROVE RefInv'
  OBVIOUS
<1>0. TypeOK
  BY DEF IInv
<1> USE LeaderAssumption, AttemptAssumption DEF startVars, osVars, termVars, stopVars
<1>1. CASE KernelStep
  <2>1. UNCHANGED <<phase, pc, stopped, caller>>
    BY <1>1 DEF KernelStep, ReapLeader, Fork, Escape, Exit, Reap, Turn
  <2>2. proc[Leader] # "unborn" /\ phase # "called" /\ proc'[Leader] # "unborn"
    BY <1>1, <1>0 DEF KernelStep, ReapLeader, Fork, Escape, Exit, Reap, Turn, RefInv, TypeOK
  <2> QED
    BY <2>1, <2>2 DEF RefInv
<1>2. CASE StartStep
  <2>1. CASE StartupFails
    BY <2>1, <1>0 DEF StartupFails, Enter, Begin, RefInv, IInv, AttemptInv, TypeOK
  <2>2. CASE Spawn
    BY <2>2, <1>0 DEF Spawn, Enter, RefInv, TypeOK
  <2>3. CASE Reuse \/ SpawnErrorEvent \/ Fetch \/ FetchOk \/ FetchNotOk \/ Delay
    <3>1. /\ UNCHANGED <<proc, pc, stopped, caller>>
          /\ phase' # "called" \/ phase = "called"
          /\ phase' = "ready" => phase \in {"ready", "fetch"}
      BY <2>3 DEF Enter, Reuse, SpawnErrorEvent, Fetch, FetchOk, FetchNotOk, Delay
    <3> QED
      BY <3>1 DEF RefInv, IInv, AttemptInv
  <2> QED
    BY <1>2, <2>1, <2>2, <2>3 DEF StartStep
<1>3. CASE StartupDeadline
  BY <1>3 DEF StartupDeadline, RefInv
<1>4. ASSUME NEW a \in Attempts, AttemptStep(a) \/ RoundDeadline(a)
      PROVE  RefInv'
  <2>1. CASE Probe(a) \/ Send(a) \/ Poll(a) \/ Sleep(a) \/ Final(a) \/ RoundDeadline(a)
    <3>1. /\ UNCHANGED <<phase, proc, stopped, caller>>
          /\ pc[a] \notin {"idle", "then"}
          /\ \A b \in Attempts \ {a} : pc'[b] = pc[b]
      BY <2>1, <1>0 DEF Probe, Send, Poll, Sleep, Final, RoundDeadline, Goto, Go, Enter, TypeOK
    <3> QED
      BY <3>1 DEF RefInv
  <2>2. CASE CleanupSettles(a)
    <3>1. /\ UNCHANGED <<proc, stopped, caller>>
          /\ phase' \in {"rejected", "aggregate"}
          /\ \A b \in Attempts : pc'[b] \in {pc[b], "idle"}
      BY <2>2, <1>0 DEF CleanupSettles, Goto, Enter, TypeOK
    <3> QED
      BY <3>1 DEF RefInv
  <2>3. CASE Then(a)
    <3>1. /\ UNCHANGED <<phase, proc, caller>> /\ phase = "ready"
          /\ pc' = [pc EXCEPT ![a] = "then"] /\ pc[a] = "fulfilled"
      BY <2>3 DEF Then, Goto
    <3>2. \A b \in Attempts \ {a} : pc[b] = "idle"
      BY <3>1 DEF IInv, AttemptInv
    <3> QED
      BY <3>1, <3>2, <1>0 DEF RefInv, TypeOK
  <2>4. CASE Finally(a)
    <3>1. UNCHANGED <<phase, proc, stopped>> /\ phase = "ready"
          /\ pc' = [pc EXCEPT ![a] = "idle"] /\ pc[a] # "idle"
      BY <2>4 DEF Finally, Goto
    <3>2. \A b \in Attempts : pc'[b] = "idle"
      BY <3>1, <1>0 DEF IInv, AttemptInv, TypeOK
    <3> QED
      BY <3>1, <3>2 DEF RefInv
  <2> QED
    BY <1>4, <2>1, <2>2, <2>3, <2>4 DEF AttemptStep
<1>5. ASSUME NEW c \in Callers, StopCall(c)
      PROVE  RefInv'
  <2>1. CASE StopReturns(c) \/ StopJoins(c)
    <3>1. /\ UNCHANGED <<phase, proc, pc, stopped>>
          /\ caller[c] \in {"idle", "rejected"}
          /\ \A d \in Callers \ {c} : caller'[d] = caller[d]
      BY <2>1, <1>0 DEF StopReturns, StopJoins, MayCall, TypeOK
    <3> QED
      BY <3>1 DEF RefInv
  <2>2. CASE StopBegins(c)
    <3>1. PICK a \in Attempts : Begin(a) /\ caller' = [caller EXCEPT ![c] = a]
      BY <2>2 DEF StopBegins
    <3>2. UNCHANGED <<phase, proc, stopped>> /\ phase = "ready" /\ ~stopped
          /\ stopPromise = NoAttempt
      BY <2>2 DEF StopBegins
    <3>3. \A b \in Attempts \ {a} : pc'[b] = "idle"
      BY <3>1, <3>2, <1>0 DEF Begin, IInv, AttemptInv, TypeOK
    <3>4. caller'[c] = a
      BY <3>1, <1>0 DEF TypeOK
    <3> QED
      BY <3>2, <3>3, <3>4 DEF RefInv
  <2> QED
    BY <1>5, <2>1, <2>2 DEF StopCall
<1>6. CASE UNCHANGED vars
  BY <1>6 DEF vars, RefInv
<1> QED
  BY <1>1, <1>2, <1>3, <1>4, <1>5, <1>6 DEF Next

\* Before the start the abstract server is at its start.
LEMMA InitImplements == Init => Lifecycle!Init
BY LeaderAssumption, AttemptAssumption DEF Init, Lifecycle!Init, GroupAlive, Members

\* Every step is a step of the abstract lifecycle or none.
LEMMA StepImplements ==
    IInv /\ RefInv /\ [Next]_vars => [Lifecycle!Next]_(Lifecycle!vars)
<1> SUFFICES ASSUME IInv, RefInv, [Next]_vars
             PROVE  Lifecycle!Next \/ UNCHANGED <<ServerOf, GroupOf, stopped, StopOf>>
  BY DEF Lifecycle!vars, ServerOf, GroupOf, StopOf
<1>0. TypeOK /\ TypeOK'
  BY TypeStep DEF IInv
<1>c. caller' = caller => UNCHANGED StopOf
  BY DEF StopOf
<1>p. proc' = proc => UNCHANGED GroupOf
  BY DEF GroupOf, GroupAlive, Members
<1>f. phase' = phase => UNCHANGED ServerOf
  BY DEF ServerOf
<1>w. ASSUME NEW a \in Attempts, phase = "ready", pc[a] # "idle"
      PROVE  Lifecycle!Waiting # {}
  <2>1. PICK c \in Callers : caller[c] = a
    BY <1>w DEF RefInv
  <2> QED
    BY <2>1 DEF Lifecycle!Waiting
<1> USE LeaderAssumption, AttemptAssumption DEF startVars, osVars, termVars, stopVars
<1>1. CASE KernelStep
  <2>1. UNCHANGED <<ServerOf, stopped, StopOf>> /\ phase # "called" /\ proc[Leader] # "unborn"
    BY <1>1, <1>0, <1>c, <1>f DEF KernelStep, ReapLeader, Fork, Escape, Exit, Reap, Turn, RefInv, TypeOK
  <2>2. proc'[Leader] # "unborn"
    BY <1>1, <1>0, <2>1 DEF KernelStep, ReapLeader, Fork, Escape, Exit, Reap, Turn, TypeOK
  <2>3. ~GroupAlive => ~GroupAlive'
    BY <2>1, <1>0, GoneStaysGone
  <2>4. CASE GroupAlive /\ ~GroupAlive'
    <3>1. GroupOf = "alive" /\ GroupOf' = "gone"
      BY <2>1, <2>2, <2>4 DEF GroupOf
    <3> QED
      BY <2>1, <3>1 DEF Lifecycle!Die, Lifecycle!Next, ServerOf, GroupOf, StopOf
  <2>5. CASE GroupAlive' = GroupAlive
    BY <2>1, <2>2, <2>5 DEF GroupOf
  <2> QED
    BY <2>3, <2>4, <2>5 DEF GroupAlive
<1>2. CASE StartStep
  <2>0. UNCHANGED <<stopped, StopOf>>
    BY <1>2, <1>c DEF StartStep, Enter, Reuse, Spawn, SpawnErrorEvent, StartupFails, Fetch,
       FetchOk, FetchNotOk, Delay
  <2>1. CASE Spawn
    <3>1. ServerOf = "starting" /\ UNCHANGED ServerOf
      BY <2>1 DEF Spawn, Enter, ServerOf
    <3>2. GroupOf = "unborn"
      BY <2>1 DEF Spawn, Enter, IInv, GoneInv, RefInv, GroupOf
    <3>3. CASE proc' = [proc EXCEPT ![Leader] = "running"]
      <4>1. GroupOf' = "alive"
        BY <3>3, <1>0 DEF GroupOf, GroupAlive, Members, TypeOK
      <4> QED
        BY <2>0, <3>1, <3>2, <4>1 DEF Lifecycle!Boot, Lifecycle!Next, ServerOf, GroupOf, StopOf
    <3>4. CASE UNCHANGED proc
      BY <2>0, <3>1, <3>4, <1>p
    <3> QED
      BY <2>1, <3>3, <3>4 DEF Spawn
  <2>2. CASE Reuse
    <3>1. ServerOf = "starting" /\ ServerOf' = "reused" /\ UNCHANGED GroupOf
      BY <2>2, <1>p DEF Reuse, Enter, ServerOf
    <3>2. GroupOf = "unborn"
      BY <2>2 DEF Reuse, Enter, IInv, GoneInv, RefInv, GroupOf
    <3> QED
      BY <2>0, <3>1, <3>2 DEF Lifecycle!ComeUp, Lifecycle!Next, ServerOf, GroupOf, StopOf
  <2>3. CASE FetchOk
    <3>1. ServerOf = "starting" /\ ServerOf' = "up" /\ UNCHANGED GroupOf
      BY <2>3, <1>p DEF FetchOk, Enter, ServerOf
    <3> QED
      BY <2>0, <3>1 DEF Lifecycle!ComeUp, Lifecycle!Next, ServerOf, GroupOf, StopOf
  <2>4. CASE SpawnErrorEvent \/ StartupFails \/ Fetch \/ FetchNotOk \/ Delay
    <3>1. UNCHANGED proc /\ UNCHANGED ServerOf
      BY <2>4 DEF Enter, SpawnErrorEvent, StartupFails, Fetch, FetchNotOk, Delay, ServerOf
    <3> QED
      BY <2>0, <3>1, <1>p
  <2> QED
    BY <1>2, <2>1, <2>2, <2>3, <2>4 DEF StartStep
<1>3. CASE StartupDeadline
  BY <1>3, <1>c, <1>p, <1>f DEF StartupDeadline
<1>4. ASSUME NEW a \in Attempts, AttemptStep(a) \/ RoundDeadline(a)
      PROVE  Lifecycle!Next \/ UNCHANGED <<ServerOf, GroupOf, stopped, StopOf>>
  <2>0. UNCHANGED GroupOf
    BY <1>4, <1>p DEF AttemptStep, Goto, Go, Enter, RoundDeadline, Probe, Send, Poll, Sleep, Final,
       CleanupSettles, Then, Finally
  <2>1. CASE Probe(a) \/ Send(a) \/ Poll(a) \/ Sleep(a) \/ Final(a) \/ RoundDeadline(a)
    <3>1. UNCHANGED <<phase, stopped, caller>>
      BY <2>1 DEF Probe, Send, Poll, Sleep, Final, RoundDeadline, Goto, Go
    <3> QED
      BY <2>0, <3>1, <1>c, <1>f
  <2>2. CASE CleanupSettles(a)
    <3>1. UNCHANGED <<stopped, StopOf>>
      BY <2>2, <1>c DEF CleanupSettles, Enter
    <3>2. /\ ServerOf = "starting"
          /\ \/ ServerOf' = "failed" /\ ~GroupAlive
             \/ ServerOf' = "leaked"
      BY <2>2 DEF CleanupSettles, Enter, Goto, ServerOf, IInv, GoneInv
    <3>3. ~GroupAlive => GroupOf # "alive"
      BY DEF GroupOf
    <3> QED
      BY <2>0, <3>1, <3>2, <3>3 DEF Lifecycle!Fail, Lifecycle!Next, ServerOf, GroupOf, StopOf
  <2>3. CASE Then(a)
    <3>1. UNCHANGED <<ServerOf, StopOf>> /\ stopped' = TRUE
      BY <2>3, <1>c, <1>f DEF Then
    <3>2. GroupOf # "alive"
      BY <2>3 DEF Then, Goto, IInv, GoneInv, GroupOf
    <3>3. Lifecycle!Waiting # {}
      BY <2>3, <1>w DEF Then, Goto
    <3> QED
      BY <2>0, <3>1, <3>2, <3>3 DEF Lifecycle!Close, Lifecycle!Next, ServerOf, GroupOf, StopOf
  <2>4. CASE Finally(a)
    <3>1. PICK at \in {"then", "failed"} :
            /\ pc[a] = at
            /\ caller' = [c \in Callers |->
                            IF caller[c] # a THEN caller[c]
                            ELSE IF at = "then" THEN "resolved" ELSE "rejected"]
      BY <2>4 DEF Finally, Goto
    <3>2. phase = "ready" /\ UNCHANGED <<ServerOf, stopped>>
      BY <2>4, <1>f DEF Finally
    <3>3. Lifecycle!Waiting # {}
      BY <3>1, <3>2, <1>w
    <3>4. stopped <=> at = "then"
      BY <3>1 DEF IInv, GoneInv, RefInv
    <3>5. \A c \in Callers : caller[c] \in Attempts => caller[c] = a
      BY <3>1, <3>2 DEF IInv, CallerInv, AttemptInv
    <3>6. \A c \in Lifecycle!Waiting : c \in Callers /\ caller[c] = a
      BY <3>5, <1>0 DEF Lifecycle!Waiting, TypeOK
    <3>7. \A c \in Callers \ Lifecycle!Waiting : caller[c] # a /\ caller[c] \notin Attempts
      BY DEF Lifecycle!Waiting
    <3>8. ASSUME NEW outcome, outcome = IF stopped THEN "resolved" ELSE "rejected"
          PROVE  Lifecycle!Answer(outcome)
      <4>1. \A c \in Callers : caller'[c] = IF c \in Lifecycle!Waiting THEN outcome ELSE caller[c]
        BY <3>1, <3>4, <3>6, <3>7, <3>8
      <4>2. outcome \notin Attempts
        BY <3>8
      <4> QED
        BY <4>1, <4>2, <3>7 DEF Lifecycle!Answer
    <3>9. CASE stopped
      BY <2>0, <3>2, <3>3, <3>8, <3>9 DEF Lifecycle!Resolve, Lifecycle!Next, ServerOf, GroupOf
    <3>10. CASE ~stopped
      BY <2>0, <3>2, <3>3, <3>8, <3>10 DEF Lifecycle!Reject, Lifecycle!Next, ServerOf, GroupOf
    <3> QED
      BY <3>9, <3>10
  <2> QED
    BY <1>4, <2>1, <2>2, <2>3, <2>4 DEF AttemptStep
<1>5. ASSUME NEW c \in Callers, StopCall(c)
      PROVE  Lifecycle!Request(c)
  <2>1. UNCHANGED <<ServerOf, GroupOf, stopped>> /\ caller[c] \in {"idle", "rejected"}
    BY <1>5, <1>f, <1>p DEF StopCall, StopReturns, StopJoins, StopBegins, MayCall
  <2>2. StopOf[c] \in {"idle", "rejected"}
    BY <2>1 DEF StopOf
  <2>3. CASE StopReturns(c)
    <3>1. ServerOf = "reused" \/ stopped
      BY <2>3 DEF StopReturns, ServerOf
    <3>2. StopOf' = [StopOf EXCEPT ![c] = "resolved"]
      BY <2>3, <1>0 DEF StopReturns, StopOf, TypeOK
    <3> QED
      BY <2>1, <2>2, <3>1, <3>2 DEF Lifecycle!Request, ServerOf, GroupOf, StopOf
  <2>4. CASE StopJoins(c) \/ StopBegins(c)
    <3>1. ServerOf = "up" /\ ~stopped
      BY <2>4 DEF StopJoins, StopBegins, ServerOf
    <3>2. PICK a \in Attempts : caller' = [caller EXCEPT ![c] = a]
      BY <2>4, <1>0 DEF StopJoins, StopBegins, TypeOK
    <3>3. StopOf' = [StopOf EXCEPT ![c] = "waiting"]
      BY <3>2, <1>0 DEF StopOf, TypeOK
    <3> QED
      BY <2>1, <2>2, <3>1, <3>3 DEF Lifecycle!Request, ServerOf, GroupOf, StopOf
  <2> QED
    BY <1>5, <2>3, <2>4 DEF StopCall
<1>6. CASE UNCHANGED vars
  BY <1>6, <1>c, <1>p, <1>f DEF vars
<1> QED
  BY <1>1, <1>2, <1>3, <1>4, <1>5, <1>6 DEF Next, Lifecycle!Next

\* startServer() and stop() do nothing that ServerLifecycle does not allow: a
\* stop succeeds only over a group that is gone, everyone who waits hears the
\* same answer, and no success is taken back.  The fairness of
\* ImplementsLifecycle stays with TLC.
THEOREM LifecycleSafety ==
    Spec => Lifecycle!Init /\ [][Lifecycle!Next]_(Lifecycle!vars)
<1>1. RefInv /\ IInv /\ [Next]_vars => RefInv'
  BY StepRefInv
<1>2. Spec => []RefInv
  BY <1>1, InitRefInv, Invariance, PTL DEF Spec
<1>3. IInv /\ RefInv /\ [Next]_vars => [Lifecycle!Next]_(Lifecycle!vars)
  BY StepImplements
<1> QED
  BY <1>2, <1>3, InitImplements, Invariance, PTL DEF Spec
=============================================================================
