------------------------------ MODULE SendRule ------------------------------
(***************************************************************************)
(* ores/require-send, the ESLint rule of .ores-lint/eslint/plugin.mjs, as  *)
(* it visits the same program in JavaScript.  Its scopes are functions, it *)
(* knows loggers by the declarations that produce them, and it visits a    *)
(* call twice: as the statement it is and as the call it is.               *)
(***************************************************************************)
EXTENDS NameMaps, Naturals, Sequences, FiniteSetsExt, SequencesExt, Functions

CONSTANT WellKnown      \* log, logger, ddlog and the configured names

VARIABLES
    scopes,         \* pending Map per function: name -> line
    knownLoggers,
    reports         \* lines that were reported

ruleVars == <<scopes, knownLoggers, reports>>

RuleTypeOK(lines, names, loggers) ==
    /\ \A i \in DOMAIN scopes :
          DOMAIN scopes[i] \subseteq names /\ Range(scopes[i]) \subseteq lines
    /\ knownLoggers \subseteq loggers
    /\ reports \subseteq lines

RuleInit == scopes = <<(<<>>)>> /\ knownLoggers = WellKnown /\ reports = {}

-----------------------------------------------------------------------------
\* inspectChain(): an event, by a known logger, without a terminal call after
\* its first level call.  The number of arguments does not matter here.
Undelivered(c) ==
    LET levels == {i \in DOMAIN c.calls : c.calls[i] \in {"level", "emit"}} IN
    /\ c.root \in knownLoggers
    /\ levels # {}
    /\ \A j \in DOMAIN c.calls : j > Min(levels) => c.calls[j] # "send"

\* clearPending()
ClearPending(stack, x) ==
    LET having == {i \in DOMAIN stack : x \in DOMAIN stack[i]} IN
    IF having = {} THEN stack
    ELSE [stack EXCEPT ![Max(having)] = Forget(@, x)]

\* markPending()
MarkPending(x, l) == [scopes EXCEPT ![Len(scopes)] = With(@, x, l)]

RuleEnter(fn) ==
    /\ scopes' = IF fn THEN Append(scopes, <<>>) ELSE scopes
    /\ UNCHANGED <<knownLoggers, reports>>

\* (mutant) leaving a function forgets what is pending in it.
LeaveSilently(fn) ==
    /\ scopes' = IF fn THEN Front(scopes) ELSE scopes
    /\ UNCHANGED <<knownLoggers, reports>>

RuleLeave(fn) ==
    /\ IF fn
       THEN /\ reports' = reports \cup Range(Last(scopes))
            /\ scopes' = Front(scopes)
       ELSE UNCHANGED <<scopes, reports>>
    /\ UNCHANGED knownLoggers

\* VariableDeclarator and AssignmentExpression.
RuleAssigned(x, c, l) ==
    /\ scopes' = IF Undelivered(c) THEN MarkPending(x, l) ELSE scopes
    /\ UNCHANGED <<knownLoggers, reports>>

\* ExpressionStatement.
RuleStatement(c, l) ==
    /\ reports' = IF Undelivered(c) THEN reports \cup {l} ELSE reports
    /\ UNCHANGED <<scopes, knownLoggers>>

\* A chain that is returned or is an argument is left to its receiver.
RuleHandOff == UNCHANGED ruleVars

\* (mutant) a name in the arguments of a call is not taken as delivered.
UseOfReceiver(x, how) ==
    /\ scopes' = IF how \in {"pass", "sendOf"} THEN scopes ELSE ClearPending(scopes, x)
    /\ UNCHANGED <<knownLoggers, reports>>

\* ReturnStatement and the body of an arrow function clear the name once.  A
\* statement x.send() or f(x) is consumed by ExpressionStatement and then
\* again by CallExpression, which takes the name's next pending event.
RuleUse(x, how) ==
    /\ scopes' = IF how \in {"return", "arrow"} THEN ClearPending(scopes, x)
                 ELSE ClearPending(ClearPending(scopes, x), x)
    /\ UNCHANGED <<knownLoggers, reports>>

\* `const made = log.anew()`, createLogger() or new Logger().
RuleProduces(logger) ==
    /\ knownLoggers' = knownLoggers \cup {logger}
    /\ UNCHANGED <<scopes, reports>>

RuleOther == UNCHANGED ruleVars

RuleEnd ==
    /\ reports' = reports \cup Range(Last(scopes))
    /\ scopes' = Front(scopes)
    /\ UNCHANGED knownLoggers
=============================================================================
