---------------------------- MODULE RequireSend -----------------------------
(***************************************************************************)
(* The two require-send checks of .ores-lint read the same program: the    *)
(* scanner in Rust, Dart or Gleam, the ESLint rule in JavaScript.  A step  *)
(* writes one statement, and both checks take it in.                       *)
(***************************************************************************)
EXTENDS SendProgram, SendScanner, SendRule

ASSUME LoggerAssumption == Log \in WellKnown /\ WellKnown \subseteq {Log, Made}

vars == <<programVars, scannerVars, ruleVars>>

TypeOK ==
    /\ ProgramTypeOK
    /\ ScannerTypeOK(1 .. line, Names)
    /\ RuleTypeOK(1 .. line, Names, {Log, Made})

Init == ProgramInit /\ ScannerInit /\ RuleInit

Open(fn) == EnterBlock(fn) /\ ScanOpen /\ RuleEnter(fn)
Close    == LeaveBlock /\ ScanClose /\ RuleLeave(Last(blocks).fn)

LetChain(x, c) ==
    /\ Declare(x, c)
    /\ ScanAssigned(x, c, Here, language, ahead')
    /\ RuleAssigned(x, c, Here)

AssignChain(x, c) ==
    /\ Assign(x, c)
    /\ ScanAssigned(x, c, Here, language, ahead')
    /\ RuleAssigned(x, c, Here)

BareChain(c) ==
    /\ Stand(c)
    /\ ScanStatement(c, Here, language)
    /\ RuleStatement(c, Here)

GivenChain(c) ==
    /\ HandOff(c, FALSE)
    /\ ScanHandOff(c, Here, language)
    /\ RuleHandOff

\* The last expression of a block; JavaScript writes `return` there.
TailChain(c) ==
    /\ HandOff(c, TRUE)
    /\ ScanTail
    /\ RuleLeave(Last(blocks).fn)

UseName(x, how) == Use(x, how) /\ ScanUse(x, how) /\ RuleUse(x, how)
ProduceLogger   == Produce /\ ScanOther /\ RuleProduces(Made)
Suppress        == Comment /\ ScanOther /\ RuleOther
EndOfFile       == End /\ ScanEnd /\ RuleEnd

Next ==
    \/ \E fn \in BOOLEAN : Open(fn)
    \/ Close
    \/ \E c \in Chains :
          \/ BareChain(c) \/ GivenChain(c) \/ TailChain(c)
          \/ \E x \in Names : LetChain(x, c) \/ AssignChain(x, c)
    \/ \E x \in Names, how \in Uses : UseName(x, how)
    \/ ProduceLogger \/ Suppress \/ EndOfFile

Spec == Init /\ [][Next]_vars

-----------------------------------------------------------------------------
(* Properties of a program that was read to its end.  Each names the traits *)
(* under which a check that goes by names and braces cannot be right.       *)

Lacks(S) == traits \cap S = {}
Printed  == {l \in findings : ~Disabled(l, quiet)}

\* require-send.mjs:5-7, "a logging chain that reaches a level method must be
\* delivered": an event that nobody sent or was handed is reported by the
\* scanner, also when its name is used again in an inner block, and unless the
\* line before it is a comment that says so.  The last expression of a block in
\* Rust or Gleam is its value and counts as handed on.
ScannerReportsLostEvents ==
    ended /\ Lacks({"overwrite", "mistaken", "outer", "late"}) =>
        \A e \in Lost : e \in Printed \/ e - 1 \in quiet

\* What the scanner reports was never sent, neither by a terminal call of its
\* own chain, nor by a level method that sends, nor later by its name, however
\* that is shadowed, overwritten and used in between.  A level call of Gleam
\* with three arguments is reported, whatever it does: only the branch for the
\* other languages knows that it sends (:382-384).
ScannerRaisesNoFalseAlarm ==
    ended /\ Lacks({"outer", "chainSend", "late"}) /\ (language = "gleam" => Lacks({"emit"})) =>
        Printed \cap sent = {}

\* plugin.mjs:8-9: the rule reports every event that was neither sent nor
\* handed on, across functions, blocks and the loggers it has learned of.
RuleReportsLostEvents ==
    ended /\ Lacks({"reuse", "mistaken", "early"}) => Lost \subseteq reports

\* What the rule reports was not sent, passed or returned by anyone.
RuleRaisesNoFalseAlarm ==
    ended /\ Lacks({"reuse", "captured", "emit"}) => reports \subseteq Lost
=============================================================================
