---------------------------- MODULE SendScanner ----------------------------
(***************************************************************************)
(* analyzeSource() of .ores-lint/require-send.mjs, the check for Rust,     *)
(* Dart and Gleam.  It reads tokens, takes every pair of braces as a scope *)
(* and knows an event by the name it was assigned to.  An action takes in  *)
(* one statement; l is its line and lang the language of the file.         *)
(***************************************************************************)
EXTENDS NameMaps, Naturals, Sequences, FiniteSetsExt, SequencesExt, Functions

VARIABLES
    scopeStack,    \* a Map of pending findings per open brace: name -> line
    findings       \* lines that were reported

scannerVars == <<scopeStack, findings>>

ScannerTypeOK(lines, names) ==
    /\ \A i \in DOMAIN scopeStack :
          DOMAIN scopeStack[i] \subseteq names /\ Range(scopeStack[i]) \subseteq lines
    /\ findings \subseteq lines

ScannerInit == scopeStack = <<(<<>>)>> /\ findings = {}

-----------------------------------------------------------------------------
\* A chain is noticed at a level call that a plain name precedes; a Gleam pipe
\* is followed from the level call on, wherever it stands in the pipe.
Noticed(c, lang) == lang = "gleam" \/ c.calls[1] \in {"level", "emit"}

\* Some call of the chain is terminal, or it is a convenience emit, which only
\* the method syntax knows.
Delivered(c, lang) ==
    \/ "send" \in Range(c.calls)
    \/ "level" \notin Range(c.calls) /\ "emit" \notin Range(c.calls)
    \/ lang # "gleam" /\ c.calls = <<"emit">>

Pends(c, lang) == Noticed(c, lang) /\ ~Delivered(c, lang)

\* What precedes the level call is a pipe: no assignment and no handoff is seen.
BehindPipe(c, lang) == lang = "gleam" /\ c.calls[1] = "field"

\* (mutant) only the innermost scope is searched.
ClearedInnermost(x) == [scopeStack EXCEPT ![Len(scopeStack)] = Forget(@, x)]

\* clear(): the innermost scope that has the name forgets it.
Cleared(x) ==
    LET having == {i \in DOMAIN scopeStack : x \in DOMAIN scopeStack[i]} IN
    IF having = {} THEN scopeStack
    ELSE [scopeStack EXCEPT ![Max(having)] = Forget(@, x)]

Report(l) == findings' = findings \cup {l} /\ UNCHANGED scopeStack

Mark(x, l) ==
    /\ scopeStack' = [scopeStack EXCEPT ![Len(scopeStack)] = With(@, x, l)]
    /\ UNCHANGED findings

-----------------------------------------------------------------------------
ScanOpen == scopeStack' = Append(scopeStack, <<>>) /\ UNCHANGED findings

\* (mutant) closing a scope forgets what is pending in it.
CloseSilently ==
    /\ scopeStack' = IF Len(scopeStack) > 1 THEN Front(scopeStack) ELSE scopeStack
    /\ UNCHANGED findings

\* A brace too many closes nothing.
ScanClose ==
    IF Len(scopeStack) > 1
    THEN /\ findings' = findings \cup Range(Last(scopeStack))
         /\ scopeStack' = Front(scopeStack)
    ELSE UNCHANGED scannerVars

\* What follows the chain is looked at only where no assignment is seen.
ScanAssigned(x, c, l, lang, next) ==
    IF ~Pends(c, lang) THEN UNCHANGED scannerVars
    ELSE IF ~BehindPipe(c, lang) THEN Mark(x, l)
    ELSE IF next = "brace" THEN UNCHANGED scannerVars
    ELSE Report(l)

\* Neither at the tail of a block nor behind what would hand it on.
ScanStatement(c, l, lang) ==
    IF Pends(c, lang) THEN Report(l) ELSE UNCHANGED scannerVars

\* Behind `return`, `=>`, a parenthesis or a comma.
ScanHandOff(c, l, lang) ==
    IF Pends(c, lang) /\ BehindPipe(c, lang) THEN Report(l) ELSE UNCHANGED scannerVars

\* Without a semicolon in Rust, or before the closing brace in Gleam: nothing is
\* reported, and the brace closes the scope.
ScanTail == ScanClose

\* A terminal method called on the name itself, or with the name as argument.
ScanUse(x, how) ==
    /\ scopeStack' = IF how \in {"send", "sendOf"} THEN Cleared(x) ELSE scopeStack
    /\ UNCHANGED findings

ScanOther == UNCHANGED scannerVars

ScanEnd ==
    /\ findings' = findings \cup UNION {Range(scopeStack[i]) : i \in DOMAIN scopeStack}
    /\ scopeStack' = <<>>

\* isDisabled(): the comment is on the line or on the one before.
Disabled(l, comments) == l \in comments \/ l - 1 \in comments
=============================================================================
