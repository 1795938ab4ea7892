---------------------------- MODULE SendProgram ----------------------------
(***************************************************************************)
(* The programs that the two require-send checks read, written one         *)
(* statement per line, and what becomes of the log events they build.      *)
(* This is the reference that the checks are compared with: an event is    *)
(* built by a chain of calls that reaches a level method, it is sent by a  *)
(* terminal call, or handed to somebody else (passed, returned), or lost.  *)
(* Names are resolved lexically, and a block runs once where it stands.    *)
(***************************************************************************)
EXTENDS NameMaps, Naturals, Sequences, FiniteSets, FiniteSetsExt, SequencesExt

CONSTANTS
    Names,         \* variables of the program
    Log,           \* a logger that both checks know by its name
    Made,          \* a logger that a declaration of the program produces
    Languages,     \* which of rust, dart and gleam the program may be written in
    Calls,         \* the sequences of calls a chain may consist of
    MaxLines,      \* bound on the length of a program
    MaxDepth,      \* bound on the nesting of its blocks
    None

\* A call is of a level method, of one with three arguments or more (which
\* sends by itself), of a terminal method, or of any other.
CallKinds == {"level", "emit", "send", "field"}

ASSUME ProgramAssumption ==
    /\ None \notin Names
    /\ Log # Made
    /\ Languages \subseteq {"rust", "dart", "gleam"}
    /\ MaxLines \in Nat /\ MaxDepth \in Nat
    \* A chain reaches a level method once, and a call that sends returns no
    \* event that it could go on with.
    /\ \A c \in Calls :
          /\ c \in Seq(CallKinds) /\ c # <<>>
          /\ \A i \in DOMAIN c : c[i] \in {"emit", "send"} => i = Len(c)
          /\ \A i, j \in DOMAIN c : {c[i], c[j]} \subseteq {"level", "emit"} => i = j

VARIABLES
    language,
    line,          \* lines written so far; an event is known by its line
    blocks,        \* the open blocks: is it a function's body, what do its names hold
    named,         \* the events to be sent, and the name each was first given or None
    sent,          \* events that were sent, in their own chain or later
    handed,        \* events that were passed or returned
    produced,      \* loggers that are known or were produced so far
    traits,        \* what the program does that a check by name may mistake
    quiet,         \* lines with a comment that suppresses findings
    ahead,         \* whether a brace that closes a block is the next token
    ended

programVars ==
    <<language, line, blocks, named, sent, handed, produced, traits, quiet, ahead, ended>>

Chains == [root : {Log, Made}, calls : Calls]
Uses   == {"send", "sendOf", "chainSend", "pass", "return", "arrow"}
Traits == {"reuse", "overwrite", "mistaken", "outer", "captured", "chainSend",
           "late", "early", "emit"}

ProgramTypeOK ==
    /\ language \in Languages
    /\ line \in 0 .. MaxLines
    /\ \A i \in DOMAIN blocks :
          /\ blocks[i].fn \in BOOLEAN
          /\ DOMAIN blocks[i].holds \subseteq Names
          /\ \A x \in DOMAIN blocks[i].holds : blocks[i].holds[x] \in 0 .. line
    /\ DOMAIN named \subseteq 1 .. line
    /\ \A e \in DOMAIN named : named[e] \in Names \cup {None}
    /\ sent \subseteq 1 .. line /\ handed \subseteq DOMAIN named
    /\ produced \subseteq {Log, Made}
    /\ traits \subseteq Traits
    /\ quiet \subseteq 1 .. line
    /\ ahead \in {"any", "brace", "other"}
    /\ ended \in BOOLEAN

ProgramInit ==
    /\ language \in Languages
    /\ line = 0
    /\ blocks = <<[fn |-> TRUE, holds |-> <<>>]>>
    /\ named = <<>>
    /\ sent = {} /\ handed = {} /\ traits = {} /\ quiet = {}
    /\ produced = {Log}
    /\ ahead = "any" /\ ended = FALSE

-----------------------------------------------------------------------------

\* The chain leaves an event that is still to be sent.
Builds(c) ==
    \E i \in DOMAIN c.calls :
        /\ c.calls[i] = "level"
        /\ \A j \in DOMAIN c.calls : j > i => c.calls[j] # "send"

\* The chain sends the event that it builds.
Sends(c) ==
    \E i \in DOMAIN c.calls :
        \/ c.calls[i] = "emit"
        \/ c.calls[i] = "level" /\ \E j \in DOMAIN c.calls : j > i /\ c.calls[j] = "send"

Here     == line + 1
Event(c) == IF Builds(c) THEN Here ELSE 0
Live     == DOMAIN named \ (sent \cup handed)
LiveAs(x)   == {e \in Live : named[e] = x}
Lost        == Live
Declared(x) == \E i \in DOMAIN blocks : x \in DOMAIN blocks[i].holds
Home(x)     == Max({i \in DOMAIN blocks : x \in DOMAIN blocks[i].holds})
Value(x)    == blocks[Home(x)].holds[x]
\* A function begins between the block that declares x and this one.
Captured(x) == \E i \in Home(x) + 1 .. Len(blocks) : blocks[i].fn

\* What a chain makes a check mistake: it starts with another call, its logger
\* is produced further down, or it sends by itself.
ChainTraits(c) ==
    {t \in {"late"}  : c.calls[1] = "field"} \cup
    {t \in {"early"} : c.root \notin produced} \cup
    {t \in {"emit"}  : "emit" \in {c.calls[i] : i \in DOMAIN c.calls}}

\* Only code that runs later can use a logger that is not produced yet.
MayUse(c) ==
    c.root \in produced \/ \E i \in 2 .. Len(blocks) : blocks[i].fn

Write ==
    /\ ~ended /\ line < MaxLines
    /\ line' = Here
    /\ UNCHANGED <<language, ended>>

\* What the next token is matters in Gleam only, behind a chain that stands and
\* behind one whose level call a pipe leads to.
Statement(next) ==
    /\ Write /\ ahead # "brace"
    /\ ahead' = IF language = "gleam" THEN next ELSE "any"

EnterBlock(fn) ==
    /\ Statement("any")
    /\ Len(blocks) <= MaxDepth
    /\ blocks' = Append(blocks, [fn |-> fn, holds |-> <<>>])
    /\ UNCHANGED <<named, sent, handed, traits, produced, quiet>>

LeaveBlock ==
    /\ Write /\ ahead # "other" /\ ahead' = "any"
    /\ Len(blocks) > 1
    /\ blocks' = Front(blocks)
    /\ UNCHANGED <<named, sent, handed, traits, produced, quiet>>

NewEvent(c, x) ==
    /\ named' = IF Builds(c) THEN With(named, Here, x) ELSE named
    /\ sent' = IF Sends(c) THEN sent \cup {Here} ELSE sent

\* `let x = log.info(...)`, or a value that is no event.
Declare(x, c) ==
    /\ \E next \in IF c.calls[1] = "field" THEN {"brace", "other"} ELSE {"any"} : Statement(next)
    /\ MayUse(c)
    /\ blocks' = [blocks EXCEPT ![Len(blocks)].holds = With(@, x, Event(c))]
    /\ NewEvent(c, x)
    /\ traits' = traits \cup ChainTraits(c)
                 \cup {t \in {"reuse"} : LiveAs(x) # {}}
                 \cup {t \in {"overwrite"} :
                          x \in DOMAIN Last(blocks).holds /\ Last(blocks).holds[x] \in Live}
    /\ UNCHANGED <<handed, produced, quiet>>

\* `x = log.info(...)`
Assign(x, c) ==
    /\ Statement("any") /\ MayUse(c)
    /\ language # "gleam" /\ Declared(x)
    /\ blocks' = [blocks EXCEPT ![Home(x)].holds[x] = Event(c)]
    /\ NewEvent(c, x)
    /\ traits' = traits \cup ChainTraits(c)
                 \cup {t \in {"reuse"} : LiveAs(x) # {}}
                 \cup {t \in {"overwrite"} : Value(x) \in Live}
                 \cup {t \in {"outer"} : Home(x) # Len(blocks)}
                 \cup {t \in {"captured"} : Captured(x)}
    /\ UNCHANGED <<handed, produced, quiet>>

\* A chain that stands as a statement.  In Gleam the last expression of a block
\* is the value of the block: what follows this one is no closing brace.
Stand(c) ==
    /\ Statement("other") /\ MayUse(c)
    /\ NewEvent(c, None)
    /\ traits' = traits \cup ChainTraits(c)
    /\ UNCHANGED <<blocks, handed, produced, quiet>>

\* A chain as an argument or behind `return` or `=>`; as the last expression
\* of a block it closes the block.
HandOff(c, tail) ==
    /\ Statement("any") /\ MayUse(c)
    /\ IF tail
       THEN language # "dart" /\ Len(blocks) > 1 /\ blocks' = Front(blocks)
       ELSE UNCHANGED blocks
    /\ NewEvent(c, None)
    /\ handed' = IF Builds(c) THEN handed \cup {Here} ELSE handed
    /\ traits' = traits \cup ChainTraits(c)
    /\ UNCHANGED <<produced, quiet>>

\* x.send(), send(x), x.field().send() (in Gleam x |> log.send()), f(x),
\* return x and () => x.
Use(x, how) ==
    /\ Statement("any") /\ Declared(x)
    /\ language = "gleam" => how \in {"sendOf", "chainSend", "pass"}
    /\ sent' = IF how \in {"send", "sendOf", "chainSend"} /\ Value(x) # 0
               THEN sent \cup {Value(x)} ELSE sent
    /\ handed' = IF how \in {"pass", "return", "arrow"} /\ Value(x) # 0
                 THEN handed \cup {Value(x)} ELSE handed
    /\ traits' = traits \cup {t \in {"chainSend"} : how = "chainSend"}
                 \cup {t \in {"mistaken"} : Value(x) \notin Live /\ LiveAs(x) # {}}
    /\ UNCHANGED <<blocks, named, produced, quiet>>

\* A line with a comment that suppresses findings; one is enough here.
Comment ==
    /\ Write
    /\ quiet = {} /\ quiet' = {Here}
    /\ UNCHANGED <<blocks, named, sent, handed, produced, traits, ahead>>

\* The declaration that produces the logger Made.
Produce ==
    /\ Statement("any")
    /\ Made \notin produced /\ produced' = produced \cup {Made}
    /\ UNCHANGED <<blocks, named, sent, handed, traits, quiet>>

End ==
    /\ ~ended /\ Len(blocks) = 1 /\ ahead # "brace"
    /\ ended' = TRUE
    /\ UNCHANGED <<language, line, blocks, named, sent, handed, produced, traits, quiet, ahead>>
=============================================================================
