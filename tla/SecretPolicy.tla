---------------------------- MODULE SecretPolicy ----------------------------
(***************************************************************************)
(* The scan for committed secrets (scanTrackedRepository() in              *)
(* src/secret-policy.mjs and its command, scripts/check-secret-policy.mjs).*)
(* The list of tracked paths is taken once.  Each path is then judged by   *)
(* its name, looked at with lstat and read, with an await in front of      *)
(* either, and in those awaits the working tree changes.                   *)
(*                                                                         *)
(* A path is its directory and the kind of its name; a file is what kind of*)
(* thing it is, whether it holds a credential, and its lines as a dotenv.  *)
(***************************************************************************)
EXTENDS Naturals, Sequences, FiniteSetsExt, SequencesExt

CONSTANTS
    Repositories,   \* the repositories to scan: sequences of a path, sorted, and
                    \* of what is there
    Contents,       \* what may be there
    Edits,          \* what may be there after a change
    MaxChanges      \* bound on the changes during a scan

Dirs  == {"top", "other", "env/enc", "env/dec", "secrets"}
\* example: .env.example and its like; dotenv: .env, .env.*, *.env; sopsenv:
\* *.sops.env; sopsjson: *.sops.json and its like; devenc: dev.env.enc or
\* prod.env.enc; otherenc: any other *.env.enc; config: .sops.yaml; document:
\* README.md, .gitkeep; odd: with a control character.
Names == {"example", "dotenv", "sopsenv", "sopsjson", "devenc", "otherenc",
          "config", "document", "plain", "odd"}
Paths == [dir : Dirs, name : Names]

\* A line of a dotenv: its key, and whether its value has the form the key
\* asks for; a payload or a comment is good if it is ENC[...].
Payloads == {"PASSWORD", "TOKEN"}
Optional == {"lastmodified"}
AgePairs == {<<"age0_enc", "age0_recipient">>, <<"age1_enc", "age1_recipient">>}
AgeKeys  == UNION {{pair[1], pair[2]} : pair \in AgePairs}
Metadata == {"mac", "version"} \cup Optional \cup AgeKeys
LineKeys == Payloads \cup Metadata \cup {"blank", "comment", "broken", "sops_unknown"}
Lines    == [key : LineKeys, good : BOOLEAN]

File    == [type : {"file"}, big : BOOLEAN, credential : BOOLEAN, doc : Seq(Lines)]
\* missing: lstat fails, as on a path below what is no directory any more;
\* unreadable: lstat sees a file, and opening it fails.
NoFile  == [type : {"symlink", "directory", "missing", "unreadable"}]

ASSUME SecretPolicyAssumption ==
    /\ \A r \in Repositories : r # <<>> /\ r \in Seq(Paths \X Contents)
    /\ \A c \in Contents : c \in File \/ c \in NoFile
    /\ Edits \subseteq Contents
    /\ MaxChanges \in Nat

VARIABLES
    tracked,     \* what git ls-files printed
    tree,        \* the working tree, by position in tracked
    position,    \* the path the scan is at
    stage,       \* ... and the step it takes next
    findings,    \* pairs of a position and a rule
    exitCode,    \* of the command, none before it ends
    changes,     \* changes of the tree since the scan began
    seen         \* the states each file was in since then (history)

vars == <<tracked, tree, position, stage, findings, exitCode, changes, seen>>

Rules == {"unsafe-tracked-path", "tracked-plaintext-env", "sops-outside-approved-path",
          "noncanonical-encrypted-env", "unencrypted-secret-path",
          "unsupported-sops-format", "tracked-symlink", "oversized-tracked-file",
          "invalid-sops-dotenv", "credential"}

TypeOK ==
    /\ tracked \in Seq(Paths)
    /\ tree \in [DOMAIN tracked -> Contents]
    /\ position \in 1 .. Len(tracked) + 1
    /\ stage \in {"path", "lstat", "read", "ended", "rejected"}
    /\ findings \subseteq (DOMAIN tracked) \X Rules
    /\ exitCode \in {"none", "ok", "failed"}
    /\ changes \in 0 .. MaxChanges
    /\ seen \in [DOMAIN tracked -> SUBSET Contents]

Init ==
    /\ \E r \in Repositories :
          /\ tracked = [n \in DOMAIN r |-> r[n][1]]
          /\ tree = [n \in DOMAIN r |-> r[n][2]]
    /\ position = 1 /\ stage = "path"
    /\ findings = {} /\ exitCode = "none" /\ changes = 0
    /\ seen = [n \in DOMAIN tracked |-> {tree[n]}]

-----------------------------------------------------------------------------
(* Names.                                                                   *)

IsSopsConfig(p)   == p.dir = "top" /\ p.name = "config"
IsSopsArtifact(p) == p.name \in {"sopsenv", "sopsjson", "devenc", "otherenc", "config"}
IsApprovedLegacy(p)     == p.dir = "secrets" /\ p.name = "sopsenv"
IsApprovedCiphertext(p) == p.dir = "env/enc" /\ p.name = "devenc"
IsApprovedSops(p)       == IsApprovedLegacy(p) \/ IsApprovedCiphertext(p)

\* (mutant) an example is plaintext like any other.
IsDotenvByName(p) ==
    /\ ~IsSopsConfig(p) /\ ~IsSopsArtifact(p)
    /\ p.dir = "env/dec" \/ p.name \in {"dotenv", "example"}

IsPlaintextDotenv(p) ==
    /\ p.name # "example"
    /\ ~IsSopsConfig(p) /\ ~IsSopsArtifact(p)
    /\ p.dir = "env/dec" \/ p.name = "dotenv"

\* The rules that a path breaks by its name.
PathRules(p) ==
    {r \in {"tracked-plaintext-env"} : IsPlaintextDotenv(p)} \cup
    {r \in {"sops-outside-approved-path"} :
        /\ IsSopsArtifact(p) /\ ~IsSopsConfig(p) /\ ~IsApprovedSops(p)
        /\ p.dir \notin {"secrets", "env/enc"}} \cup
    {r \in {"noncanonical-encrypted-env", "unencrypted-secret-path"} :
        /\ p.dir = "env/enc" /\ ~IsApprovedCiphertext(p)
        /\ IsSopsArtifact(p) <=> r = "noncanonical-encrypted-env"} \cup
    {r \in {"unsupported-sops-format", "unencrypted-secret-path"} :
        /\ p.dir = "secrets" /\ p.name # "document" /\ ~IsApprovedLegacy(p)
        /\ IsSopsArtifact(p) <=> r = "unsupported-sops-format"}

-----------------------------------------------------------------------------
(* Contents.                                                                *)

KeysIn(doc)  == {doc[n].key : n \in DOMAIN doc}
Entries(doc) == {n \in DOMAIN doc : doc[n].key \notin {"blank", "comment"}}

\* The first loop: each line is blank, an encrypted comment or an assignment,
\* and no key is assigned twice.
Parses(doc) ==
    /\ "broken" \notin KeysIn(doc)
    /\ \A n \in DOMAIN doc : doc[n].key = "comment" => doc[n].good
    /\ \A m, n \in Entries(doc) : doc[m].key = doc[n].key => m = n

\* The second loop: payload is encrypted, metadata is known and well formed.
\* The form of age fields is looked at below.
EntriesValid(doc) ==
    \A n \in Entries(doc) :
        /\ doc[n].key # "sops_unknown"
        /\ doc[n].key \notin AgeKeys => doc[n].good

HasPayload(doc)  == KeysIn(doc) \cap (Payloads \cup {"comment"}) # {}
HasMetadata(doc) == {"mac", "version"} \subseteq KeysIn(doc)
GoodKeys(doc)    == {doc[n].key : n \in {m \in DOMAIN doc : doc[m].good}}

\* (mutant) one whole recipient is enough.
SomeRecipient(doc) == \E pair \in AgePairs : {pair[1], pair[2]} \subseteq GoodKeys(doc)

\* Every recipient that is mentioned has its key and its envelope.
Recipients(doc) ==
    /\ KeysIn(doc) \cap AgeKeys # {}
    /\ \A pair \in AgePairs :
          {pair[1], pair[2]} \cap KeysIn(doc) # {} => {pair[1], pair[2]} \subseteq GoodKeys(doc)

\* validateSopsDotenv()
ValidSops(doc) ==
    /\ Parses(doc) /\ EntriesValid(doc)
    /\ HasPayload(doc) /\ HasMetadata(doc) /\ Recipients(doc)

\* The rules that a file breaks by what was read.
ContentRules(p, c) ==
    {r \in {"invalid-sops-dotenv"} : IsApprovedSops(p) /\ ~ValidSops(c.doc)} \cup
    {r \in {"credential"} : ~IsApprovedSops(p) /\ c.credential}

-----------------------------------------------------------------------------
(* The scan.                                                                *)

Here == tracked[position]
Add(rules) == findings' = findings \cup ({position} \X rules)

To(next) == stage' = next /\ UNCHANGED position
NextPath ==
    /\ position' = position + 1
    /\ stage' = IF position = Len(tracked) THEN "ended" ELSE "path"

CheckPath ==
    /\ stage = "path"
    /\ IF Here.name = "odd"
       THEN Add({"unsafe-tracked-path"}) /\ NextPath
       ELSE Add(PathRules(Here)) /\ To("lstat")
    /\ UNCHANGED <<tracked, tree, exitCode, changes, seen>>

Look ==
    /\ stage = "lstat"
    /\ tree[position].type # "missing"
    /\ LET c == tree[position] IN
       CASE c.type = "symlink"   -> Add({"tracked-symlink"}) /\ NextPath
         [] c.type = "directory" -> NextPath /\ UNCHANGED findings
         [] c.type = "file" /\ c.big  -> Add({"oversized-tracked-file"}) /\ NextPath
         [] c.type = "file" /\ ~c.big -> To("read") /\ UNCHANGED findings
         [] c.type = "unreadable"     -> To("read") /\ UNCHANGED findings
    /\ UNCHANGED <<tracked, tree, exitCode, changes, seen>>

\* The file is what it is by now; a link that replaced it is followed, to a
\* file or to something that cannot be read.
Read ==
    /\ stage = "read"
    /\ \/ tree[position].type = "file" /\ Add(ContentRules(Here, tree[position]))
       \/ /\ tree[position].type = "symlink"
          /\ \E c \in Contents : c.type = "file" /\ Add(ContentRules(Here, c))
    /\ NextPath
    /\ UNCHANGED <<tracked, tree, exitCode, changes, seen>>

Rejects ==
    \/ stage \in {"lstat", "read"} /\ tree[position].type = "missing"
    \/ stage = "read" /\ tree[position].type \in {"directory", "unreadable", "symlink"}

\* (mutant) whoever catches what lstat and readFile throw ends the scan early.
RejectSilently ==
    /\ Rejects
    /\ stage' = "rejected"
    /\ exitCode' = IF findings = {} THEN "ok" ELSE "failed"
    /\ UNCHANGED <<tracked, tree, position, findings, changes, seen>>

\* lstat or readFile throws (ENOENT, ENOTDIR, EACCES; EISDIR for a directory that
\* replaced a file; any of them, or ELOOP, behind a link that did): the scan
\* rejects, what it found is not printed, and the command fails.
Reject ==
    /\ Rejects
    /\ stage' = "rejected"
    /\ exitCode' = "failed"
    /\ UNCHANGED <<tracked, tree, position, findings, changes, seen>>

Exit ==
    /\ stage = "ended" /\ exitCode = "none"
    /\ exitCode' = IF findings = {} THEN "ok" ELSE "failed"
    /\ UNCHANGED <<tracked, tree, position, stage, findings, changes, seen>>

\* Somebody edits, replaces or removes a tracked file while the scan awaits.
Change(n, c) ==
    /\ exitCode = "none" /\ changes < MaxChanges
    /\ tree[n] # c
    /\ tree' = [tree EXCEPT ![n] = c]
    /\ seen' = [seen EXCEPT ![n] = @ \cup {c}]
    /\ changes' = changes + 1
    /\ UNCHANGED <<tracked, position, stage, findings, exitCode>>

ScanStep == CheckPath \/ Look \/ Read \/ Reject \/ Exit

Next == ScanStep \/ \E n \in DOMAIN tracked, c \in Edits : Change(n, c)

Spec == Init /\ [][Next]_vars

-----------------------------------------------------------------------------
(* Properties.                                                              *)

\* What may be committed, in the terms of env/README.md and not of the scanner.
\* Ciphertext: every line is encrypted or metadata, something is in it, it can
\* be verified, and whoever it names as a recipient can open it, one at least.
Ciphertext(doc) ==
    LET Once(key)   == \E n \in DOMAIN doc : \A m \in DOMAIN doc : doc[m].key = key <=> m = n
        Holds(keys) == \E n \in DOMAIN doc : doc[n].key \in keys
    IN /\ \A n \in DOMAIN doc :
             \/ doc[n].key = "blank"
             \/ doc[n].good /\ doc[n].key = "comment"
             \/ doc[n].good /\ doc[n].key \in Payloads \cup Metadata /\ Once(doc[n].key)
       /\ Holds(Payloads \cup {"comment"})
       /\ Once("mac") /\ Once("version")
       /\ Holds(AgeKeys)
       /\ \A pair \in AgePairs : Once(pair[1]) <=> Once(pair[2])

\* Nothing in env/dec, only ciphertext in env/enc and secrets, and no plaintext
\* dotenv elsewhere but examples.
NameAllowed(p) ==
    /\ p.name # "odd" /\ p.dir # "env/dec"
    /\ CASE p.dir = "env/enc" -> p.name = "devenc"
         [] p.dir = "secrets" -> p.name \in {"document", "sopsenv"}
         [] OTHER -> p.name \in {"plain", "document", "example"} \/ IsSopsConfig(p)

\* What is there is shown to hold no secret: what cannot be read is not.
Harmless(p, c) ==
    /\ c.type \in {"file", "directory"}
    /\ c.type = "file" =>
          /\ ~c.big
          /\ IF p.name \in {"devenc", "sopsenv"} THEN Ciphertext(c.doc) ELSE ~c.credential

MayBeTracked(p, c) == NameAllowed(p) /\ Harmless(p, c)

\* The one disagreement of the scanner with env/README.md ("Never commit
\* anything under env/dec/", :57): the name of an example excuses a file there
\* too (src/secret-policy.mjs:71).
ExampleInDec(p) == p.dir = "env/dec" /\ p.name = "example"

\* A command that succeeds has seen every tracked file: one that nobody touched
\* during the scan holds no secret and has a name that may be tracked, the
\* examples in env/dec apart, whatever happened to the others.
SuccessMeansClean ==
    exitCode = "ok" =>
        \A n \in DOMAIN tracked : seen[n] = {tree[n]} =>
            /\ Harmless(tracked[n], tree[n])
            /\ NameAllowed(tracked[n]) \/ ExampleInDec(tracked[n])

\* A finding is no phantom of the two looks at a file: in some state the file
\* was in during the scan it may not be tracked.
FindingsAreReal ==
    \A f \in findings : \E c \in seen[f[1]] : ~MayBeTracked(tracked[f[1]], c)

\* The scan gives up only on what was no file it could read at some moment, and
\* on something that nobody touched only if it is gone or cannot be opened: no
\* link, directory, content or order of the two looks makes it throw.  Then the
\* command fails, whatever was found before.
RejectionIsExplained ==
    stage = "rejected" =>
        /\ exitCode = "failed"
        /\ \E c \in seen[position] : c.type # "file"
        /\ seen[position] = {tree[position]} => tree[position].type \in {"missing", "unreadable"}
=============================================================================
