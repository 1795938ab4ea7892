------------------------- MODULE SecretPolicy_proofs -------------------------
(***************************************************************************)
(* The scan for committed secrets, for all repositories, contents and      *)
(* changes during the scan.                                                *)
(*                                                                         *)
(* First, without any state: the checks of the scanner on a name and on a  *)
(* dotenv document amount to what may be tracked and to what is ciphertext.*)
(* Then the scan: a position that was passed without a finding was judged  *)
(* on the name and on each look at the file, and a file that was in one    *)
(* state only was looked at in that state.                                 *)
(***************************************************************************)
EXTENDS SecretPolicy, TLAPS

\* What the scanner lets through: what may be tracked, and examples in env/dec.
NameFits(p) == NameAllowed(p) \/ ExampleInDec(p)
Fit(p, c)   == NameFits(p) /\ Harmless(p, c)

\* The scan ends behind the last path or gives up at one, and then it exits.
PositionInv ==
    /\ stage \in {"path", "lstat", "read", "rejected"} => position <= Len(tracked)
    /\ stage = "ended" => position = Len(tracked) + 1
    /\ exitCode # "none" => stage \in {"ended", "rejected"}
    /\ exitCode = "ok" => stage = "ended" /\ findings = {}

SeenInv == \A n \in DOMAIN tracked : tree[n] \in seen[n]

\* Where nothing was found, what was passed by is fit.
PassedInv ==
    findings = {} =>
        \A n \in DOMAIN tracked : n < position /\ seen[n] = {tree[n]} =>
            Fit(tracked[n], tree[n])

\* Behind each await, what was checked before it.
HereInv ==
    /\ stage \in {"lstat", "read"} =>
          Here.name # "odd" /\ (findings = {} => PathRules(Here) = {})
    /\ stage = "read" /\ seen[position] = {tree[position]} =>
          \/ tree[position].type = "file" /\ ~tree[position].big
          \/ tree[position].type = "unreadable"

IInv ==
    /\ TypeOK /\ PositionInv /\ SeenInv /\ PassedInv /\ HereInv
    /\ FindingsAreReal /\ RejectionIsExplained

USE SecretPolicyAssumption
-----------------------------------------------------------------------------
(* Names.                                                                   *)

\* A name breaks no rule exactly when it may be tracked, or is an example's.
LEMMA NamesJudged ==
    ASSUME NEW p \in Paths, p.name # "odd"
    PROVE  PathRules(p) = {} <=> NameFits(p)
<1>1. /\ IsPlaintextDotenv(p) => "tracked-plaintext-env" \in PathRules(p)
      /\ (/\ IsSopsArtifact(p) /\ ~IsSopsConfig(p) /\ ~IsApprovedSops(p)
          /\ p.dir \notin {"secrets", "env/enc"})
         => "sops-outside-approved-path" \in PathRules(p)
      /\ p.dir = "env/enc" /\ ~IsApprovedCiphertext(p) =>
            \/ "noncanonical-encrypted-env" \in PathRules(p)
            \/ "unencrypted-secret-path" \in PathRules(p)
      /\ p.dir = "secrets" /\ p.name # "document" /\ ~IsApprovedLegacy(p) =>
            \/ "unsupported-sops-format" \in PathRules(p)
            \/ "unencrypted-secret-path" \in PathRules(p)
  BY DEF PathRules
<1>2. ASSUME NEW r \in PathRules(p)
      PROVE  \/ IsPlaintextDotenv(p)
             \/ /\ IsSopsArtifact(p) /\ ~IsSopsConfig(p) /\ ~IsApprovedSops(p)
                /\ p.dir \notin {"secrets", "env/enc"}
             \/ p.dir = "env/enc" /\ ~IsApprovedCiphertext(p)
             \/ p.dir = "secrets" /\ p.name # "document" /\ ~IsApprovedLegacy(p)
  BY DEF PathRules
<1>3. p.dir \in Dirs /\ p.name \in Names
  BY DEF Paths
<1> QED
  BY <1>1, <1>2, <1>3 DEF NameFits, NameAllowed, ExampleInDec, IsPlaintextDotenv,
     IsSopsArtifact, IsSopsConfig, IsApprovedSops, IsApprovedLegacy, IsApprovedCiphertext, Dirs, Names

\* The scanner validates exactly the names that must be ciphertext.
LEMMA ApprovedNames ==
    ASSUME NEW p \in Paths, NameFits(p)
    PROVE  IsApprovedSops(p) <=> p.name \in {"devenc", "sopsenv"}
<1>1. p.dir \in Dirs /\ p.name \in Names
  BY DEF Paths
<1> QED
  BY <1>1 DEF NameFits, NameAllowed, ExampleInDec, IsSopsConfig, IsApprovedSops,
     IsApprovedLegacy, IsApprovedCiphertext, Dirs, Names

-----------------------------------------------------------------------------
(* Documents.                                                               *)

Once(doc, key)   == \E n \in DOMAIN doc : \A m \in DOMAIN doc : doc[m].key = key <=> m = n
Holds(doc, keys) == \E n \in DOMAIN doc : doc[n].key \in keys

LEMMA CiphertextIs ==
    ASSUME NEW doc
    PROVE  Ciphertext(doc) <=>
             /\ \A n \in DOMAIN doc :
                   \/ doc[n].key = "blank"
                   \/ doc[n].good /\ doc[n].key = "comment"
                   \/ doc[n].good /\ doc[n].key \in Payloads \cup Metadata /\ Once(doc, doc[n].key)
             /\ Holds(doc, Payloads \cup {"comment"})
             /\ Once(doc, "mac") /\ Once(doc, "version")
             /\ Holds(doc, AgeKeys)
             /\ \A pair \in AgePairs : Once(doc, pair[1]) <=> Once(doc, pair[2])
BY DEF Ciphertext, Once, Holds

LEMMA LineTypes ==
    ASSUME NEW doc \in Seq(Lines), NEW n \in DOMAIN doc
    PROVE  doc[n].key \in LineKeys /\ doc[n].good \in BOOLEAN
<1>1. doc[n] \in Lines
  OBVIOUS
<1> QED
  BY <1>1 DEF Lines

\* What the keys are, in one place.
LEMMA KeyFacts ==
    /\ LineKeys = Payloads \cup Metadata \cup {"blank", "comment", "broken", "sops_unknown"}
    /\ Metadata = {"mac", "version", "lastmodified"} \cup AgeKeys
    /\ AgeKeys = {"age0_enc", "age0_recipient", "age1_enc", "age1_recipient"}
    /\ \A pair \in AgePairs : pair[1] \in AgeKeys /\ pair[2] \in AgeKeys
    /\ \A key \in AgeKeys : \E pair \in AgePairs : key = pair[1] \/ key = pair[2]
    /\ (Payloads \cup Metadata) \cap {"blank", "comment", "broken", "sops_unknown"} = {}
    /\ AgeKeys \cap ({"mac", "version"} \cup Payloads) = {}
<1>1. AgeKeys = {"age0_enc", "age0_recipient", "age1_enc", "age1_recipient"}
  BY DEF AgeKeys, AgePairs
<1>2. LineKeys = Payloads \cup Metadata \cup {"blank", "comment", "broken", "sops_unknown"}
  BY DEF LineKeys
<1>3. Metadata = {"mac", "version", "lastmodified"} \cup AgeKeys
  BY DEF Metadata, Optional
<1>4. \A pair \in AgePairs : pair[1] \in AgeKeys /\ pair[2] \in AgeKeys
  BY <1>1 DEF AgePairs
<1>5. \A key \in AgeKeys : \E pair \in AgePairs : key = pair[1] \/ key = pair[2]
  BY <1>1 DEF AgePairs
<1>6. (Payloads \cup Metadata) \cap {"blank", "comment", "broken", "sops_unknown"} = {}
  BY <1>1, <1>3 DEF Payloads
<1>7. AgeKeys \cap ({"mac", "version"} \cup Payloads) = {}
  BY <1>1 DEF Payloads
<1> QED
  BY <1>1, <1>2, <1>3, <1>4, <1>5, <1>6, <1>7

\* In a document that parses, a key that occurs occurs once.
LEMMA ParsedOnce ==
    ASSUME NEW doc \in Seq(Lines), Parses(doc), NEW n \in DOMAIN doc,
           doc[n].key \in Payloads \cup Metadata
    PROVE  Once(doc, doc[n].key)
<1>1. doc[n].key \notin {"blank", "comment"}
  BY KeyFacts
<1>2. \A m \in DOMAIN doc : doc[m].key = doc[n].key => m = n
  BY <1>1 DEF Parses, Entries
<1> QED
  BY <1>2 DEF Once

LEMMA ValidIsCiphertext ==
    ASSUME NEW doc \in Seq(Lines), ValidSops(doc)
    PROVE  Ciphertext(doc)
<1>1. Parses(doc) /\ EntriesValid(doc) /\ HasPayload(doc) /\ HasMetadata(doc) /\ Recipients(doc)
  BY DEF ValidSops
<1>2. ASSUME NEW n \in DOMAIN doc, doc[n].key \in AgeKeys PROVE doc[n].good
  <2>1. PICK pair \in AgePairs : doc[n].key = pair[1] \/ doc[n].key = pair[2]
    BY <1>2, KeyFacts
  <2>2. doc[n].key \in KeysIn(doc)
    BY DEF KeysIn
  <2>3. doc[n].key \in GoodKeys(doc)
    BY <1>1, <2>1, <2>2 DEF Recipients
  <2>4. PICK m \in DOMAIN doc : doc[m].good /\ doc[m].key = doc[n].key
    BY <2>3 DEF GoodKeys
  <2>5. doc[n].key \notin {"blank", "comment"}
    BY <1>2, KeyFacts
  <2>6. m = n
    BY <1>1, <2>4, <2>5 DEF Parses, Entries
  <2> QED
    BY <2>4, <2>6
<1>3. ASSUME NEW n \in DOMAIN doc
      PROVE  \/ doc[n].key = "blank"
             \/ doc[n].good /\ doc[n].key = "comment"
             \/ doc[n].good /\ doc[n].key \in Payloads \cup Metadata /\ Once(doc, doc[n].key)
  <2>1. CASE doc[n].key = "comment"
    BY <1>1, <2>1 DEF Parses
  <2>2. CASE doc[n].key \notin {"blank", "comment"}
    <3>1. doc[n].key # "broken"
      BY <1>1 DEF Parses, KeysIn
    <3>2. doc[n].key # "sops_unknown" /\ (doc[n].key \notin AgeKeys => doc[n].good)
      BY <1>1, <2>2 DEF EntriesValid, Entries
    <3>3. doc[n].key \in Payloads \cup Metadata
      BY <2>2, <3>1, <3>2, LineTypes, KeyFacts
    <3> QED
      BY <1>1, <1>2, <3>2, <3>3, ParsedOnce
  <2> QED
    BY <2>1, <2>2
<1>4. Holds(doc, Payloads \cup {"comment"}) /\ Holds(doc, AgeKeys)
  BY <1>1 DEF HasPayload, Recipients, KeysIn, Holds
<1>5. ASSUME NEW key \in Payloads \cup Metadata, key \in KeysIn(doc) PROVE Once(doc, key)
  BY <1>1, <1>5, ParsedOnce DEF KeysIn
<1>6. Once(doc, "mac") /\ Once(doc, "version")
  BY <1>1, <1>5, KeyFacts DEF HasMetadata
<1>7. \A key : Once(doc, key) => key \in KeysIn(doc)
  BY DEF Once, KeysIn
<1>8. GoodKeys(doc) \subseteq KeysIn(doc)
  BY DEF GoodKeys, KeysIn
<1>9. ASSUME NEW pair \in AgePairs PROVE Once(doc, pair[1]) <=> Once(doc, pair[2])
  <2>1. pair[1] \in Payloads \cup Metadata /\ pair[2] \in Payloads \cup Metadata
    BY KeyFacts
  <2>2. pair[1] \in KeysIn(doc) <=> pair[2] \in KeysIn(doc)
    BY <1>1, <1>8 DEF Recipients
  <2> QED
    BY <1>5, <1>7, <2>1, <2>2
<1> QED
  BY <1>3, <1>4, <1>6, <1>9, CiphertextIs

LEMMA CiphertextIsValid ==
    ASSUME NEW doc \in Seq(Lines), Ciphertext(doc)
    PROVE  ValidSops(doc)
<1>1. \A n \in DOMAIN doc :
         \/ doc[n].key = "blank"
         \/ doc[n].good /\ doc[n].key = "comment"
         \/ doc[n].good /\ doc[n].key \in Payloads \cup Metadata /\ Once(doc, doc[n].key)
  BY CiphertextIs
<1>2. /\ Holds(doc, Payloads \cup {"comment"}) /\ Once(doc, "mac") /\ Once(doc, "version")
      /\ Holds(doc, AgeKeys)
      /\ \A pair \in AgePairs : Once(doc, pair[1]) <=> Once(doc, pair[2])
  BY CiphertextIs
<1>3. ASSUME NEW m \in Entries(doc)
      PROVE  doc[m].good /\ doc[m].key \in Payloads \cup Metadata /\ Once(doc, doc[m].key)
  BY <1>1 DEF Entries
<1>4. Parses(doc)
  <2>1. "broken" \notin KeysIn(doc)
    BY <1>1, KeyFacts DEF KeysIn
  <2>2. \A n \in DOMAIN doc : doc[n].key = "comment" => doc[n].good
    BY <1>1, KeyFacts
  <2>3. \A m, n \in Entries(doc) : doc[m].key = doc[n].key => m = n
    BY <1>3 DEF Once, Entries
  <2> QED
    BY <2>1, <2>2, <2>3 DEF Parses
<1>5. EntriesValid(doc)
  BY <1>3, KeyFacts DEF EntriesValid
<1>6. HasPayload(doc) /\ HasMetadata(doc)
  BY <1>2 DEF HasPayload, HasMetadata, KeysIn, Holds, Once
<1>7. KeysIn(doc) \cap AgeKeys # {}
  BY <1>2 DEF Holds, KeysIn
<1>8. \A key \in AgeKeys : key \in KeysIn(doc) => Once(doc, key) /\ key \in GoodKeys(doc)
  <2> SUFFICES ASSUME NEW n \in DOMAIN doc, doc[n].key \in AgeKeys
               PROVE  Once(doc, doc[n].key) /\ doc[n].key \in GoodKeys(doc)
    BY DEF KeysIn
  <2>1. n \in Entries(doc)
    BY KeyFacts DEF Entries
  <2> QED
    BY <1>3, <2>1 DEF GoodKeys
<1>9. \A key : Once(doc, key) => key \in KeysIn(doc)
  BY DEF Once, KeysIn
<1>10. Recipients(doc)
  <2>1. ASSUME NEW pair \in AgePairs, {pair[1], pair[2]} \cap KeysIn(doc) # {}
        PROVE  {pair[1], pair[2]} \subseteq GoodKeys(doc)
    BY <1>2, <1>8, <1>9, <2>1, KeyFacts
  <2> QED
    BY <1>7, <2>1 DEF Recipients
<1> QED
  BY <1>4, <1>5, <1>6, <1>10 DEF ValidSops

\* What validateSopsDotenv() accepts is ciphertext, and all of it.
THEOREM SopsJudged == ASSUME NEW doc \in Seq(Lines) PROVE ValidSops(doc) <=> Ciphertext(doc)
BY ValidIsCiphertext, CiphertextIsValid

-----------------------------------------------------------------------------
(* Files.                                                                   *)

LEMMA ContentTypes ==
    ASSUME NEW c \in Contents
    PROVE  /\ c.type \in {"file", "symlink", "directory", "missing", "unreadable"}
           /\ c.type = "file" => c.doc \in Seq(Lines)
<1>1. c \in File \/ c \in NoFile
  OBVIOUS
<1> QED
  BY <1>1 DEF File, NoFile

LEMMA FitIs ==
    ASSUME NEW p \in Paths, NEW c \in Contents
    PROVE  /\ Fit(p, c) <=>
                /\ NameFits(p)
                /\ c.type \in {"file", "directory"}
                /\ c.type = "file" => ~c.big /\ ContentRules(p, c) = {}
           /\ MayBeTracked(p, c) => Fit(p, c)
<1>1. Fit(p, c) <=>
        /\ NameFits(p) /\ c.type \in {"file", "directory"}
        /\ c.type = "file" =>
              /\ ~c.big
              /\ IF p.name \in {"devenc", "sopsenv"} THEN Ciphertext(c.doc) ELSE ~c.credential
  BY DEF Fit, Harmless
<1>2. ASSUME c.type = "file", NameFits(p)
      PROVE  (IF p.name \in {"devenc", "sopsenv"} THEN Ciphertext(c.doc) ELSE ~c.credential)
               <=> ContentRules(p, c) = {}
  <2>1. ValidSops(c.doc) <=> Ciphertext(c.doc)
    BY <1>2, ContentTypes, SopsJudged
  <2>2. IsApprovedSops(p) <=> p.name \in {"devenc", "sopsenv"}
    BY <1>2, ApprovedNames
  <2>3. ContentRules(p, c) = {} <=>
          ~(IsApprovedSops(p) /\ ~ValidSops(c.doc)) /\ ~(~IsApprovedSops(p) /\ c.credential)
    BY DEF ContentRules
  <2> QED
    BY <2>1, <2>2, <2>3
<1>3. MayBeTracked(p, c) => Fit(p, c)
  BY DEF MayBeTracked, Fit, NameFits
<1> QED
  BY <1>1, <1>2, <1>3

-----------------------------------------------------------------------------
(* The scan.                                                                *)

LEMMA InitIInv == Init => IInv
<1> SUFFICES ASSUME Init PROVE IInv
  OBVIOUS
<1>1. PICK r \in Repositories : /\ tracked = [n \in DOMAIN r |-> r[n][1]]
                                /\ tree = [n \in DOMAIN r |-> r[n][2]]
  BY DEF Init
<1>2. r \in Seq(Paths \X Contents) /\ r # <<>>
  OBVIOUS
<1>3. Len(r) \in Nat \ {0} /\ DOMAIN r = 1 .. Len(r)
  BY <1>2
<1>4. \A n \in DOMAIN r : r[n][1] \in Paths /\ r[n][2] \in Contents
  <2> SUFFICES ASSUME NEW n \in DOMAIN r PROVE r[n][1] \in Paths /\ r[n][2] \in Contents
    OBVIOUS
  <2>1. r[n] \in Paths \X Contents
    BY <1>2
  <2> QED
    BY <2>1
<1>5. /\ tracked \in Seq(Paths) /\ Len(tracked) = Len(r) /\ DOMAIN tracked = DOMAIN r
      /\ tree \in [DOMAIN tracked -> Contents]
  BY <1>1, <1>3, <1>4
<1>6. seen \in [DOMAIN tracked -> SUBSET Contents] /\ SeenInv
  BY <1>5 DEF Init, SeenInv
<1>7. TypeOK
  BY <1>3, <1>5, <1>6 DEF Init, TypeOK
<1>8. PositionInv /\ HereInv /\ FindingsAreReal /\ RejectionIsExplained
  BY <1>3, <1>5 DEF Init, PositionInv, HereInv, FindingsAreReal, RejectionIsExplained
<1>9. PassedInv
  BY <1>3, <1>5 DEF Init, PassedInv
<1> QED
  BY <1>6, <1>7, <1>8, <1>9 DEF IInv

\* Where the scan is.
LEMMA Whereabouts ==
    ASSUME IInv, stage \in {"path", "lstat", "read"}
    PROVE  /\ position \in DOMAIN tracked /\ Here \in Paths
           /\ tree[position] \in Contents /\ tree[position] \in seen[position]
           /\ seen[position] \subseteq Contents
           /\ position \in 1 .. Len(tracked) /\ DOMAIN tracked = 1 .. Len(tracked)
           /\ Len(tracked) \in Nat
<1>1. tracked \in Seq(Paths) /\ position \in 1 .. Len(tracked) + 1 /\ position <= Len(tracked)
  BY DEF IInv, TypeOK, PositionInv
<1>2. /\ position \in DOMAIN tracked /\ position \in 1 .. Len(tracked)
      /\ DOMAIN tracked = 1 .. Len(tracked) /\ Len(tracked) \in Nat
  BY <1>1
<1> QED
  BY <1>1, <1>2 DEF IInv, TypeOK, SeenInv, Here

\* The scan goes on to the next path: what it leaves behind is judged, and what
\* it adds is real.
LEMMA Passing ==
    ASSUME IInv, stage \in {"path", "lstat", "read"}, NextPath,
           NEW rules \in SUBSET Rules, findings' = findings \cup ({position} \X rules),
           UNCHANGED <<tracked, tree, exitCode, changes, seen>>, exitCode = "none",
           rules # {} => \E c \in seen[position] : ~MayBeTracked(Here, c),
           findings = {} /\ rules = {} /\ seen[position] = {tree[position]} =>
               Fit(Here, tree[position])
    PROVE  IInv'
<1>1. /\ position \in DOMAIN tracked /\ position \in 1 .. Len(tracked)
      /\ DOMAIN tracked = 1 .. Len(tracked) /\ Len(tracked) \in Nat
  BY Whereabouts
<1>2. /\ position' = position + 1
      /\ stage' = IF position = Len(tracked) THEN "ended" ELSE "path"
  BY DEF NextPath
<1>3. findings' \subseteq (DOMAIN tracked) \X Rules
  BY <1>1 DEF IInv, TypeOK
<1>4. TypeOK'
  BY <1>1, <1>2, <1>3 DEF IInv, TypeOK
<1>5. PositionInv'
  BY <1>1, <1>2 DEF PositionInv
<1>6. SeenInv' /\ HereInv' /\ RejectionIsExplained'
  BY <1>2 DEF IInv, SeenInv, HereInv, RejectionIsExplained
<1>7. FindingsAreReal'
  <2>1. ASSUME NEW f \in findings' PROVE \E c \in seen[f[1]] : ~MayBeTracked(tracked[f[1]], c)
    <3>1. CASE f \in findings
      BY <3>1 DEF IInv, FindingsAreReal
    <3>2. CASE f \in {position} \X rules
      BY <3>2 DEF Here
    <3> QED
      BY <2>1, <3>1, <3>2
  <2> QED
    BY <2>1 DEF FindingsAreReal
<1>8. PassedInv'
  <2> SUFFICES ASSUME findings' = {}, NEW n \in DOMAIN tracked, n < position + 1,
                      seen[n] = {tree[n]}
               PROVE  Fit(tracked[n], tree[n])
    BY <1>2 DEF PassedInv
  <2>1. findings = {} /\ rules = {}
    <3>1. \A r \in rules : <<position, r>> \in findings'
      OBVIOUS
    <3> QED
      BY <3>1
  <2>2. CASE n = position
    BY <2>1, <2>2 DEF Here
  <2>3. CASE n # position
    <3>1. n < position
      BY <1>1, <2>3
    <3> QED
      BY <2>1, <3>1 DEF IInv, PassedInv
  <2> QED
    BY <2>2, <2>3
<1> QED
  BY <1>4, <1>5, <1>6, <1>7, <1>8 DEF IInv

\* The command ends last.
LEMMA NotEnded == ASSUME IInv, stage \in {"path", "lstat", "read"} PROVE exitCode = "none"
BY DEF IInv, TypeOK, PositionInv

LEMMA PathRulesAreRules == \A p : PathRules(p) \subseteq Rules
BY DEF PathRules, Rules

LEMMA StepCheckPath == ASSUME IInv, CheckPath PROVE IInv'
<1>0. /\ position \in DOMAIN tracked /\ Here \in Paths
      /\ tree[position] \in Contents /\ tree[position] \in seen[position]
      /\ seen[position] \subseteq Contents
      /\ exitCode = "none" /\ stage = "path"
      /\ UNCHANGED <<tracked, tree, exitCode, changes, seen>>
  BY Whereabouts, NotEnded DEF CheckPath
<1>1. CASE Here.name = "odd"
  <2>1. NextPath /\ findings' = findings \cup ({position} \X {"unsafe-tracked-path"})
    BY <1>1 DEF CheckPath, Add
  <2>2. ~MayBeTracked(Here, tree[position])
    BY <1>1 DEF MayBeTracked, NameAllowed
  <2>3. {"unsafe-tracked-path"} \in SUBSET Rules
    BY DEF Rules
  <2> QED
    BY <1>0, <2>1, <2>2, <2>3, Passing
<1>2. CASE Here.name # "odd"
  <2>1. /\ findings' = findings \cup ({position} \X PathRules(Here))
        /\ stage' = "lstat" /\ UNCHANGED position
    BY <1>2 DEF CheckPath, Add, To
  <2>2. PathRules(Here) # {} => ~MayBeTracked(Here, tree[position])
    BY <1>0, <1>2, NamesJudged, FitIs
  <2>3. findings' \subseteq (DOMAIN tracked) \X Rules
    BY <1>0, <2>1, PathRulesAreRules DEF IInv, TypeOK
  <2>4. TypeOK'
    BY <1>0, <2>1, <2>3 DEF IInv, TypeOK
  <2>5. PositionInv' /\ SeenInv' /\ RejectionIsExplained'
    BY <1>0, <2>1 DEF IInv, PositionInv, SeenInv, RejectionIsExplained
  <2>6. findings' = {} => findings = {} /\ PathRules(Here) = {}
    <3>1. \A r \in PathRules(Here) : <<position, r>> \in findings'
      BY <2>1
    <3> QED
      BY <2>1, <3>1
  <2>7. PassedInv'
    BY <1>0, <2>1, <2>6 DEF IInv, PassedInv
  <2>8. HereInv'
    BY <1>0, <1>2, <2>1, <2>6 DEF HereInv, Here
  <2>9. FindingsAreReal'
    <3>1. ASSUME NEW f \in findings' PROVE \E c \in seen[f[1]] : ~MayBeTracked(tracked[f[1]], c)
      <4>1. CASE f \in findings
        BY <4>1 DEF IInv, FindingsAreReal
      <4>2. CASE f \in {position} \X PathRules(Here)
        <5>1. f[1] = position /\ PathRules(Here) # {}
          BY <4>2
        <5> QED
          BY <1>0, <2>2, <5>1 DEF Here
      <4> QED
        BY <2>1, <3>1, <4>1, <4>2
    <3> QED
      BY <1>0, <3>1 DEF FindingsAreReal
  <2> QED
    BY <2>4, <2>5, <2>7, <2>8, <2>9 DEF IInv
<1> QED
  BY <1>1, <1>2

LEMMA StepLook == ASSUME IInv, Look PROVE IInv'
<1>0. /\ position \in DOMAIN tracked /\ Here \in Paths
      /\ tree[position] \in Contents /\ tree[position] \in seen[position]
      /\ seen[position] \subseteq Contents
      /\ exitCode = "none" /\ stage = "lstat"
      /\ UNCHANGED <<tracked, tree, exitCode, changes, seen>>
  BY Whereabouts, NotEnded DEF Look
<1>1. /\ Here.name # "odd"
      /\ findings = {} => NameFits(Here)
  BY <1>0, NamesJudged DEF IInv, HereInv
<1>2. CASE tree[position].type = "symlink"
  <2>1. NextPath /\ findings' = findings \cup ({position} \X {"tracked-symlink"})
    BY <1>2 DEF Look, Add
  <2>2. ~MayBeTracked(Here, tree[position]) /\ {"tracked-symlink"} \in SUBSET Rules
    BY <1>2 DEF MayBeTracked, Harmless, Rules
  <2> QED
    BY <1>0, <2>1, <2>2, Passing
<1>3. CASE tree[position].type = "directory"
  <2>1. NextPath /\ findings' = findings \cup ({position} \X {})
    BY <1>3 DEF Look
  <2>2. findings = {} => Fit(Here, tree[position])
    BY <1>0, <1>1, <1>3, FitIs
  <2> QED
    BY <1>0, <2>1, <2>2, Passing
<1>4. CASE tree[position].type = "file" /\ tree[position].big
  <2>1. NextPath /\ findings' = findings \cup ({position} \X {"oversized-tracked-file"})
    BY <1>4 DEF Look, Add
  <2>2. ~MayBeTracked(Here, tree[position]) /\ {"oversized-tracked-file"} \in SUBSET Rules
    BY <1>4 DEF MayBeTracked, Harmless, Rules
  <2> QED
    BY <1>0, <2>1, <2>2, Passing
<1>5. CASE \/ tree[position].type = "file" /\ ~tree[position].big
           \/ tree[position].type = "unreadable"
  <2>1. stage' = "read" /\ UNCHANGED <<position, findings>>
    BY <1>5 DEF Look, To
  <2> QED
    BY <1>0, <1>5, <2>1 DEF IInv, TypeOK, PositionInv, SeenInv, PassedInv, HereInv, Here,
       FindingsAreReal, RejectionIsExplained
<1> QED
  BY <1>0, <1>2, <1>3, <1>4, <1>5, ContentTypes DEF Look

LEMMA StepRead == ASSUME IInv, Read PROVE IInv'
<1>0. /\ position \in DOMAIN tracked /\ Here \in Paths
      /\ tree[position] \in Contents /\ tree[position] \in seen[position]
      /\ seen[position] \subseteq Contents
      /\ exitCode = "none" /\ stage = "read"
      /\ UNCHANGED <<tracked, tree, exitCode, changes, seen>> /\ NextPath
  BY Whereabouts, NotEnded DEF Read
<1>1. /\ findings = {} => NameFits(Here)
      /\ seen[position] = {tree[position]} =>
            \/ tree[position].type = "file" /\ ~tree[position].big
            \/ tree[position].type = "unreadable"
  BY <1>0, NamesJudged DEF IInv, HereInv
<1>2. \A c : ContentRules(Here, c) \in SUBSET Rules
  BY DEF ContentRules, Rules
<1>3. CASE tree[position].type = "file" /\ Add(ContentRules(Here, tree[position]))
  <2>1. findings' = findings \cup ({position} \X ContentRules(Here, tree[position]))
    BY <1>3 DEF Add
  <2>2. ContentRules(Here, tree[position]) # {} => ~MayBeTracked(Here, tree[position])
    BY <1>0, <1>3, FitIs
  <2>3. findings = {} /\ ContentRules(Here, tree[position]) = {}
        /\ seen[position] = {tree[position]} => Fit(Here, tree[position])
    BY <1>0, <1>1, <1>3, FitIs
  <2> QED
    BY <1>0, <1>2, <2>1, <2>2, <2>3, Passing
<1>4. ASSUME tree[position].type = "symlink", NEW c \in Contents, Add(ContentRules(Here, c))
      PROVE  IInv'
  <2>1. findings' = findings \cup ({position} \X ContentRules(Here, c))
    BY <1>4 DEF Add
  <2>2. ~MayBeTracked(Here, tree[position]) /\ seen[position] # {tree[position]}
    BY <1>1, <1>4 DEF MayBeTracked, Harmless
  <2> QED
    BY <1>0, <1>2, <2>1, <2>2, Passing
<1> QED
  BY <1>3, <1>4 DEF Read

LEMMA StepReject == ASSUME IInv, Reject PROVE IInv'
<1>1. /\ position \in DOMAIN tracked /\ tree[position] \in seen[position]
      /\ tree[position].type # "file" /\ position <= Len(tracked)
      /\ seen[position] = {tree[position]} => tree[position].type \in {"missing", "unreadable"}
  BY Whereabouts DEF Reject, Rejects, IInv, PositionInv, HereInv
<1>2. /\ stage' = "rejected" /\ exitCode' = "failed"
      /\ UNCHANGED <<tracked, tree, position, findings, changes, seen>>
  BY DEF Reject
<1> QED
  BY <1>1, <1>2 DEF IInv, TypeOK, PositionInv, SeenInv, PassedInv, HereInv, FindingsAreReal,
     RejectionIsExplained

LEMMA StepExit == ASSUME IInv, Exit PROVE IInv'
<1>1. /\ exitCode' = (IF findings = {} THEN "ok" ELSE "failed") /\ stage = "ended"
      /\ UNCHANGED <<tracked, tree, position, stage, findings, changes, seen>>
  BY DEF Exit
<1> QED
  BY <1>1 DEF IInv, TypeOK, PositionInv, SeenInv, PassedInv, HereInv, Here, FindingsAreReal,
     RejectionIsExplained

\* A file that was changed is not in one state only.
LEMMA StepChange ==
    ASSUME IInv, NEW n \in DOMAIN tracked, NEW c \in Edits, Change(n, c)
    PROVE  IInv'
<1>0. /\ exitCode = "none" /\ changes < MaxChanges /\ changes' = changes + 1
      /\ UNCHANGED <<tracked, position, stage, findings, exitCode>>
      /\ c \in Contents /\ tree[n] # c /\ tree[n] \in seen[n]
  BY DEF Change, IInv, SeenInv
<1>1. /\ tree \in [DOMAIN tracked -> Contents]
      /\ seen \in [DOMAIN tracked -> SUBSET Contents] /\ changes \in 0 .. MaxChanges
  BY DEF IInv, TypeOK
<1>2. /\ tree' = [tree EXCEPT ![n] = c] /\ seen' = [seen EXCEPT ![n] = seen[n] \cup {c}]
      /\ tree' \in [DOMAIN tracked -> Contents]
      /\ seen' \in [DOMAIN tracked -> SUBSET Contents]
  BY <1>0, <1>1 DEF Change
<1>3. ASSUME NEW m \in DOMAIN tracked
      PROVE  /\ seen[m] \subseteq seen'[m] /\ tree'[m] \in seen'[m]
             /\ seen'[m] = {tree'[m]} => seen[m] = {tree[m]} /\ tree'[m] = tree[m]
  <2>1. CASE m = n
    BY <1>0, <1>1, <1>2, <2>1
  <2>2. CASE m # n
    BY <1>1, <1>2, <2>2 DEF IInv, SeenInv
  <2> QED
    BY <2>1, <2>2
<1>4. TypeOK'
  <2>1. changes' \in 0 .. MaxChanges
    BY <1>0, <1>1
  <2> QED
    BY <1>0, <1>2, <2>1 DEF IInv, TypeOK
<1>5. PositionInv' /\ SeenInv'
  BY <1>0, <1>3 DEF IInv, PositionInv, SeenInv
<1>6. PassedInv'
  BY <1>0, <1>3 DEF IInv, PassedInv
<1>7. HereInv' /\ RejectionIsExplained'
  <2>1. stage \in {"lstat", "read", "rejected"} => position \in DOMAIN tracked
    BY DEF IInv, TypeOK, PositionInv
  <2> QED
    BY <1>0, <1>3, <2>1 DEF IInv, HereInv, Here, RejectionIsExplained
<1>8. FindingsAreReal'
  <2>1. \A f \in findings : f[1] \in DOMAIN tracked
    BY DEF IInv, TypeOK
  <2>2. \A f \in findings : \E d \in seen'[f[1]] : ~MayBeTracked(tracked[f[1]], d)
    BY <1>3, <2>1 DEF IInv, FindingsAreReal
  <2> QED
    BY <1>0, <2>2 DEF FindingsAreReal
<1> QED
  BY <1>4, <1>5, <1>6, <1>7, <1>8 DEF IInv

LEMMA StepIInv == IInv /\ [Next]_vars => IInv'
<1>1. IInv /\ UNCHANGED vars => IInv'
  BY DEF vars, IInv, TypeOK, PositionInv, SeenInv, PassedInv, HereInv, Here, FindingsAreReal,
     RejectionIsExplained
<1> QED
  BY <1>1, StepCheckPath, StepLook, StepRead, StepReject, StepExit, StepChange DEF Next, ScanStep

-----------------------------------------------------------------------------
(* The theorems.                                                            *)

\* The inductive invariant holds of every reachable state.
THEOREM Invariance == Spec => []IInv
BY InitIInv, StepIInv, PTL DEF Spec

\* The scan stays within the list of tracked paths, whatever changes below it.
THEOREM TypeCorrect == Spec => []TypeOK
BY Invariance, PTL DEF IInv

\* Whatever is committed and whoever edits during the scan, a command that
\* succeeds lets through, of the files that were not touched, only what holds no
\* secret under a name that may be tracked, or under an example's in env/dec.
THEOREM SuccessIsClean == Spec => []SuccessMeansClean
<1>1. IInv => SuccessMeansClean
  <2> SUFFICES ASSUME IInv, exitCode = "ok" PROVE SuccessMeansClean
    BY DEF SuccessMeansClean
  <2>1. findings = {} /\ position = Len(tracked) + 1 /\ tracked \in Seq(Paths)
    BY DEF IInv, PositionInv, TypeOK
  <2>2. \A n \in DOMAIN tracked : n < position
    BY <2>1
  <2> QED
    BY <2>1, <2>2 DEF IInv, PassedInv, SuccessMeansClean, Fit, NameFits
<1> QED
  BY Invariance, <1>1, PTL

\* No finding is an artefact of looking twice: some state that the file was in
\* during the scan may not be tracked.
THEOREM FindingsReal == Spec => []FindingsAreReal
BY Invariance, PTL DEF IInv

\* A scan that gives up met something that was no readable file, which had to be
\* touched unless it is gone or cannot be opened, and the command fails.
THEOREM RejectionExplained == Spec => []RejectionIsExplained
BY Invariance, PTL DEF IInv
=============================================================================
