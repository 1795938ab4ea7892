------------------------------ MODULE EnvFiles ------------------------------
(***************************************************************************)
(* The encrypted environment files under the recipes of .just/env.just.    *)
(* env/enc/<n>.env.enc is committed ciphertext, env/dec/<n>.env disposable *)
(* plaintext.  A recipe is a shell script under `set -e`: it goes over its *)
(* environments in some order, one command after the other, and it ends    *)
(* early when a command fails or when it is interrupted.  Nothing cleans   *)
(* up behind it.  Recipes run one at a time; the developer writes          *)
(* plaintext whenever he likes, and fetches ciphertext between recipes.    *)
(*                                                                         *)
(* sops is external: it writes its output once, or fails and writes        *)
(* nothing, and `sops edit` and `sops updatekeys` replace a file whole.    *)
(***************************************************************************)
EXTENDS FiniteSets

CONSTANTS
    Envs,       \* names of environments
    Values,     \* what an environment file may say
    Blank,      \* ... what `env-new` writes
    Empty,      \* ... and nothing at all, as a plaintext that was truncated does
    None,       \* no file
    Torn,       \* no ciphertext: the redirection made the file, nothing came
    Zeroed      \* a file of zero bytes

ASSUME EnvFilesAssumption ==
    /\ Blank \in Values /\ Empty \in Values
    /\ Values \cap {None, Torn, Zeroed} = {} /\ None \notin Envs
    /\ Cardinality({None, Torn, Zeroed}) = 3

VARIABLES
    enc,        \* env/enc/<n>.env.enc
    current,    \* environments whose ciphertext is for the recipients in .sops.yaml
    dec,        \* env/dec/<n>.env
    leftovers,  \* whether ended recipes left plaintext in temporary files in env/dec
    recipe,     \* the recipe that runs, or the last one
    held,       \* what env/dec/<n>.env said since it began (history)
    written     \* environments whose plaintext was written since then (history)

vars == <<enc, current, dec, leftovers, recipe, held, written>>

Kinds    == {"decrypt", "encrypt", "new", "rekey", "clean"}
Commands == {"next", "sops decrypt", "mv", "sops edit", "sops encrypt", "head", "rm"}
Outcomes == {"running", "done", "failed", "stopped"}
Recipes  == [kind : Kinds \cup {"none"}, chosen : SUBSET Envs, todo : SUBSET Envs,
             at : Envs \cup {None}, command : Commands,
             temp : Values \cup {None, Torn}, outcome : Outcomes]
Idle     == [kind |-> "none", chosen |-> {}, todo |-> {}, at |-> None,
             command |-> "next", temp |-> None, outcome |-> "done"]

TypeOK ==
    /\ enc \in [Envs -> Values \cup {None, Torn}]
    /\ current \subseteq Envs
    /\ dec \in [Envs -> Values \cup {None, Zeroed}]
    /\ leftovers \in BOOLEAN
    /\ recipe \in Recipes
    /\ held \in [Envs -> SUBSET (Values \cup {None, Zeroed})]
    /\ written \subseteq Envs

Init ==
    /\ enc \in [Envs -> Values \cup {None}]
    /\ current = {n \in Envs : enc[n] # None}
    /\ dec = [n \in Envs |-> None]
    /\ leftovers = FALSE /\ recipe = Idle
    /\ held = [n \in Envs |-> {None}] /\ written = {}

-----------------------------------------------------------------------------
(* A recipe.                                                                *)

Encrypted == {n \in Envs : enc[n] # None}
Decrypted == {n \in Envs : dec[n] # None}
Running(kind, command) ==
    /\ recipe.outcome = "running"
    /\ recipe.kind = kind /\ recipe.command = command

\* No names: all that there are when it starts.
Chosen(kind, names) ==
    CASE kind = "new"     -> names
      [] kind = "rekey"   -> Encrypted
      [] kind = "clean"   -> Decrypted
      [] kind = "decrypt" -> IF names = {} THEN Encrypted ELSE names
      [] kind = "encrypt" -> IF names = {} THEN Decrypted ELSE names

Call(kind, names) ==
    /\ recipe.outcome # "running"
    /\ kind = "new" => Cardinality(names) = 1
    /\ recipe' = [Idle EXCEPT !.kind = kind, !.chosen = Chosen(kind, names),
                              !.todo = Chosen(kind, names), !.outcome = "running"]
    /\ held' = [n \in Envs |-> {dec[n]}] /\ written' = {}
    /\ UNCHANGED <<enc, current, dec, leftovers>>

\* The last command for this environment is done, or the first one comes.
Finished == recipe' = [recipe EXCEPT !.at = None, !.command = "next", !.temp = None]
Begin(n, command, temp) ==
    recipe' = [recipe EXCEPT !.todo = @ \ {n}, !.at = n, !.command = command, !.temp = temp]
Skip(n) == recipe' = [recipe EXCEPT !.todo = @ \ {n}]

\* A recipe that ends in the middle leaves its temporary file.
End(outcome) ==
    /\ recipe' = [recipe EXCEPT !.at = None, !.command = "next", !.temp = None,
                                !.outcome = outcome]
    /\ leftovers' = (leftovers \/ recipe.temp \in Values)

Succeed ==
    /\ recipe.outcome = "running" /\ recipe.command = "next" /\ recipe.todo = {}
    /\ End("done")
    /\ UNCHANGED <<enc, current, dec, held, written>>

Interrupt ==
    /\ recipe.outcome = "running"
    /\ End("stopped")
    /\ UNCHANGED <<enc, current, dec, held, written>>

-----------------------------------------------------------------------------
(* env-decrypt                                                              *)

Mktemp(n) ==
    /\ Running("decrypt", "next") /\ n \in recipe.todo
    /\ IF enc[n] # None THEN Begin(n, "sops decrypt", Torn) /\ UNCHANGED leftovers
                        ELSE End("failed")
    /\ UNCHANGED <<enc, current, dec, held, written>>

\* It fails without a key for the file, and on a file that is no ciphertext.
Decrypt ==
    /\ Running("decrypt", "sops decrypt")
    /\ \/ /\ enc[recipe.at] \in Values
          /\ recipe' = [recipe EXCEPT !.temp = enc[recipe.at], !.command = "mv"]
          /\ UNCHANGED leftovers
       \/ End("failed")
    /\ UNCHANGED <<enc, current, dec, held, written>>

Move ==
    /\ Running("decrypt", "mv")
    /\ dec' = [dec EXCEPT ![recipe.at] = recipe.temp]
    /\ Finished
    /\ UNCHANGED <<enc, current, leftovers, held, written>>

-----------------------------------------------------------------------------
(* env-encrypt and env-new                                                  *)

\* The redirection makes the file before sops runs.
Redirect(n) ==
    /\ enc' = [enc EXCEPT ![n] = Torn]
    /\ Begin(n, "sops encrypt", None)

\* (mutant) always by redirection.
ChooseRedirection(n) ==
    /\ Running("encrypt", "next") /\ n \in recipe.todo
    /\ IF dec[n] = None THEN End("failed") /\ UNCHANGED enc
                        ELSE Redirect(n) /\ UNCHANGED leftovers
    /\ UNCHANGED <<current, dec, held, written>>

\* Ciphertext that exists is edited, with a copy of the plaintext as editor.
ChooseEncryption(n) ==
    /\ Running("encrypt", "next") /\ n \in recipe.todo
    /\ \/ /\ dec[n] = None
          /\ End("failed") /\ UNCHANGED enc
       \/ /\ dec[n] # None /\ enc[n] # None
          /\ Begin(n, "sops edit", None) /\ UNCHANGED <<enc, leftovers>>
       \/ /\ dec[n] # None /\ enc[n] = None
          /\ Redirect(n) /\ UNCHANGED leftovers
    /\ UNCHANGED <<current, dec, held, written>>

\* (mutant) whatever sops returns is the end of it.
EditUnchecked ==
    LET n == recipe.at IN
    /\ Running("encrypt", "sops edit")
    /\ \/ enc[n] \in Values /\ dec[n] \in Values /\ enc' = [enc EXCEPT ![n] = dec[n]]
       \/ UNCHANGED enc
    /\ Finished
    /\ UNCHANGED <<current, dec, leftovers, held, written>>

\* Exit codes 0 and 200 (nothing changed) go on; it fails without a key, on a
\* file that is no ciphertext, and on plaintext that is none or gone.  A file
\* that says nothing may pass for plaintext.  The recipients stay those of the
\* file.
Edit ==
    LET n == recipe.at IN
    /\ Running("encrypt", "sops edit")
    /\ \/ /\ enc[n] \in Values /\ dec[n] \in Values
          /\ enc' = [enc EXCEPT ![n] = dec[n]]
          /\ Finished /\ UNCHANGED leftovers
       \/ End("failed") /\ UNCHANGED enc
    /\ UNCHANGED <<current, dec, held, written>>

\* A new environment, unless there is one.
ChooseNew(n) ==
    /\ Running("new", "next") /\ n \in recipe.todo
    /\ IF enc[n] # None THEN End("failed") /\ UNCHANGED enc
                        ELSE Redirect(n) /\ UNCHANGED leftovers
    /\ UNCHANGED <<current, dec, held, written>>

Encrypt ==
    LET n == recipe.at
        plaintext == IF recipe.kind = "new" THEN Blank ELSE dec[n]
    IN
    /\ recipe.outcome = "running" /\ recipe.command = "sops encrypt"
    /\ \/ /\ plaintext \in Values
          /\ enc' = [enc EXCEPT ![n] = plaintext] /\ current' = current \cup {n}
          /\ Finished /\ UNCHANGED leftovers
       \/ End("failed") /\ UNCHANGED <<enc, current>>
    /\ UNCHANGED <<dec, held, written>>

-----------------------------------------------------------------------------
(* env-rekey                                                                *)

\* (mutant) a file that fails is passed over.
RekeyWhatWorks(n) ==
    /\ Running("rekey", "next") /\ n \in recipe.todo
    /\ current' \in {current, current \cup {n}}
    /\ Skip(n)
    /\ UNCHANGED <<enc, dec, leftovers, held, written>>

Rekey(n) ==
    /\ Running("rekey", "next") /\ n \in recipe.todo
    /\ \/ /\ enc[n] \in Values
          /\ current' = current \cup {n}
          /\ Skip(n) /\ UNCHANGED leftovers
       \/ End("failed") /\ UNCHANGED current
    /\ UNCHANGED <<enc, dec, held, written>>

-----------------------------------------------------------------------------
(* env-clean                                                                *)

\* The size is taken first; then the redirection truncates the file, or makes
\* one that the developer removed meanwhile, which head then has no size for.
\* A file that cannot be opened stays, and that is ignored.
Overwrite(n) ==
    /\ Running("clean", "next") /\ n \in recipe.todo
    /\ \/ /\ dec' = [dec EXCEPT ![n] = Empty]
          /\ Begin(n, IF dec[n] # None THEN "head" ELSE "rm", None)
       \/ Begin(n, "rm", None) /\ UNCHANGED dec
    /\ UNCHANGED <<enc, current, leftovers, held, written>>

\* Zeros follow, unless head fails, or the file it has open is no longer there.
WriteZeros ==
    /\ Running("clean", "head")
    /\ \/ dec[recipe.at] # None /\ dec' = [dec EXCEPT ![recipe.at] = Zeroed]
       \/ UNCHANGED dec
    /\ recipe' = [recipe EXCEPT !.command = "rm"]
    /\ UNCHANGED <<enc, current, leftovers, held, written>>

\* (mutant) removed only once it was overwritten.
RemoveOverwritten ==
    /\ Running("clean", "rm")
    /\ dec' = [dec EXCEPT ![recipe.at] = IF @ = Zeroed THEN None ELSE @]
    /\ Finished
    /\ UNCHANGED <<enc, current, leftovers, held, written>>

Remove ==
    /\ Running("clean", "rm")
    /\ \/ /\ dec' = [dec EXCEPT ![recipe.at] = None]
          /\ Finished /\ UNCHANGED leftovers
       \/ End("failed") /\ UNCHANGED dec
    /\ UNCHANGED <<enc, current, held, written>>

-----------------------------------------------------------------------------
(* The developer, and the recipe that is a single command.                  *)

WritePlaintext(n, v) ==
    /\ dec[n] # v
    /\ dec' = [dec EXCEPT ![n] = v]
    /\ held' = [held EXCEPT ![n] = @ \cup {v}] /\ written' = written \cup {n}
    /\ UNCHANGED <<enc, current, leftovers, recipe>>

Between ==
    /\ recipe.outcome # "running"
    /\ recipe' = Idle
    /\ UNCHANGED <<dec, leftovers, held, written>>

\* env-edit: sops makes a file that is not there; one that fails changes nothing.
EnvEdit(n, v) ==
    /\ Between
    /\ enc[n] # Torn
    /\ enc' = [enc EXCEPT ![n] = v]
    /\ current' = IF enc[n] = None THEN current \cup {n} ELSE current

\* A torn file is removed, or one that somebody committed is checked out, for
\* whatever recipients.
Checkout(n, v) ==
    /\ Between
    /\ enc[n] \in {None, Torn}
    /\ enc' = [enc EXCEPT ![n] = v]
    /\ \/ current' = current \ {n}
       \/ v # None /\ current' = current \cup {n}

ChangeRecipients ==
    /\ Between
    /\ current' = {} /\ UNCHANGED enc

RecipeStep ==
    \/ \E n \in Envs : Mktemp(n) \/ ChooseEncryption(n) \/ ChooseNew(n) \/ Rekey(n) \/ Overwrite(n)
    \/ Decrypt \/ Move \/ Edit \/ Encrypt \/ WriteZeros \/ Remove
    \/ Succeed \/ Interrupt

Next ==
    \/ \E kind \in Kinds, names \in SUBSET Envs : Call(kind, names)
    \/ RecipeStep
    \/ \E n \in Envs, v \in Values \cup {None} : WritePlaintext(n, v) \/ Checkout(n, v)
    \/ \E n \in Envs, v \in Values : EnvEdit(n, v)
    \/ ChangeRecipients

Spec == Init /\ [][Next]_vars

-----------------------------------------------------------------------------
(* Properties.                                                              *)

\* No recipe, however it fails or is interrupted, puts anything in the place of
\* a whole ciphertext but another whole one.  It need not say more: a plaintext
\* that an interrupted clean left empty may be encrypted like any other.
WholeCiphertextSurvives ==
    [][\A n \in Envs : enc[n] \in Values => enc'[n] \in Values]_vars

\* "encrypted" or "unchanged" for every environment it was to encrypt means
\* that each ciphertext says what its plaintext said at some moment of the run.
EncryptedMeansHeld ==
    recipe.kind = "encrypt" /\ recipe.outcome = "done" =>
        \A n \in recipe.chosen : enc[n] \in held[n] \cap Values

\* "recipients synced" means that every ciphertext is whole and can be opened
\* by the present recipients, also after an earlier rekey stopped half-way.
RekeyReachesAll ==
    recipe.kind = "rekey" /\ recipe.outcome = "done" =>
        \A n \in Encrypted : enc[n] \in Values /\ n \in current

\* "removed n decrypted file(s)" means that a file has the name of a plaintext,
\* env/dec/<n>.env, only if the developer wrote it meanwhile: whether it was
\* zeroed, truncated, made by the redirection or could not be overwritten, and
\* whatever an earlier clean left in the middle.  It is about the files that the
\* recipe lists and no more: what a decryption that ended early left under a
\* temporary name is not among them and stays, against the recipe's "Wipe
\* decrypted plaintext from env/dec" (.just/env.just:315).
CleanRemovesListed ==
    recipe.kind = "clean" /\ recipe.outcome = "done" => Decrypted \subseteq written
=============================================================================
