--------------------------- MODULE EnvFiles_proofs ---------------------------
(***************************************************************************)
(* A recipe replaces whole ciphertext only by whole ciphertext, and what   *)
(* it reports is true, for every set of environments and values.           *)
(*                                                                         *)
(* The invariant follows a recipe through its environments: those behind   *)
(* it are done, the one it is at is in between, and those in todo are as   *)
(* they were.                                                              *)
(***************************************************************************)
EXTENDS EnvFiles, TLAPS

\* Where a recipe stands tells which recipe it is.
PlaceInv ==
    /\ recipe.todo \subseteq recipe.chosen
    /\ IF recipe.command = "next"
       THEN recipe.at = None
       ELSE recipe.at \in recipe.chosen /\ recipe.outcome = "running"
    /\ recipe.command = "mv" => recipe.temp \in Values
    /\ recipe.command \in {"mv", "sops decrypt"} => recipe.kind = "decrypt"
    /\ recipe.command = "sops edit" => recipe.kind = "encrypt"
    /\ recipe.command = "sops encrypt" => recipe.kind \in {"encrypt", "new"}
    /\ recipe.command \in {"head", "rm"} => recipe.kind = "clean"
    /\ recipe.outcome = "done" => recipe.todo = {}

\* Neither failed nor stopped.
Going == recipe.outcome \in {"running", "done"}

HeldInv == recipe.kind = "encrypt" => \A n \in Envs : dec[n] \in held[n]

EncryptInv ==
    recipe.kind = "encrypt" /\ Going =>
        \A n \in recipe.chosen \ (recipe.todo \cup {recipe.at}) : enc[n] \in held[n] \cap Values

RekeyInv ==
    recipe.kind = "rekey" /\ Going =>
        /\ recipe.chosen = Encrypted
        /\ \A n \in recipe.chosen \ recipe.todo : enc[n] \in Values /\ n \in current

CleanInv ==
    recipe.kind = "clean" /\ Going =>
        Decrypted \subseteq written \cup recipe.todo \cup {recipe.at}

IInv == TypeOK /\ PlaceInv /\ HeldInv /\ EncryptInv /\ RekeyInv /\ CleanInv

USE EnvFilesAssumption DEF Kinds, Commands, Outcomes
-----------------------------------------------------------------------------
LEMMA InitIInv == Init => IInv
<1> SUFFICES ASSUME Init PROVE IInv
  OBVIOUS
<1>1. Idle \in Recipes
  BY DEF Idle, Recipes
<1>2. recipe = Idle
  BY DEF Init
<1>3. leftovers \in BOOLEAN
  BY DEF Init
<1>4. TypeOK
  BY <1>1, <1>3 DEF Init, TypeOK
<1>5. PlaceInv /\ EncryptInv /\ RekeyInv /\ CleanInv
  BY <1>2 DEF Idle, PlaceInv, EncryptInv, RekeyInv, CleanInv
<1>6. HeldInv
  BY <1>2 DEF Idle, HeldInv
<1> QED
  BY <1>4, <1>5, <1>6 DEF IInv

\* A recipe chooses among the environments.
LEMMA ChosenType ==
    ASSUME NEW kind \in Kinds, NEW names \in SUBSET Envs
    PROVE  /\ Chosen(kind, names) \in SUBSET Envs
           /\ kind = "rekey" => Chosen(kind, names) = Encrypted
           /\ kind = "clean" => Chosen(kind, names) = Decrypted
<1>1. Encrypted \in SUBSET Envs /\ Decrypted \in SUBSET Envs
  BY DEF Encrypted, Decrypted
<1> QED
  BY <1>1 DEF Chosen

\* How a recipe goes on, field by field.
LEMMA EndFields ==
    ASSUME recipe \in Recipes, NEW outcome, End(outcome)
    PROVE  /\ recipe'.kind = recipe.kind /\ recipe'.chosen = recipe.chosen
           /\ recipe'.todo = recipe.todo /\ recipe'.at = None
           /\ recipe'.command = "next" /\ recipe'.outcome = outcome
BY DEF End, Recipes

LEMMA FinishedFields ==
    ASSUME recipe \in Recipes, Finished
    PROVE  /\ recipe'.kind = recipe.kind /\ recipe'.chosen = recipe.chosen
           /\ recipe'.todo = recipe.todo /\ recipe'.at = None
           /\ recipe'.command = "next" /\ recipe'.outcome = recipe.outcome
BY DEF Finished, Recipes

LEMMA BeginFields ==
    ASSUME recipe \in Recipes, NEW n, NEW command, NEW temp, Begin(n, command, temp)
    PROVE  /\ recipe'.kind = recipe.kind /\ recipe'.chosen = recipe.chosen
           /\ recipe'.todo = recipe.todo \ {n} /\ recipe'.at = n
           /\ recipe'.command = command /\ recipe'.outcome = recipe.outcome
BY DEF Begin, Recipes

LEMMA ZerosFields ==
    ASSUME recipe \in Recipes, WriteZeros
    PROVE  /\ recipe'.kind = recipe.kind /\ recipe'.chosen = recipe.chosen
           /\ recipe'.todo = recipe.todo /\ recipe'.at = recipe.at
           /\ recipe'.command = "rm" /\ recipe'.outcome = recipe.outcome
BY DEF WriteZeros, Recipes

LEMMA SkipFields ==
    ASSUME recipe \in Recipes, NEW n, Skip(n)
    PROVE  /\ recipe'.kind = recipe.kind /\ recipe'.chosen = recipe.chosen
           /\ recipe'.todo = recipe.todo \ {n} /\ recipe'.at = recipe.at
           /\ recipe'.command = recipe.command /\ recipe'.outcome = recipe.outcome
BY DEF Skip, Recipes

\* The record of the recipe keeps its type.
LEMMA RecipeType == TypeOK /\ [Next]_vars => recipe' \in Recipes
<1> SUFFICES ASSUME TypeOK, [Next]_vars PROVE recipe' \in Recipes
  OBVIOUS
<1> USE DEF Recipes
<1>0. recipe \in Recipes /\ enc \in [Envs -> Values \cup {None, Torn}]
  BY DEF TypeOK
<1>1. ASSUME NEW kind \in Kinds, NEW names \in SUBSET Envs, Call(kind, names)
      PROVE  recipe' \in Recipes
  BY <1>1, ChosenType DEF Call, Idle
<1>2. ASSUME NEW outcome \in Outcomes, End(outcome) PROVE recipe' \in Recipes
  BY <1>0, <1>2 DEF End
<1>3. ASSUME Finished \/ \E n \in Envs : Skip(n) PROVE recipe' \in Recipes
  BY <1>0, <1>3 DEF Finished, Skip
<1>4. ASSUME NEW n \in Envs, NEW command \in Commands, NEW temp \in {None, Torn},
             Begin(n, command, temp)
      PROVE  recipe' \in Recipes
  BY <1>0, <1>4 DEF Begin
<1>5. ASSUME Between PROVE recipe' \in Recipes
  BY <1>5 DEF Between, Idle
<1>6. CASE Decrypt
  <2>1. CASE End("failed")
    BY <1>2, <2>1
  <2>2. CASE ~End("failed")
    <3>1. /\ enc[recipe.at] \in Values
          /\ recipe' = [recipe EXCEPT !.temp = enc[recipe.at], !.command = "mv"]
      BY <1>6, <2>2 DEF Decrypt
    <3> QED
      BY <1>0, <3>1
  <2> QED
    BY <2>1, <2>2
<1>7. CASE UNCHANGED recipe
  BY <1>0, <1>7
<1>8. ASSUME NEW n \in Envs,
             Mktemp(n) \/ ChooseEncryption(n) \/ ChooseNew(n) \/ Rekey(n) \/ Overwrite(n)
      PROVE  recipe' \in Recipes
  BY <1>2, <1>3, <1>4, <1>8 DEF Mktemp, ChooseEncryption, ChooseNew, Rekey, Overwrite, Redirect
<1>9. CASE Move \/ Edit \/ Encrypt \/ Remove \/ Succeed \/ Interrupt
  BY <1>2, <1>3, <1>9 DEF Move, Edit, Encrypt, Remove, Succeed, Interrupt
<1>10. CASE WriteZeros
  BY <1>0, <1>10 DEF WriteZeros
<1> QED
  BY <1>1, <1>5, <1>6, <1>7, <1>8, <1>9, <1>10
  DEF Next, RecipeStep, WritePlaintext, EnvEdit, Checkout, ChangeRecipients, vars
\* Every variable keeps its type.
LEMMA TypeStep == TypeOK /\ PlaceInv /\ [Next]_vars => TypeOK'
<1> SUFFICES ASSUME TypeOK, PlaceInv, [Next]_vars PROVE TypeOK'
  OBVIOUS
<1>0. recipe' \in Recipes
  BY RecipeType
<1>1. leftovers' \in BOOLEAN
  <2>1. leftovers \in BOOLEAN
    BY DEF TypeOK
  <2>2. leftovers' = leftovers \/ \E outcome \in Outcomes : End(outcome)
    BY DEF Next, RecipeStep, Call, Mktemp, Decrypt, Move, ChooseEncryption, ChooseNew, Redirect,
           Edit, Encrypt, Rekey, Overwrite, WriteZeros, Remove, Succeed, Interrupt, WritePlaintext,
           Between, EnvEdit, Checkout, ChangeRecipients, vars
  <2> QED
    BY <2>1, <2>2 DEF End
<1>2. ASSUME NEW kind \in Kinds, NEW names \in SUBSET Envs, Call(kind, names)
      PROVE  TypeOK'
  BY <1>0, <1>1, <1>2 DEF TypeOK, Call
<1>3. ASSUME NEW n \in Envs,
             Mktemp(n) \/ ChooseEncryption(n) \/ ChooseNew(n) \/ Rekey(n)
      PROVE  TypeOK'
  BY <1>0, <1>1, <1>3 DEF TypeOK, Mktemp, ChooseEncryption, ChooseNew, Rekey, Redirect
<1>12. ASSUME NEW n \in Envs, Overwrite(n) PROVE TypeOK'
  <2>1. /\ dec' \in [Envs -> Values \cup {None, Zeroed}]
        /\ UNCHANGED <<enc, current, held, written>>
    BY <1>12 DEF TypeOK, Overwrite
  <2> QED
    BY <1>0, <1>1, <2>1 DEF TypeOK
<1>4. CASE Decrypt \/ Succeed \/ Interrupt
  BY <1>0, <1>1, <1>4 DEF TypeOK, Decrypt, Succeed, Interrupt
<1>5. CASE Move
  <2>1. recipe.temp \in Values
    BY <1>5 DEF PlaceInv, Move, Running
  <2> QED
    BY <1>0, <1>1, <1>5, <2>1 DEF TypeOK, Move
<1>6. CASE Edit
  BY <1>0, <1>1, <1>6 DEF TypeOK, Edit
<1>7. CASE Encrypt
  <2>1. recipe.at \in Envs
    BY <1>7 DEF TypeOK, PlaceInv, Encrypt, Recipes
  <2> QED
    BY <1>0, <1>1, <1>7, <2>1 DEF TypeOK, Encrypt
<1>8. CASE WriteZeros \/ Remove
  BY <1>0, <1>1, <1>8 DEF TypeOK, WriteZeros, Remove
<1>9. ASSUME NEW n \in Envs, NEW v \in Values \cup {None}, WritePlaintext(n, v) \/ Checkout(n, v)
      PROVE  TypeOK'
  BY <1>0, <1>1, <1>9 DEF TypeOK, WritePlaintext, Checkout, Between
<1>10. ASSUME NEW n \in Envs, NEW v \in Values, EnvEdit(n, v)
       PROVE  TypeOK'
  BY <1>0, <1>1, <1>10 DEF TypeOK, EnvEdit, Between
<1>11. CASE ChangeRecipients \/ UNCHANGED vars
  BY <1>0, <1>1, <1>11 DEF TypeOK, ChangeRecipients, Between, vars
<1> QED
  BY <1>2, <1>3, <1>4, <1>5, <1>6, <1>7, <1>8, <1>9, <1>10, <1>11, <1>12 DEF Next, RecipeStep

\* A step leaves the recipe alone, starts another one, forgets the last one, or
\* is one of the ways in which a recipe goes on.
LEMMA PlaceStep == TypeOK /\ PlaceInv /\ [Next]_vars => PlaceInv'
<1> SUFFICES ASSUME TypeOK, PlaceInv, [Next]_vars PROVE PlaceInv'
  OBVIOUS
<1> USE DEF PlaceInv
<1>0. recipe \in Recipes /\ enc \in [Envs -> Values \cup {None, Torn}]
  BY DEF TypeOK
<1>1. ASSUME NEW kind \in Kinds, NEW names \in SUBSET Envs, Call(kind, names)
      PROVE  PlaceInv'
  BY <1>1 DEF Call, Idle
<1>2. ASSUME NEW outcome \in {"failed", "stopped"}, End(outcome) PROVE PlaceInv'
  BY <1>0, <1>2 DEF End, Recipes
<1>3. CASE Succeed
  BY <1>0, <1>3 DEF Succeed, End, Recipes
<1>4. ASSUME recipe.outcome = "running", Finished \/ \E n \in recipe.todo : Skip(n)
      PROVE  PlaceInv'
  BY <1>0, <1>4 DEF Finished, Skip, Recipes
<1>5. CASE Between
  BY <1>5 DEF Between, Idle
<1>14. ASSUME NEW n \in recipe.todo, recipe.outcome = "running",
              NEW command \in {"sops decrypt", "sops edit", "sops encrypt"}, NEW temp,
              Begin(n, command, temp),
              command = "sops decrypt" => recipe.kind = "decrypt",
              command = "sops edit" => recipe.kind = "encrypt",
              command = "sops encrypt" => recipe.kind \in {"encrypt", "new"}
       PROVE  PlaceInv'
  BY <1>0, <1>14, BeginFields
<1>6. ASSUME NEW n \in Envs, Mktemp(n) PROVE PlaceInv'
  <2> USE <1>6 DEF Mktemp, Running
  <2>1. CASE End("failed")
    BY <1>2, <2>1
  <2>2. CASE Begin(n, "sops decrypt", Torn)
    BY <1>14, <2>2
  <2> QED
    BY <2>1, <2>2
<1>7. ASSUME NEW n \in Envs, ChooseEncryption(n) PROVE PlaceInv'
  <2> USE <1>7 DEF ChooseEncryption, Redirect, Running
  <2>1. CASE End("failed")
    BY <1>2, <2>1
  <2>2. CASE Begin(n, "sops edit", None)
    BY <1>14, <2>2
  <2>3. CASE Begin(n, "sops encrypt", None)
    BY <1>14, <2>3
  <2> QED
    BY <2>1, <2>2, <2>3
<1>8. ASSUME NEW n \in Envs, ChooseNew(n) PROVE PlaceInv'
  <2> USE <1>8 DEF ChooseNew, Redirect, Running
  <2>1. CASE End("failed")
    BY <1>2, <2>1
  <2>2. CASE Begin(n, "sops encrypt", None)
    BY <1>14, <2>2
  <2> QED
    BY <2>1, <2>2
<1>9. ASSUME NEW n \in Envs, Rekey(n) PROVE PlaceInv'
  BY <1>2, <1>4, <1>9 DEF Rekey, Running
<1>10. ASSUME NEW n \in Envs, Overwrite(n) PROVE PlaceInv'
  <2>1. /\ recipe.kind = "clean" /\ recipe.outcome = "running" /\ n \in recipe.todo
        /\ \E command \in {"head", "rm"} : Begin(n, command, None)
    BY <1>10 DEF Overwrite, Running
  <2>2. PICK command \in {"head", "rm"} : Begin(n, command, None)
    BY <2>1
  <2> QED
    BY <1>0, <2>1, <2>2, BeginFields
<1>11. CASE Decrypt
  BY <1>0, <1>2, <1>11 DEF Decrypt, Running, Recipes
<1>12. CASE Move \/ Edit \/ Encrypt \/ Remove \/ Interrupt
  BY <1>2, <1>4, <1>12 DEF Move, Edit, Encrypt, Remove, Interrupt, Running
<1>13. CASE UNCHANGED recipe
  BY <1>13
<1>15. CASE WriteZeros
  BY <1>0, <1>15 DEF WriteZeros, Running, Recipes
<1> QED
  BY <1>1, <1>3, <1>5, <1>6, <1>7, <1>8, <1>9, <1>10, <1>11, <1>12, <1>13, <1>15
  DEF Next, RecipeStep, WritePlaintext, EnvEdit, Checkout, ChangeRecipients, vars

\* A recipe that encrypts leaves plaintext alone, and the developer's goes into
\* the history.
LEMMA HeldStep == TypeOK /\ HeldInv /\ [Next]_vars => HeldInv'
<1> SUFFICES ASSUME TypeOK, HeldInv, [Next]_vars PROVE HeldInv'
  OBVIOUS
<1>0. recipe \in Recipes /\ dec \in [Envs -> Values \cup {None, Zeroed}]
      /\ held \in [Envs -> SUBSET (Values \cup {None, Zeroed})]
  BY DEF TypeOK
<1>1. ASSUME NEW kind \in Kinds, NEW names \in SUBSET Envs, Call(kind, names)
      PROVE  HeldInv'
  BY <1>1 DEF Call, HeldInv
<1>2. ASSUME recipe'.kind = recipe.kind, UNCHANGED <<dec, held>> PROVE HeldInv'
  BY <1>2 DEF HeldInv
<1>3. ASSUME recipe'.kind = recipe.kind, recipe.kind # "encrypt" PROVE HeldInv'
  BY <1>3 DEF HeldInv
<1>4. CASE Between
  BY <1>4 DEF Between, Idle, HeldInv
<1>5. ASSUME NEW n \in Envs, Mktemp(n) \/ ChooseEncryption(n) \/ ChooseNew(n) \/ Rekey(n)
      PROVE  HeldInv'
  <2>1. recipe'.kind = recipe.kind
    BY <1>0, <1>5, EndFields, BeginFields, SkipFields
    DEF Mktemp, ChooseEncryption, ChooseNew, Rekey, Redirect
  <2> QED
    BY <1>2, <1>5, <2>1 DEF Mktemp, ChooseEncryption, ChooseNew, Rekey
<1>6. ASSUME NEW n \in Envs, Overwrite(n) PROVE HeldInv'
  BY <1>0, <1>3, <1>6, BeginFields DEF Overwrite, Running
<1>7. CASE Decrypt
  <2>1. recipe'.kind = recipe.kind
    BY <1>0, <1>7, EndFields DEF Decrypt, Recipes
  <2> QED
    BY <1>2, <1>7, <2>1 DEF Decrypt
<1>8. CASE Move \/ WriteZeros \/ Remove
  BY <1>0, <1>3, <1>8, EndFields, FinishedFields, ZerosFields
  DEF Move, WriteZeros, Remove, Running
<1>9. CASE Edit \/ Encrypt \/ Succeed \/ Interrupt
  <2>1. recipe'.kind = recipe.kind
    BY <1>0, <1>9, EndFields, FinishedFields DEF Edit, Encrypt, Succeed, Interrupt
  <2> QED
    BY <1>2, <1>9, <2>1 DEF Edit, Encrypt, Succeed, Interrupt
<1>10. ASSUME NEW n \in Envs, NEW v \in Values \cup {None}, WritePlaintext(n, v)
       PROVE  HeldInv'
  <2>1. recipe' = recipe /\ dec' = [dec EXCEPT ![n] = v]
        /\ held' = [held EXCEPT ![n] = held[n] \cup {v}]
    BY <1>10 DEF WritePlaintext
  <2> QED
    BY <1>0, <2>1 DEF HeldInv
<1>11. CASE UNCHANGED vars
  BY <1>2, <1>11 DEF vars
<1> QED
  BY <1>1, <1>4, <1>5, <1>6, <1>7, <1>8, <1>9, <1>10, <1>11
  DEF Next, RecipeStep, EnvEdit, Checkout, ChangeRecipients

\* What env-encrypt has behind it stays encrypted: it writes only the ciphertext
\* of the environment it is at, and only from what its plaintext says then.
LEMMA EncryptStep == TypeOK /\ PlaceInv /\ HeldInv /\ EncryptInv /\ [Next]_vars => EncryptInv'
<1> SUFFICES ASSUME TypeOK, PlaceInv, HeldInv, EncryptInv, [Next]_vars PROVE EncryptInv'
  OBVIOUS
<1>0. recipe \in Recipes /\ enc \in [Envs -> Values \cup {None, Torn}]
      /\ dec \in [Envs -> Values \cup {None, Zeroed}]
      /\ held \in [Envs -> SUBSET (Values \cup {None, Zeroed})]
  BY DEF TypeOK
<1>1. ASSUME NEW kind \in Kinds, NEW names \in SUBSET Envs, Call(kind, names)
      PROVE  EncryptInv'
  BY <1>1 DEF Call, Idle, EncryptInv
<1>2. ASSUME NEW outcome \in {"failed", "stopped"}, End(outcome) PROVE EncryptInv'
  BY <1>0, <1>2, EndFields DEF EncryptInv, Going
<1>3. ASSUME recipe'.kind = recipe.kind, recipe.kind # "encrypt" PROVE EncryptInv'
  BY <1>3 DEF EncryptInv
<1>4. CASE Between
  BY <1>4 DEF Between, Idle, EncryptInv
<1>5. ASSUME NEW n \in Envs, Mktemp(n) \/ ChooseNew(n) \/ Rekey(n) \/ Overwrite(n)
      PROVE  EncryptInv'
  <2>1. recipe'.kind = recipe.kind
    BY <1>0, <1>5, EndFields, BeginFields, SkipFields
    DEF Mktemp, ChooseNew, Rekey, Overwrite, Redirect
  <2> QED
    BY <1>3, <1>5, <2>1 DEF Mktemp, ChooseNew, Rekey, Overwrite, Running
<1>6. ASSUME NEW n \in Envs, ChooseEncryption(n) PROVE EncryptInv'
  <2>1. CASE End("failed")
    BY <1>2, <2>1
  <2>2. ASSUME NEW command, Begin(n, command, None), enc' \in {enc, [enc EXCEPT ![n] = Torn]},
               UNCHANGED held
        PROVE  EncryptInv'
    <3>1. recipe.at = None /\ n \in recipe.todo /\ recipe.outcome = "running"
      BY <1>6 DEF ChooseEncryption, Running, PlaceInv
    <3>2. \A m \in Envs : m # n => enc'[m] = enc[m]
      BY <1>0, <2>2
    <3>3. recipe'.kind = recipe.kind /\ recipe'.chosen = recipe.chosen
          /\ recipe'.todo = recipe.todo \ {n} /\ recipe'.at = n
      BY <1>0, <2>2, BeginFields
    <3>4. ASSUME recipe.kind = "encrypt", NEW m \in recipe.chosen, m \notin recipe.todo, m # n
          PROVE  enc'[m] \in held'[m] \cap Values
      <4>1. m \in Envs /\ m # recipe.at
        BY <1>0, <3>1 DEF Recipes
      <4>2. enc[m] \in held[m] \cap Values
        BY <3>1, <3>4, <4>1 DEF EncryptInv, Going
      <4> QED
        BY <2>2, <3>2, <3>4, <4>1, <4>2
    <3> QED
      BY <3>3, <3>4 DEF EncryptInv
  <2> QED
    BY <1>6, <2>1, <2>2 DEF ChooseEncryption, Redirect
<1>7. CASE Edit
  <2>1. CASE End("failed")
    BY <1>2, <2>1
  <2>2. CASE Finished /\ enc[recipe.at] \in Values /\ dec[recipe.at] \in Values
             /\ enc' = [enc EXCEPT ![recipe.at] = dec[recipe.at]]
    <3>1. recipe.kind = "encrypt" /\ recipe.outcome = "running" /\ held' = held
          /\ recipe.at \in recipe.chosen
      BY <1>7 DEF Edit, Running, PlaceInv
    <3>2. recipe.at \in Envs
      BY <1>0, <3>1 DEF Recipes
    <3>3. enc'[recipe.at] \in held'[recipe.at] \cap Values
      BY <1>0, <2>2, <3>1, <3>2 DEF HeldInv
    <3>4. \A m \in Envs : m # recipe.at => enc'[m] = enc[m]
      BY <1>0, <2>2
    <3> QED
      BY <1>0, <2>2, <3>1, <3>3, <3>4, FinishedFields DEF EncryptInv, Going, Recipes
  <2> QED
    BY <1>7, <2>1, <2>2 DEF Edit
<1>8. CASE Encrypt
  <2>1. CASE End("failed")
    BY <1>2, <2>1
  <2>2. CASE ~End("failed") /\ recipe.kind = "encrypt"
    <3>1. /\ Finished /\ dec[recipe.at] \in Values /\ held' = held
          /\ enc' = [enc EXCEPT ![recipe.at] = dec[recipe.at]]
          /\ recipe.outcome = "running" /\ recipe.at \in recipe.chosen
      BY <1>8, <2>2 DEF Encrypt, PlaceInv
    <3>2. recipe.at \in Envs
      BY <1>0, <3>1 DEF Recipes
    <3>3. enc'[recipe.at] \in held'[recipe.at] \cap Values
      BY <1>0, <2>2, <3>1, <3>2 DEF HeldInv
    <3>4. \A m \in Envs : m # recipe.at => enc'[m] = enc[m]
      BY <1>0, <3>1
    <3> QED
      BY <1>0, <2>2, <3>1, <3>3, <3>4, FinishedFields DEF EncryptInv, Going, Recipes
  <2>3. CASE ~End("failed") /\ recipe.kind # "encrypt"
    BY <1>0, <1>3, <1>8, <2>3, FinishedFields DEF Encrypt
  <2> QED
    BY <2>1, <2>2, <2>3
<1>9. CASE Decrypt
  BY <1>0, <1>2, <1>3, <1>9 DEF Decrypt, Running, Recipes
<1>10. CASE Move \/ WriteZeros \/ Remove
  BY <1>0, <1>2, <1>3, <1>10, FinishedFields, ZerosFields DEF Move, WriteZeros, Remove, Running
<1>11. CASE Succeed
  BY <1>0, <1>11, EndFields DEF Succeed, EncryptInv, Going, PlaceInv
<1>12. CASE Interrupt
  BY <1>2, <1>12 DEF Interrupt
<1>13. ASSUME NEW n \in Envs, NEW v \in Values \cup {None}, WritePlaintext(n, v)
       PROVE  EncryptInv'
  <2>1. recipe' = recipe /\ enc' = enc /\ \A m \in Envs : held[m] \subseteq held'[m]
    BY <1>0, <1>13 DEF WritePlaintext
  <2> QED
    BY <1>0, <2>1 DEF EncryptInv, Going, Recipes
<1>14. CASE UNCHANGED vars
  BY <1>14 DEF vars, EncryptInv, Going
<1> QED
  BY <1>1, <1>4, <1>5, <1>6, <1>7, <1>8, <1>9, <1>10, <1>11, <1>12, <1>13, <1>14
  DEF Next, RecipeStep, EnvEdit, Checkout, ChangeRecipients

\* env-rekey leaves every ciphertext where it is, and what it has behind it
\* stays whole and current.
LEMMA RekeyStep == TypeOK /\ PlaceInv /\ RekeyInv /\ [Next]_vars => RekeyInv'
<1> SUFFICES ASSUME TypeOK, PlaceInv, RekeyInv, [Next]_vars PROVE RekeyInv'
  OBVIOUS
<1>0. recipe \in Recipes
  BY DEF TypeOK
<1>1. ASSUME NEW kind \in Kinds, NEW names \in SUBSET Envs, Call(kind, names)
      PROVE  RekeyInv'
  BY <1>1, ChosenType DEF Call, Idle, RekeyInv, Encrypted
<1>2. ASSUME NEW outcome \in {"failed", "stopped"}, End(outcome) PROVE RekeyInv'
  BY <1>0, <1>2, EndFields DEF RekeyInv, Going
<1>3. ASSUME recipe'.kind = recipe.kind, recipe.kind # "rekey" PROVE RekeyInv'
  BY <1>3 DEF RekeyInv
<1>4. CASE Between
  BY <1>4 DEF Between, Idle, RekeyInv
<1>5. ASSUME NEW n \in Envs, Mktemp(n) \/ ChooseEncryption(n) \/ ChooseNew(n) \/ Overwrite(n)
      PROVE  RekeyInv'
  <2>1. recipe'.kind = recipe.kind
    BY <1>0, <1>5, EndFields, BeginFields
    DEF Mktemp, ChooseEncryption, ChooseNew, Overwrite, Redirect
  <2> QED
    BY <1>3, <1>5, <2>1 DEF Mktemp, ChooseEncryption, ChooseNew, Overwrite, Running
<1>6. ASSUME NEW n \in Envs, Rekey(n) PROVE RekeyInv'
  <2>1. CASE End("failed")
    BY <1>2, <2>1
  <2>2. CASE ~End("failed")
    <3>1. /\ enc[n] \in Values /\ current' = current \cup {n} /\ Skip(n) /\ enc' = enc
          /\ recipe.outcome = "running" /\ n \in recipe.todo
      BY <1>6, <2>2 DEF Rekey, Running
    <3> QED
      BY <1>0, <3>1, SkipFields DEF RekeyInv, Going, Encrypted
  <2> QED
    BY <2>1, <2>2
<1>7. CASE Decrypt
  BY <1>0, <1>2, <1>3, <1>7 DEF Decrypt, Running, Recipes
<1>8. CASE Move \/ Edit \/ WriteZeros \/ Remove
  BY <1>0, <1>2, <1>3, <1>8, FinishedFields, ZerosFields
  DEF Move, Edit, WriteZeros, Remove, Running
<1>9. CASE Encrypt
  <2>1. recipe.kind # "rekey"
    BY <1>9 DEF Encrypt, PlaceInv
  <2> QED
    BY <1>0, <1>2, <1>3, <1>9, <2>1, FinishedFields DEF Encrypt
<1>10. CASE Succeed
  BY <1>0, <1>10, EndFields DEF Succeed, RekeyInv, Going, Encrypted
<1>11. CASE Interrupt
  BY <1>2, <1>11 DEF Interrupt
<1>12. ASSUME NEW n \in Envs, NEW v \in Values \cup {None}, WritePlaintext(n, v)
       PROVE  RekeyInv'
  BY <1>12 DEF WritePlaintext, RekeyInv, Going, Encrypted
<1>13. CASE UNCHANGED vars
  BY <1>13 DEF vars, RekeyInv, Going, Encrypted
<1> QED
  BY <1>1, <1>4, <1>5, <1>6, <1>7, <1>8, <1>9, <1>10, <1>11, <1>12, <1>13
  DEF Next, RecipeStep, EnvEdit, Checkout, ChangeRecipients

\* env-clean removes what it is at before it goes on, and what appears behind
\* it was written meanwhile.
LEMMA CleanStep == TypeOK /\ PlaceInv /\ CleanInv /\ [Next]_vars => CleanInv'
<1> SUFFICES ASSUME TypeOK, PlaceInv, CleanInv, [Next]_vars PROVE CleanInv'
  OBVIOUS
<1>0. recipe \in Recipes /\ dec \in [Envs -> Values \cup {None, Zeroed}]
  BY DEF TypeOK
<1>1. ASSUME NEW kind \in Kinds, NEW names \in SUBSET Envs, Call(kind, names)
      PROVE  CleanInv'
  BY <1>1, ChosenType DEF Call, Idle, CleanInv, Decrypted
<1>2. ASSUME NEW outcome \in {"failed", "stopped"}, End(outcome) PROVE CleanInv'
  BY <1>0, <1>2, EndFields DEF CleanInv, Going
<1>3. ASSUME recipe'.kind = recipe.kind, recipe.kind # "clean" PROVE CleanInv'
  BY <1>3 DEF CleanInv
<1>4. CASE Between
  BY <1>4 DEF Between, Idle, CleanInv
<1>5. ASSUME NEW n \in Envs, Mktemp(n) \/ ChooseEncryption(n) \/ ChooseNew(n) \/ Rekey(n)
      PROVE  CleanInv'
  <2>1. recipe'.kind = recipe.kind
    BY <1>0, <1>5, EndFields, BeginFields, SkipFields
    DEF Mktemp, ChooseEncryption, ChooseNew, Rekey, Redirect
  <2> QED
    BY <1>3, <1>5, <2>1 DEF Mktemp, ChooseEncryption, ChooseNew, Rekey, Running
<1>6. ASSUME NEW n \in Envs, Overwrite(n) PROVE CleanInv'
  <2>1. /\ recipe.outcome = "running" /\ recipe.kind = "clean" /\ recipe.at = None
        /\ Begin(n, "head", None) \/ Begin(n, "rm", None)
        /\ written' = written /\ dec' \in {dec, [dec EXCEPT ![n] = Empty]}
    BY <1>6 DEF Overwrite, Running, PlaceInv
  <2>2. recipe'.todo = recipe.todo \ {n} /\ recipe'.at = n
    BY <1>0, <2>1, BeginFields
  <2>3. \A m \in Envs : m # n => dec'[m] = dec[m]
    BY <1>0, <2>1
  <2>4. ASSUME NEW m \in Envs, dec'[m] # None, m # n PROVE m \in written \cup recipe.todo
    BY <2>1, <2>3, <2>4 DEF CleanInv, Going, Decrypted
  <2> QED
    BY <2>1, <2>2, <2>4 DEF CleanInv, Decrypted
<1>7. CASE Remove
  <2>1. CASE End("failed")
    BY <1>2, <2>1
  <2>2. CASE ~End("failed")
    <3>1. /\ recipe.outcome = "running" /\ recipe.kind = "clean" /\ Finished
          /\ written' = written /\ dec' = [dec EXCEPT ![recipe.at] = None]
      BY <1>7, <2>2 DEF Remove, Running
    <3>2. recipe'.todo = recipe.todo
      BY <1>0, <3>1, FinishedFields
    <3>3. ASSUME NEW m \in Envs, dec'[m] # None PROVE m \in written \cup recipe.todo
      <4>1. m # recipe.at /\ dec[m] # None
        BY <1>0, <3>1, <3>3
      <4> QED
        BY <3>1, <4>1 DEF CleanInv, Going, Decrypted
    <3> QED
      BY <3>1, <3>2, <3>3 DEF CleanInv, Decrypted
  <2> QED
    BY <2>1, <2>2
<1>15. CASE WriteZeros
  <2>1. /\ recipe.outcome = "running" /\ recipe.kind = "clean" /\ written' = written
        /\ dec' = dec \/ dec' = [dec EXCEPT ![recipe.at] = Zeroed]
    BY <1>15 DEF WriteZeros, Running
  <2>2. recipe'.todo = recipe.todo /\ recipe'.at = recipe.at
    BY <1>0, <1>15, ZerosFields
  <2>3. ASSUME NEW m \in Envs, dec'[m] # None, m # recipe.at
        PROVE  m \in written \cup recipe.todo
    <3>1. dec[m] # None
      BY <1>0, <2>1, <2>3
    <3> QED
      BY <2>1, <2>3, <3>1 DEF CleanInv, Going, Decrypted
  <2> QED
    BY <2>1, <2>2, <2>3 DEF CleanInv, Decrypted
<1>8. CASE Decrypt
  BY <1>0, <1>2, <1>3, <1>8 DEF Decrypt, Running, Recipes
<1>9. CASE Move \/ Edit
  BY <1>0, <1>2, <1>3, <1>9, FinishedFields DEF Move, Edit, Running
<1>10. CASE Encrypt
  <2>1. recipe.kind # "clean"
    BY <1>10 DEF Encrypt, PlaceInv
  <2> QED
    BY <1>0, <1>2, <1>3, <1>10, <2>1, FinishedFields DEF Encrypt
<1>11. CASE Succeed
  <2>1. recipe.at = None /\ recipe.outcome = "running"
    BY <1>11 DEF Succeed, PlaceInv
  <2> QED
    BY <1>0, <1>11, <2>1, EndFields DEF Succeed, CleanInv, Going, Decrypted
<1>12. CASE Interrupt
  BY <1>2, <1>12 DEF Interrupt
<1>13. ASSUME NEW n \in Envs, NEW v \in Values \cup {None}, WritePlaintext(n, v)
       PROVE  CleanInv'
  <2>1. recipe' = recipe /\ written' = written \cup {n} /\ dec' = [dec EXCEPT ![n] = v]
    BY <1>13 DEF WritePlaintext
  <2>2. Decrypted' \subseteq Decrypted \cup {n}
    BY <1>0, <2>1 DEF Decrypted
  <2> QED
    BY <2>1, <2>2 DEF CleanInv, Going
<1>14. CASE UNCHANGED vars
  BY <1>14 DEF vars, CleanInv, Going, Decrypted
<1> QED
  BY <1>1, <1>4, <1>5, <1>6, <1>7, <1>8, <1>9, <1>10, <1>11, <1>12, <1>13, <1>14, <1>15
  DEF Next, RecipeStep, EnvEdit, Checkout, ChangeRecipients

LEMMA IInvStep == IInv /\ [Next]_vars => IInv'
BY TypeStep, PlaceStep, HeldStep, EncryptStep, RekeyStep, CleanStep DEF IInv

\* A step writes over whole ciphertext only with a whole value: the redirection
\* makes only a file that was not there.
LEMMA SurviveStep ==
    ASSUME TypeOK, PlaceInv, [Next]_vars
    PROVE  \A n \in Envs : enc[n] \in Values => enc'[n] \in Values
<1>0. recipe \in Recipes /\ enc \in [Envs -> Values \cup {None, Torn}]
  BY DEF TypeOK
<1> SUFFICES ASSUME NEW m \in Envs, enc[m] \in Values PROVE enc'[m] \in Values
  OBVIOUS
<1>1. enc[m] # None /\ enc[m] # Torn
  OBVIOUS
<1>2. CASE enc' = enc
  BY <1>2
<1>3. ASSUME NEW n \in Envs, ChooseEncryption(n) \/ ChooseNew(n) PROVE enc'[m] \in Values
  BY <1>0, <1>1, <1>3 DEF ChooseEncryption, ChooseNew, Redirect
<1>4. CASE Edit
  BY <1>0, <1>4 DEF Edit
<1>5. CASE Encrypt
  BY <1>0, <1>5 DEF Encrypt
<1>6. ASSUME NEW n \in Envs, NEW v \in Values \cup {None}, Checkout(n, v) PROVE enc'[m] \in Values
  BY <1>0, <1>1, <1>6 DEF Checkout
<1>7. ASSUME NEW n \in Envs, NEW v \in Values, EnvEdit(n, v) PROVE enc'[m] \in Values
  BY <1>0, <1>7 DEF EnvEdit
<1> QED
  BY <1>2, <1>3, <1>4, <1>5, <1>6, <1>7
  DEF Next, RecipeStep, Call, Mktemp, Rekey, Overwrite, Decrypt, Move, WriteZeros, Remove, Succeed,
      Interrupt, WritePlaintext, ChangeRecipients, vars

-----------------------------------------------------------------------------
\* The invariant holds of every state of the environment files.
THEOREM Invariance == Spec => []IInv
<1> QED
  BY InitIInv, IInvStep, PTL DEF Spec

\* Every variable keeps its type, the record of the running recipe included.
THEOREM TypeCorrect == Spec => []TypeOK
<1>1. IInv => TypeOK
  BY DEF IInv
<1> QED
  BY <1>1, Invariance, PTL

\* No recipe, however it fails or is interrupted, puts anything in the place of
\* a whole ciphertext but another whole one.
THEOREM CiphertextSurvives == Spec => WholeCiphertextSurvives
<1>1. IInv /\ [Next]_vars => [\A n \in Envs : enc[n] \in Values => enc'[n] \in Values]_vars
  BY SurviveStep DEF IInv
<1> QED
  BY <1>1, Invariance, PTL DEF Spec, WholeCiphertextSurvives

\* env-encrypt that ended well left in each ciphertext what its plaintext said
\* at some moment of the run.
THEOREM EncryptReportsTruth == Spec => []EncryptedMeansHeld
<1>1. IInv => EncryptedMeansHeld
  <2> SUFFICES ASSUME IInv, recipe.kind = "encrypt", recipe.outcome = "done",
                      NEW n \in recipe.chosen
               PROVE  enc[n] \in held[n] \cap Values
    BY DEF EncryptedMeansHeld
  <2>1. recipe \in Recipes
    BY DEF IInv, TypeOK
  <2>2. recipe.todo = {} /\ recipe.at = None
    BY <2>1 DEF IInv, PlaceInv
  <2>3. n # None
    BY <2>1 DEF Recipes
  <2> QED
    BY <2>2, <2>3 DEF IInv, EncryptInv, Going
<1> QED
  BY <1>1, Invariance, PTL

\* env-rekey that ended well left every ciphertext whole and current.
THEOREM RekeyIsComplete == Spec => []RekeyReachesAll
<1>1. IInv => RekeyReachesAll
  BY DEF IInv, PlaceInv, RekeyInv, Going, RekeyReachesAll
<1> QED
  BY <1>1, Invariance, PTL

\* env-clean that ended well left no file under the name of a plaintext but those
\* the developer wrote meanwhile.  Temporary files are not among those it lists,
\* and nothing is said of them: they stay.
THEOREM CleanRemovesWhatItLists == Spec => []CleanRemovesListed
<1>1. IInv => CleanRemovesListed
  <2> SUFFICES ASSUME IInv, recipe.kind = "clean", recipe.outcome = "done"
               PROVE  Decrypted \subseteq written
    BY DEF CleanRemovesListed
  <2>1. recipe.todo = {} /\ recipe.at = None
    BY DEF IInv, PlaceInv
  <2> QED
    BY <2>1 DEF IInv, CleanInv, Going, Decrypted
<1> QED
  BY <1>1, Invariance, PTL
=============================================================================
