-------------------------- MODULE MCSecretPolicy ----------------------------
(* A document as sops writes it, and the ways in which it can be damaged.   *)
EXTENDS SecretPolicy

Good(key) == [key |-> key, good |-> TRUE]
Bad(key)  == [key |-> key, good |-> FALSE]

Base == <<Good("comment"), Good("PASSWORD"), Good("mac"), Good("version"),
          Good("age0_enc"), Good("age0_recipient")>>

Without(n) == SubSeq(Base, 1, n - 1) \o SubSeq(Base, n + 1, Len(Base))
Extra == {<<>>, <<Good("blank"), Good("lastmodified"), Good("TOKEN")>>,
          <<Bad("TOKEN")>>, <<Bad("comment")>>, <<Bad("broken")>>, <<Good("mac")>>,
          <<Bad("sops_unknown")>>, <<Good("age1_enc")>>,
          <<Good("age1_enc"), Bad("age1_recipient")>>,
          <<Good("age1_enc"), Good("age1_recipient")>>}
Documents == {Base \o e : e \in Extra} \cup {Without(n) : n \in DOMAIN Base}
             \cup {[Base EXCEPT ![n].good = FALSE] : n \in DOMAIN Base}
             \cup {<<>>, SubSeq(Base, 3, 6), <<Bad("PASSWORD")>>}

Regular(big, credential, doc) ==
    [type |-> "file", big |-> big, credential |-> credential, doc |-> doc]

NoFileTypes == {"symlink", "directory", "missing", "unreadable"}

MCContents ==
    {[type |-> t] : t \in NoFileTypes}
    \cup {Regular(FALSE, FALSE, d) : d \in Documents}
    \cup {Regular(FALSE, TRUE, <<Bad("PASSWORD")>>), Regular(TRUE, FALSE, <<>>)}

MCEdits ==
    {[type |-> t] : t \in NoFileTypes}
    \cup {Regular(FALSE, FALSE, Base), Regular(FALSE, TRUE, <<Bad("PASSWORD")>>)}

\* Every kind of path alone, with every content; and two files side by side.
MCRepositories ==
    {<< <<p, c>> >> : p \in Paths, c \in MCContents}
    \cup {<< <<[dir |-> "env/enc", name |-> "devenc"], c>>,
             <<[dir |-> d, name |-> "plain"], e>> >> :
             c \in MCEdits, d \in {"secrets", "top"}, e \in MCEdits}
=============================================================================
