--------------------------- MODULE MCRequireSend ----------------------------
(* Two names, a logger that is known and one that is produced on the way.   *)
EXTENDS RequireSend, TLC

MCCalls     == {<<"level">>, <<"level", "send">>,
                <<"field", "level">>, <<"emit">>}
MCLanguages == {"rust", "dart", "gleam"}
Symmetry    == Permutations(Names)
=============================================================================
