--------------------------- MODULE MCSupabaseStub ---------------------------
(* Two accounts, one of which has a verified factor from the start.         *)
EXTENDS SupabaseStub, TLC

CONSTANTS ann, ben, key
MCSeededOwner == key :> ann
Symmetry == Permutations(Sessions) \cup Permutations(Requests) \cup Permutations(Challenges)
=============================================================================
