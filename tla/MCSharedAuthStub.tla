-------------------------- MODULE MCSharedAuthStub --------------------------
(* Two identities share a provider token, a third is malformed.             *)
EXTENDS SharedAuthStub, TLC

CONSTANTS ann, twin, bad, pa, pb
MCTokenOf == ann :> pa @@ twin :> pa @@ bad :> pb
=============================================================================
