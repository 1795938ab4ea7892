------------------------------ MODULE MCKvStub ------------------------------
(* KvStub with as many requests as Requests has names: nothing else grows.  *)
EXTENDS KvStub, TLC

Symmetry == Permutations(Requests) \cup Permutations(Keys)
=============================================================================
