----------------------------- MODULE MCEnvFiles -----------------------------
(* Constants for TLC.                                                       *)
EXTENDS EnvFiles, TLC

Symmetry == Permutations(Envs)
=============================================================================
