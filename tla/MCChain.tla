------------------------------ MODULE MCChain ------------------------------
(* The chain on small instances: see the .cfg files. *)
EXTENDS Chain

\* No definition tells one exit code from another.
CodeSymmetry == Permutations(Codes)
=============================================================================
