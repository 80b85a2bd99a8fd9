-------------------------- MODULE MCRegistryConfig --------------------------
(* Registry commands on a small sources.toml: see the .cfg files. *)
EXTENDS RegistryConfig, TLC

ProcSymmetry == Permutations(Procs)
=============================================================================
