---------------------------- MODULE MCRemoteLoad ----------------------------
(* Remote loads on a small instance: see the .cfg files. *)
EXTENDS RemoteLoad, TLC

ProcSymmetry == Permutations(Procs)

\* What the properties can still tell apart.  None asks what lies refused in a
\* catalog cache that is contested, nor for a companion that lapsed, which only a new
\* one ends; nor, once the mold cache is disturbed, what is in it: the
\* loads they still speak of then, those with --no-cache, do not read it.
Relevant ==
  <<world, pc, load, catFiles, contested, refused /\ ~contested, disturbed,
    IF disturbed THEN <<>>
    ELSE <<script, hash, lapsed, IF lapsed THEN None ELSE companion, copy, young>> >>
=============================================================================
