------------------------------ MODULE MCWatch ------------------------------
(* Watch mode on one or two molds and an input: see the .cfg files. *)
EXTENDS Watch
=============================================================================
