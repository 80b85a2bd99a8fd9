--------------------------- MODULE MCChainBudget ---------------------------
(* The budgets on small instances: see the .cfg file. *)
EXTENDS ChainBudget
=============================================================================
