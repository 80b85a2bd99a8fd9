---------------------------- MODULE MCTestRunner ----------------------------
(* TestRunner on two bases with two extensions: see the .cfg file. *)
EXTENDS TestRunner, TLC

Off == [v \in Variables |-> NotGiven]

MCMetas ==
  {[Plain EXCEPT !.skip = TRUE],
   [Plain EXCEPT !.exit = 1],
   [Plain EXCEPT !.input = <<2, 1>>],
   [Plain EXCEPT !.expected = <<2, 2>>, !.sets = [Off EXCEPT !["legacy"] = "on"]],
   [Plain EXCEPT !.sets = [Off EXCEPT !["legacy"] = "off"]],
   [Plain EXCEPT !.sets = [Off EXCEPT !["limit"] = "on"]]}

Moves(reads, off, on) == [reads |-> reads, on |-> (TRUE :> on) @@ (FALSE :> off)]

MCMolds ==
  {Moves({}, "same", "same"), Moves({"legacy"}, "same", "error"), Moves({"legacy"}, "error", "same"),
   Moves({"limit"}, "exit", "same"), Moves(Variables, "same", "other")}
=============================================================================
