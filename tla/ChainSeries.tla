---------------------------- MODULE ChainSeries ----------------------------
(***************************************************************************)
(* What a mold chain promises (docs/guides/dynamic-molds.md, "Series, not  *)
(* fan-out"): a queue of steps is worked off one at a time, in order, each *)
(* step exactly once.  A step that runs may put new steps at the head of   *)
(* what is left (pipeline.insert_next) and at its end (pipeline.append),   *)
(* each group in the order it was asked for; all of a mold's requests      *)
(* take effect or, when the chain fails, none does.  The chain ends with   *)
(* the last step that is left; one that fails yields nothing.              *)
(***************************************************************************)
EXTENDS Naturals, Sequences

CONSTANTS StaticSteps,      \* number of steps named on the command line
          MaxDynamicSteps   \* most steps a chain may inject

VARIABLES ran,      \* identities of the steps that have run, in order
          todo,     \* identities of the steps still to run, in order
          status    \* "running", "done" or "failed"

series == <<ran, todo, status>>

SeriesInit ==
  /\ ran = <<>>
  /\ todo = [k \in 1..StaticSteps |-> k]
  /\ status = "running"

Known == {ran[k] : k \in 1..Len(ran)} \cup {todo[k] : k \in 1..Len(todo)}

\* New steps get identities in the order they are asked for, above all known.
Fresh(s) ==
  /\ \A k \in 1..Len(s) : \A id \in Known : id < s[k]
  /\ \A k, l \in 1..Len(s) : k < l => s[k] < s[l]

RunHead ==
  /\ status = "running" /\ todo # <<>>
  /\ ran' = Append(ran, Head(todo))
  /\ \E first, last \in 0..Len(todo') :
       LET front == SubSeq(todo', 1, first)
           back  == SubSeq(todo', Len(todo') - last + 1, Len(todo'))
       IN  /\ todo' = front \o Tail(todo) \o back
           /\ Fresh(front) /\ Fresh(back)
           /\ \A k \in 1..first, l \in 1..last : front[k] # back[l]
  /\ Len(ran') + Len(todo') <= StaticSteps + MaxDynamicSteps
  /\ status' = IF todo' = <<>> THEN "done" ELSE "running"

Abort ==
  /\ status = "running"
  /\ status' = "failed" /\ ran' = <<>> /\ todo' = <<>>

SeriesSpec == SeriesInit /\ [][RunHead \/ Abort]_series
=============================================================================
