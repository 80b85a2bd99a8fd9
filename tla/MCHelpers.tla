------------------------------ MODULE MCHelpers ------------------------------
(* Helpers on arrays and trees of a few values: see the .cfg file. *)
EXTENDS Helpers

MCIndex == ("0" :> 0) @@ ("1" :> 1) @@ ("-1" :> -1) @@ ("-2" :> -2)


Scalars == {Null, Leaf("x")}
Small ==
  Scalars \cup {Array(s) : s \in SeqOf({Leaf("x")}, 2)}
  \cup {Object(f) : f \in UNION {[K -> {Leaf("y")}] : K \in {{}, {"a"}, {"0"}}}}
MCTrees ==
  Small \cup {Leaf("y")} \cup {Array(s) : s \in SeqOf(Small, 3)}
  \cup {Object(f) : f \in UNION {[K -> Small] : K \in {{"a"}, {"a", "b"}, {"a", "0"}}}}
=============================================================================
