--------------------------- MODULE MCCompileCache ---------------------------
(* The compiled-object caches on a small instance: see the .cfg file. *)
EXTENDS CompileCache

CONSTANTS s1, s2, s3, s4, bad, h1, h2, h3

MCSources == {s1, s2, s3, s4, bad}
MCKeys == MCSources \cup {h1, h2, h3}

\* s1 and s2 collide.
MCHash == [s \in MCSources |-> CASE s \in {s1, s2} -> h1
                                 [] s = s3         -> h2
                                 [] s = s4         -> h3
                                 [] s = bad        -> h1]
=============================================================================
