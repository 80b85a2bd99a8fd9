------------------------------- MODULE MCShape -------------------------------
(* Command lines and disks for Shape: see the .cfg files. *)
EXTENDS Shape, TLC

MCBases == {"a", "b", "d", "l", "out"}
MCExt == ("a" :> "json") @@ ("b" :> "ndjson") @@ ("l" :> "json") @@ ("d" :> None) @@ ("out" :> None)

a == <<".", "a">>
b == <<".", "b">>
l == <<".", "l">>
out == <<".", "out">>
url == <<"http", "a">>

Plain ==
  [inputs |-> <<>>, listed |-> None, output |-> None, inPlace |-> FALSE, check |-> FALSE,
   slurp |-> FALSE, noInput |-> FALSE, watch |-> FALSE, urlName |-> FALSE, debug |-> FALSE,
   inFormat |-> None, outFormat |-> None, chain |-> "molds", named |-> "none",
   defaultIn |-> None, defaultOut |-> None, forced |-> FALSE]

\* Two inputs of one name, an input that is an earlier one's output, an input under two names.
InputLists ==
  {<<>>, <<a>>, <<b>>, <<l>>, <<url>>, <<<<"./", "b">>>>, <<a, b>>,
   <<b, <<"d", "b">>>>, <<b, <<"out", "b">>>>, <<b, b>>}

MCTargets == {a}

Conversions ==
  {[Plain EXCEPT !.inputs = i, !.output = o, !.inPlace = p, !.check = c, !.slurp = s, !.chain = ch, !.outFormat = f] :
     i \in InputLists, o \in {None, b, l, out}, p, c, s \in BOOLEAN,
     ch \in {"identity", "molds"}, f \in {None, "json"}}

Passthroughs ==
  {[Plain EXCEPT !.inputs = i, !.output = o, !.urlName = u, !.check = c, !.slurp = s, !.chain = ch, !.outFormat = "raw"] :
     i \in InputLists, o \in {None, b}, u, c, s \in BOOLEAN, ch \in {"none", "identity"}}

Others ==
  {[Plain EXCEPT !.inputs = i, !.output = o, !.urlName = u, !.check = c, !.chain = ch, !.inFormat = "http", !.outFormat = f] :
     i \in {<<url>>, <<a>>, <<url, a>>}, o \in {None, out}, u, c \in BOOLEAN,
     ch \in {"identity", "molds"}, f \in {None, "http"}}
  \cup {[Plain EXCEPT !.noInput = TRUE, !.inputs = i, !.inFormat = f, !.defaultIn = g, !.output = b] :
          i \in {<<>>, <<a>>}, f \in {None, "json"}, g \in {None, "bad", "http"}}
  \cup {[Plain EXCEPT !.inputs = <<b>>, !.chain = ch, !.debug = d, !.output = o, !.inFormat = f, !.defaultIn = "csv",
                      !.defaultOut = g, !.forced = q] :
          ch \in {"none", "identity", "molds"}, d, q \in BOOLEAN, o \in {None, a, l}, f \in {None, "ndjson", "json"},
          g \in {None, "raw", "json"}}
  \cup {[Plain EXCEPT !.listed = i, !.slurp = s, !.named = n, !.output = out] :
          i \in {<<>>, <<a, b>>, <<b, <<"d", "b">>>>}, s \in BOOLEAN, n \in {"none", "some", "all"}}
  \cup {[Plain EXCEPT !.watch = TRUE, !.inputs = i, !.output = o, !.inPlace = p, !.outFormat = f] :
          i \in InputLists, o \in {None, a}, p \in BOOLEAN, f \in {None, "raw", "bad"}}

\* clap refuses -O with -o and with --in-place, and -I with -i.  Of the names, only
\* `out` is one that a batch may make a directory.
MCInvocations ==
  {v \in Conversions \cup Passthroughs \cup Others :
     (v.urlName => v.output = None /\ ~v.inPlace) /\ (v.listed # None => v.inputs = <<>>)
     /\ (IsBatch(v) /\ ~v.slurp => v.output \in {None, out})}

Original(n) == File(<<n>>)
MCWorlds ==
  {[n \in Files |->
     CASE n \in {a, <<"d", "b">>} -> Original(n)
       [] n = b -> IF x THEN Original(b) ELSE Absent
       [] n = l -> LinkTo(b)
       [] n = <<".", "d">> -> Dir
       [] n = out -> y
       [] n = <<"out", "b">> -> IF y = Dir THEN Original(n) ELSE Absent
       [] OTHER -> Absent] : x \in BOOLEAN, y \in {Absent, Dir, Original(out)}}
=============================================================================
