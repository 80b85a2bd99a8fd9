------------------------------ MODULE RunProofs ------------------------------
(***************************************************************************)
(* Theorems about one run of `fimod shape`: what it reads and writes       *)
(* (Shape), for every command line, disk and mold, and the budgets that    *)
(* its chain keeps (ChainBudget), for every policy.                        *)
(***************************************************************************)
EXTENDS Shape, ChainBudget, SequenceTheorems, TLAPS

\* Part 1: the command line and the disk.

\* What is inductive about a run of Shape.  First the phases.
Phases == {"start", "mkdir", "read", "run", "decide", "write", "temp", "writing",
           "fill", "install", "end", "dead"}
Working == Phases \ {"start", "end", "dead"}
HasRead == Working \ {"mkdir", "read"}
Writing == {"writing", "fill", "install"}
Streaming == {"temp", "fill", "install"}
Succeeded == pc = "end" /\ status \in Codes \cup {"done"}

\* Where opening n leads to, all the run long.
At(n) == NodeIn(disk0, n)
\* Write j is still what its file holds; it is the newest of its file.
Whole(j) == disk[log[j].node] = File(log[j].what)
Newest(j) == \A i \in Writes(log[j].node) : i <= j

Shaped ==
  /\ inv \in Invocations /\ disk0 \in Worlds /\ disk \in [Files -> Nodes]
  /\ pc \in Phases /\ k \in 1 .. Items(inv)
  /\ held \in What /\ temp \in Nodes
  /\ asked \in [exit : Codes \cup {None}, format : Requests \cup {None}, file : Targets \cup {None}]
  /\ log \in Seq([item : Nat, node : Files \cup {None}, what : What, raw : BOOLEAN])
  /\ faulty \in BOOLEAN

\* Links stay what they were, and nothing becomes one.
LinksStay ==
  \A n \in Files : disk[n].kind = "link" \/ disk0[n].kind = "link" => disk[n] = disk0[n]

\* The command line of a run at work was not refused.
Accepted ==
  /\ pc = "start" => disk = disk0 /\ k = 1
  /\ pc \in {"start", "mkdir"} => log = <<>> /\ disk = disk0
  /\ pc \in Working =>
       ~Refused(inv, inv.output # None /\ disk0[At(inv.output)].kind \in {"file", "torn"},
                inv.output # None /\ disk0[At(inv.output)].kind = "dir")
  /\ pc = "mkdir" => Looped /\ ~IsRaw(inv) /\ inv.output # None

\* Only molds ask for something, and only for the input they have run on.
AskedByMolds ==
  /\ pc \in {"start", "mkdir", "read", "run"} \cup Streaming => asked = NothingAsked
  /\ asked # NothingAsked => inv.chain = "molds" /\ ~IsRaw(inv)
  /\ pc = "run" => inv.chain = "molds" /\ ~IsRaw(inv)

\* A streamed conversion, and what is not one.
StreamsOnly ==
  /\ pc \in Streaming =>
       /\ inv.chain = "identity" /\ ~inv.check /\ ~inv.inPlace /\ ~IsMultiSlurp(inv)
       /\ Dest # None /\ disk[Entry(Dest)].kind # "link"
  /\ pc = "decide" /\ ~inv.check => ~StreamsToFile(k)
  /\ pc \in {"write", "writing"} => ~StreamsToFile(k)
  /\ temp # Absent => pc \in {"fill", "install", "dead"}
  /\ pc = "install" => temp = File(Result)

\* What has been read, and from where: a result is made from what its source was at
\* the start, if nothing was written to it.
From(n, what) ==
  IF n = None \/ IsUrl(n) THEN what[1] = n
  ELSE what[1] = At(n) \/ Writes(At(n)) # {}
HeldFrom ==
  pc \in HasRead =>
    /\ ~(inv.urlName /\ Here = None)
    /\ IsMultiSlurp(inv) => k = Items(inv)
    /\ held # <<>>
    /\ ~IsMultiSlurp(inv) => From(Here, held)

\* The write in progress, and those before it.
InProgress ==
  pc \in Writing =>
    /\ log # <<>> /\ Dest # None
    /\ log[Len(log)] = [item |-> k, what |-> Result, raw |-> AsksRaw,
                        node |-> IF pc = "writing" THEN Node(Dest) ELSE Entry(Dest)]
    /\ pc = "writing" => disk[Node(Dest)] = Torn
Delivered ==
  /\ pc \in Working \ Writing =>
       {log[j].item : j \in DOMAIN log} = IF IsMultiSlurp(inv) THEN {} ELSE 1 .. k - 1
  /\ pc \in Writing \/ (Succeeded /\ ~inv.check) =>
       {log[j].item : j \in DOMAIN log} = IF IsMultiSlurp(inv) THEN {k} ELSE 1 .. k
  /\ pc = "end" /\ status = "done" => k = Items(inv)
NewestWhole ==
  pc \in Working \/ (Succeeded /\ ~inv.check) =>
    \A j \in DOMAIN log : log[j].node # None /\ Newest(j) =>
      Whole(j) \/ (pc \in Writing /\ j = Len(log))

\* A file that nothing was written to stays; only the directory of a batch is made.
\* One that was written to is what it was, or holds a result, unless it was truncated.
MadeDir(e) ==
  /\ Looped /\ ~IsRaw(inv) /\ inv.output # None /\ e = inv.output
  /\ disk0[e].kind \notin {"file", "torn"} /\ disk[e] = Dir
KeptAt(e) ==
  IF Writes(e) = {} THEN disk[e] = disk0[e] \/ MadeDir(e)
  ELSE \/ disk[e] = disk0[e]
       \/ \E i \in Writes(e) : Whole(i) \/ ~StreamsToFile(log[i].item)
Kept == \A e \in Files : KeptAt(e)
Filled == \A e \in Files : disk[e].kind = "file" => disk[e].what # <<>>

FromWhatItWas ==
  \A j \in DOMAIN log :
    /\ ~IsMultiSlurp(inv) => From(Source(inv, log[j].item), log[j].what)
    /\ log[j].item \in 1 .. Items(inv)

\* In place, a file that nothing names for output holds what it was, once more
\* converted for every input that leads to it.
Passes(m) == [j \in 1 .. m |-> Converted]
Passed == IF pc \in {"end", "dead"} THEN k ELSE k - 1
InPlaceHeld ==
  /\ faulty => pc \in {"end", "dead"}
  /\ \A e \in Files : disk0[e].kind = "file" /\ ~NamedForOutput(e) =>
       /\ ~inv.inPlace => disk[e] = disk0[e]
       /\ inv.inPlace =>
            \/ \E m \in 0 .. Passed : disk[e] = File(disk0[e].what \o Passes(m))
            \/ disk[e] = Torn /\ ((pc = "writing" /\ At(Dest) = e) \/ faulty)
       /\ inv.inPlace /\ pc \in HasRead /\ ~IsRaw(inv) /\ Here # None /\ At(Here) = e =>
            \E m \in 0 .. k - 1 : held = disk0[e].what \o Passes(m)

CheckLogsRaw ==
  inv.check /\ ~IsRaw(inv) =>
    /\ \A j \in DOMAIN log : log[j].raw
    /\ pc \in {"write", "writing"} => AsksRaw

RunInv ==
  /\ Shaped /\ LinksStay /\ Accepted /\ AskedByMolds /\ StreamsOnly /\ HeldFrom
  /\ InProgress /\ Delivered /\ NewestWhole /\ Kept /\ Filled /\ FromWhatItWas
  /\ InPlaceHeld /\ CheckLogsRaw

----------------------------------------------------------------------------
\* Names, entries and nodes

LEMMA NoneIsNoName == None \notin Names
  BY InvocationAssumption

LEMMA LocalNames ==
  ASSUME NEW n \in Names, ~IsUrl(n)
  PROVE  n \in Local \X Bases /\ n # None
  BY NoneIsNoName DEF Names, IsUrl, Local

LEMMA LocalIsName ==
  ASSUME NEW n \in Local \X Bases
  PROVE  n \in Names /\ n # None /\ ~IsUrl(n)
  BY NoneIsNoName DEF Names, IsUrl, Local

LEMMA FilesAreNames ==
  ASSUME NEW e \in Files
  PROVE  e \in Local \X Bases /\ e # None
  BY LocalIsName DEF Files

LEMMA EntryIsFile ==
  ASSUME NEW n \in Local \X Bases
  PROVE  Entry(n) \in Files
  BY DEF Entry, Files, Local, InCwd

\* Where a name leads to is no link, and no name.
LEMMA NodeIsFile ==
  ASSUME NEW d, WellFilled(d), NEW n \in Local \X Bases
  PROVE  NodeIn(d, n) \in Files /\ d[NodeIn(d, n)].kind # "link"
  <1>1. Entry(n) \in Files
    BY EntryIsFile
  <1> QED
    BY <1>1 DEF NodeIn, WellFilled

\* What holds of a command line and a disk by themselves.
LEMMA Command ==
  ASSUME Shaped
  PROVE  WellFormed(inv) /\ WellFilled(disk0)
  BY ShapeAssumption DEF Shaped

LEMMA AtIsFile ==
  ASSUME Shaped, NEW n \in Local \X Bases
  PROVE  At(n) \in Files /\ disk0[At(n)].kind # "link"
  BY Command, NodeIsFile DEF At

\* Links stay, so that a name leads to the same file throughout.
LEMMA SameNode ==
  ASSUME Shaped, LinksStay, NEW n \in Local \X Bases
  PROVE  Node(n) = At(n) /\ disk[At(n)].kind # "link"
  <1>1. Entry(n) \in Files
    BY EntryIsFile
  <1>2. At(n) \in Files /\ disk0[At(n)].kind # "link"
    BY AtIsFile
  <1>3. disk[At(n)].kind # "link"
    BY <1>2 DEF LinksStay
  <1>4. CASE disk[Entry(n)].kind = "link"
    <2>1. disk[Entry(n)] = disk0[Entry(n)]
      BY <1>1, <1>4 DEF LinksStay
    <2> QED
      BY <1>3, <2>1 DEF Node, NodeIn, At
  <1>5. CASE disk[Entry(n)].kind # "link"
    <2>1. disk0[Entry(n)].kind # "link"
      BY <1>1, <1>5 DEF LinksStay
    <2> QED
      BY <1>3, <1>5, <2>1 DEF Node, NodeIn, At
  <1> QED
    BY <1>4, <1>5

LEMMA Sources ==
  ASSUME Shaped, NEW i \in 1 .. Items(inv)
  PROVE  /\ Source(inv, i) \in Names \cup {None}
         /\ Source(inv, i) = None <=> Inputs(inv) = <<>>
         /\ Inputs(inv) # <<>> => i \in DOMAIN Inputs(inv)
         /\ Inputs(inv) \in Seq(Names)
         /\ Items(inv) \in Nat \ {0}
  <1>1. Inputs(inv) \in Seq(Names)
    BY Command DEF WellFormed, Inputs
  <1>2. CASE Inputs(inv) = <<>>
    BY <1>1, <1>2 DEF Source, Items
  <1>3. CASE Inputs(inv) # <<>>
    <2>1. Items(inv) = Len(Inputs(inv)) /\ Items(inv) \in Nat \ {0}
      BY <1>1, <1>3 DEF Items
    <2>2. i \in DOMAIN Inputs(inv)
      BY <1>1, <2>1
    <2>3. Source(inv, i) \in Names
      BY <1>1, <1>3, <2>2 DEF Source
    <2> QED
      BY <1>1, <1>3, <2>1, <2>2, <2>3, NoneIsNoName
  <1> QED
    BY <1>2, <1>3

\* What the checks of the command line leave to a run at work.
LEMMA AcceptedCommand ==
  ASSUME Shaped, Accepted, pc \in Working
  PROVE  /\ ~inv.inPlace \/
              /\ Inputs(inv) # <<>> /\ inv.output = None
              /\ \A i \in DOMAIN Inputs(inv) : ~IsUrl(Inputs(inv)[i])
         /\ IsBatch(inv) /\ ~inv.slurp /\ ~IsRaw(inv) /\ ~inv.inPlace =>
              inv.output # None /\ disk0[At(inv.output)].kind \notin {"file", "torn"}
         /\ IsRaw(inv) => inv.chain = "none" /\ (IsBatch(inv) => inv.urlName)
         /\ ~IsRaw(inv) =>
              /\ inv.chain # "none" /\ ~(IsMultiSlurp(inv) /\ inv.inPlace)
              /\ ~IsBatch(inv) /\ inv.urlName => IsUrl(Source(inv, 1))
  BY DEF Accepted, Refused, Inconsistent, RawRefused, PipelineRefused

\* In place, every input is a file.
LEMMA InPlaceSources ==
  ASSUME Shaped, Accepted, pc \in Working, inv.inPlace, NEW i \in 1 .. Items(inv)
  PROVE  /\ Source(inv, i) \in Local \X Bases /\ Source(inv, i) # None
         /\ ~IsUrl(Source(inv, i))
  <1>1. /\ Inputs(inv) # <<>>
        /\ \A j \in DOMAIN Inputs(inv) : ~IsUrl(Inputs(inv)[j])
    BY AcceptedCommand
  <1>2. i \in DOMAIN Inputs(inv) /\ Source(inv, i) \in Names
    BY <1>1, Sources
  <1>3. ~IsUrl(Source(inv, i))
    BY <1>1, <1>2 DEF Source
  <1> QED
    BY <1>2, <1>3, LocalNames

\* In place, the output of an input is the input.
LEMMA InPlaceOutput ==
  ASSUME Shaped, Accepted, pc \in Working, inv.inPlace, NEW i \in 1 .. Items(inv)
  PROVE  Output(inv, i) = IF IsRaw(inv) THEN None ELSE Source(inv, i)
  <1>1. ~inv.urlName /\ inv.output = None
    BY Command, AcceptedCommand DEF WellFormed
  <1>2. ~IsMultiSlurp(inv)
    BY AcceptedCommand DEF IsMultiSlurp
  <1>3. CASE IsRaw(inv)
    BY <1>1, <1>2, <1>3 DEF Output
  <1>4. CASE ~IsRaw(inv) /\ IsBatch(inv)
    BY <1>2, <1>4 DEF Output
  <1>5. CASE ~IsRaw(inv) /\ ~IsBatch(inv)
    <2>1. Inputs(inv) \in Seq(Names)
      BY Sources
    <2>2. i = 1
      BY <1>5, <2>1 DEF Items, IsBatch
    <2> QED
      BY <1>2, <1>5, <2>2 DEF Output
  <1> QED
    BY <1>3, <1>4, <1>5

\* An output is a file, wherever its name comes from.
LEMMA OutputIsLocal ==
  ASSUME Shaped, Accepted, pc \in Working, NEW i \in 1 .. Items(inv),
         ~(inv.urlName /\ Source(inv, i) = None)
  PROVE  Output(inv, i) \in (Local \X Bases) \cup {None}
  <1>1. inv.output \in (Local \X Bases) \cup {None}
    BY Command DEF WellFormed
  <1>2. Source(inv, i) \in Names \cup {None}
    BY Sources
  <1>3. CASE inv.inPlace
    BY <1>3, InPlaceOutput, InPlaceSources
  <1>4. CASE ~inv.inPlace /\ IsMultiSlurp(inv)
    BY <1>1, <1>4 DEF Output, IsMultiSlurp
  <1>5. CASE ~inv.inPlace /\ ~IsMultiSlurp(inv) /\ (IsRaw(inv) \/ ~IsBatch(inv))
    <2>1. inv.urlName => Source(inv, i) \in Names
      BY <1>2
    <2>2. inv.urlName => InCwd(Source(inv, i)) \in Local \X Bases
      BY <2>1 DEF InCwd, Names, Local
    <2> QED
      BY <1>1, <1>5, <2>2 DEF Output
  <1>6. CASE ~inv.inPlace /\ ~IsMultiSlurp(inv) /\ ~IsRaw(inv) /\ IsBatch(inv)
    <2>1. ~inv.slurp /\ inv.output # None
      BY <1>6, AcceptedCommand DEF IsMultiSlurp
    <2>2. inv.output[2] \in {"d", "out"}
      BY <1>6, <2>1, Command DEF WellFormed
    <2>3. Source(inv, i) \in Names
      <3>1. Inputs(inv) # <<>>
        BY <1>6, Sources DEF IsBatch
      <3> QED
        BY <1>2, <3>1, Sources
    <2>4. Join(inv.output, Source(inv, i)) \in Local \X Bases
      BY <2>2, <2>3 DEF Join, Names, Local
    <2> QED
      BY <1>6, <2>4 DEF Output
  <1> QED
    BY <1>3, <1>4, <1>5, <1>6

\* The directory of a batch: it is not what anything else leads to.
LEMMA BatchDirectory ==
  ASSUME Shaped, Accepted, pc \in Working, Looped, ~IsRaw(inv), inv.output # None
  PROVE  /\ inv.output \in Files /\ At(inv.output) = inv.output /\ ~inv.inPlace
         /\ disk0[inv.output].kind \notin {"file", "torn", "link"}
         /\ \A i \in 1 .. Items(inv) :
              Output(inv, i) # None => Entry(Output(inv, i)) # inv.output
  <1>1. IsBatch(inv) /\ ~inv.slurp /\ ~IsMultiSlurp(inv)
    BY DEF Looped, IsMultiSlurp
  <1>2. /\ inv.output[1] = "." /\ inv.output[2] \in {"d", "out"}
        /\ inv.output \in Local \X Bases
    BY <1>1, Command DEF WellFormed
  <1>3. inv.output \in Files /\ Entry(inv.output) = inv.output
    BY <1>2 DEF Files, Entry, Local
  <1>4. disk0[inv.output].kind # "link"
    BY <1>1, ShapeAssumption DEF Shaped
  <1>5. At(inv.output) = inv.output
    BY <1>3, <1>4 DEF At, NodeIn
  <1>6. ~inv.inPlace
    BY AcceptedCommand
  <1>7. disk0[inv.output].kind \notin {"file", "torn"}
    BY <1>1, <1>5, <1>6, AcceptedCommand
  <1>8. ASSUME NEW i \in 1 .. Items(inv), Output(inv, i) # None
        PROVE  Entry(Output(inv, i)) # inv.output
    <2>1. Output(inv, i) = <<inv.output[2], Source(inv, i)[2]>>
      BY <1>1, <1>6 DEF Output, Join
    <2> QED
      BY <1>2, <2>1 DEF Entry
  <1> QED
    BY <1>3, <1>4, <1>5, <1>6, <1>7, <1>8

\* Where the result of the current input goes.
LEMMA DestIsLocal ==
  ASSUME Shaped, Accepted, HeldFrom, pc \in HasRead
  PROVE  Dest \in (Local \X Bases) \cup {None}
  <1>1. asked.file \in Targets \cup {None}
    BY DEF Shaped
  <1>2. pc \in Working /\ k \in 1 .. Items(inv) /\ ~(inv.urlName /\ Source(inv, k) = None)
    BY DEF Shaped, HeldFrom, HasRead, Here
  <1>3. Output(inv, k) \in (Local \X Bases) \cup {None}
    BY <1>2, OutputIsLocal
  <1> QED
    BY <1>1, <1>3, ShapeAssumption DEF Dest

LEMMA DestNode ==
  ASSUME RunInv, pc \in HasRead, Dest # None
  PROVE  /\ Dest \in Local \X Bases
         /\ Node(Dest) = At(Dest) /\ Node(Dest) \in Files
         /\ disk[Node(Dest)].kind # "link" /\ disk0[Node(Dest)].kind # "link"
         /\ Entry(Dest) \in Files
         /\ disk[Entry(Dest)].kind # "link" => Entry(Dest) = Node(Dest)
  <1>1. Dest \in Local \X Bases
    BY DestIsLocal DEF RunInv
  <1> QED
    BY <1>1, SameNode, AtIsFile, EntryIsFile DEF RunInv, Node, NodeIn

----------------------------------------------------------------------------
\* The log and the results

LEMMA LogGrows ==
  ASSUME Shaped, NEW r, log' = Append(log, r)
  PROVE  /\ Len(log') = Len(log) + 1 /\ DOMAIN log' = DOMAIN log \cup {Len(log')}
         /\ Len(log) \in Nat /\ DOMAIN log = 1 .. Len(log) /\ Len(log') \notin DOMAIN log
         /\ \A j \in DOMAIN log : log'[j] = log[j] /\ j \in Nat /\ j < Len(log')
         /\ log'[Len(log')] = r
  <1>1. Len(log) \in Nat /\ DOMAIN log = 1 .. Len(log)
    BY DEF Shaped
  <1>2. DOMAIN log' = 1 .. Len(log) + 1 /\ Len(log') = Len(log) + 1
    BY <1>1 DEF Shaped
  <1>3. \A j \in DOMAIN log : log'[j] = log[j]
    BY <1>1, <1>2 DEF Shaped
  <1>4. log'[Len(log) + 1] = r
    BY <1>1 DEF Shaped
  <1> QED
    BY <1>1, <1>2, <1>3, <1>4

LEMMA WritesGrow ==
  ASSUME Shaped, NEW r, log' = Append(log, r), NEW e
  PROVE  Writes(e)' = IF r.node = e THEN Writes(e) \cup {Len(log')} ELSE Writes(e)
  BY LogGrows DEF Writes

LEMMA WritesStay ==
  ASSUME log' = log
  PROVE  \A e : Writes(e)' = Writes(e)
  BY DEF Writes

LEMMA ItemsGrow ==
  ASSUME Shaped, NEW r, log' = Append(log, r)
  PROVE  {log'[j].item : j \in DOMAIN log'} = {log[j].item : j \in DOMAIN log} \cup {r.item}
  BY LogGrows

LEMMA NodesOfWrites ==
  ASSUME Shaped
  PROVE  /\ \A j \in DOMAIN log : log[j].node \in Files \cup {None} /\ log[j].what \in What
         /\ None \notin Files
         /\ DOMAIN log = 1 .. Len(log) /\ Len(log) \in Nat
  <1>1. None \notin Files
    BY FilesAreNames
  <1>2. DOMAIN log = 1 .. Len(log) /\ Len(log) \in Nat
    BY DEF Shaped
  <1>3. \A j \in DOMAIN log :
          log[j] \in [item : Nat, node : Files \cup {None}, what : What, raw : BOOLEAN]
    BY <1>2, ElementOfSeq DEF Shaped
  <1> QED
    BY <1>1, <1>2, <1>3

LEMMA ResultType ==
  ASSUME Shaped, held # <<>>
  PROVE  Result \in What /\ Result # <<>> /\ Result[1] = held[1]
  <1>1. held \in What /\ held \in Seq(Names \cup {None, Converted}) /\ Len(held) > 0
    BY DEF Shaped, What
  <1>2. Append(held, Converted) \in What /\ Append(held, Converted) # <<>>
        /\ Append(held, Converted)[1] = held[1]
    BY <1>1 DEF What
  <1> QED
    BY <1>1, <1>2 DEF Result

LEMMA NoPass ==
  ASSUME NEW S, NEW s \in Seq(S)
  PROVE  s \o Passes(0) = s
  <1>1. Passes(0) = <<>>
    BY DEF Passes
  <1> QED
    BY <1>1

LEMMA OnePassMore ==
  ASSUME NEW S, NEW s \in Seq(S), Converted \in S, NEW m \in Nat
  PROVE  Append(s \o Passes(m), Converted) = s \o Passes(m + 1)
  <1>1. /\ Passes(m) \in Seq(S) /\ Len(Passes(m)) = m
        /\ \A j \in 1 .. m : Passes(m)[j] = Converted
    BY DEF Passes
  <1>2. /\ Passes(m + 1) \in Seq(S) /\ Len(Passes(m + 1)) = m + 1
        /\ \A j \in 1 .. m + 1 : Passes(m + 1)[j] = Converted
    BY DEF Passes
  <1>3. Append(s \o Passes(m), Converted) \in Seq(S) /\ s \o Passes(m + 1) \in Seq(S)
    BY <1>1, <1>2
  <1>4. /\ Len(Append(s \o Passes(m), Converted)) = Len(s) + m + 1
        /\ Len(s \o Passes(m + 1)) = Len(s) + m + 1
    BY <1>1, <1>2
  <1>5. ASSUME NEW j \in 1 .. Len(s) + m + 1
        PROVE  Append(s \o Passes(m), Converted)[j] = (s \o Passes(m + 1))[j]
    <2>1. PICK p, t, w : p = Passes(m) /\ t = Passes(m + 1) /\ w = s \o p
      OBVIOUS
    <2>2. /\ p \in Seq(S) /\ Len(p) = m /\ \A i \in 1 .. m : p[i] = Converted
          /\ t \in Seq(S) /\ Len(t) = m + 1 /\ \A i \in 1 .. m + 1 : t[i] = Converted
      BY <1>1, <1>2, <2>1
    <2>3. /\ w \in Seq(S) /\ Len(w) = Len(s) + m
          /\ \A i \in 1 .. Len(s) + m : w[i] = IF i <= Len(s) THEN s[i] ELSE Converted
      BY <2>1, <2>2
    <2>4. Append(w, Converted)[j] = IF j <= Len(s) THEN s[j] ELSE Converted
      BY <2>3
    <2>5. (s \o t)[j] = IF j <= Len(s) THEN s[j] ELSE Converted
      BY <2>2
    <2> QED
      BY <2>1, <2>4, <2>5
  <1> QED
    BY <1>3, <1>4, <1>5, SeqEqual

----------------------------------------------------------------------------
\* The initial states

LEMMA InitRun == Init => RunInv
  <1> SUFFICES ASSUME Init PROVE RunInv
    OBVIOUS
  <1>1. WellFormed(inv) /\ WellFilled(disk0) /\ disk = disk0
    BY ShapeAssumption DEF Init
  <1>2. Items(inv) \in Nat \ {0}
    <2>1. Inputs(inv) \in Seq(Names)
      BY <1>1 DEF WellFormed, Inputs
    <2> QED
      BY <2>1 DEF Items
  <1>3. Shaped
    <2>1. <<>> \in What /\ Absent \in Nodes
      BY DEF What, Absent, Nodes
    <2>2. disk \in [Files -> Nodes]
      BY <1>1 DEF WellFilled
    <2>3. k \in 1 .. Items(inv) /\ pc \in Phases
      BY <1>2 DEF Init, Phases
    <2>4. asked \in [exit : Codes \cup {None}, format : Requests \cup {None},
                     file : Targets \cup {None}]
      BY DEF Init, NothingAsked
    <2>5. log \in Seq([item : Nat, node : Files \cup {None}, what : What, raw : BOOLEAN])
      BY DEF Init
    <2> QED
      BY <1>1, <2>1, <2>2, <2>3, <2>4, <2>5 DEF Init, Shaped
  <1>4. \A e \in Files : disk[e].kind = "file" => disk[e] = File(<<e>>)
    BY <1>1 DEF WellFilled
  <1>5. LinksStay /\ Accepted /\ AskedByMolds /\ StreamsOnly /\ HeldFrom /\ InProgress /\ NewestWhole
    BY <1>1 DEF Init, LinksStay, Accepted, AskedByMolds, StreamsOnly, HeldFrom, InProgress,
                NewestWhole, Working, HasRead, Writing, Streaming, Succeeded
  <1>6. Delivered /\ FromWhatItWas /\ CheckLogsRaw
    BY DEF Init, Delivered, FromWhatItWas, CheckLogsRaw, Working, Writing, Succeeded
  <1>7. Kept /\ Filled
    <2>1. \A e \in Files : File(<<e>>).what # <<>>
      BY DEF File
    <2>2. \A e : Writes(e) = {}
      BY DEF Init, Writes
    <2> QED
      BY <1>1, <1>4, <2>1, <2>2 DEF Filled, Kept, KeptAt
  <1>8. InPlaceHeld
    <2>1. ASSUME NEW e \in Files, disk0[e].kind = "file"
          PROVE  disk[e] = File(disk0[e].what \o Passes(0))
      <3>1. disk0[e] = File(<<e>>) /\ File(<<e>>).what = <<e>>
        BY <1>1, <1>4, <2>1 DEF File
      <3>2. <<e>> \o Passes(0) = <<e>>
        <4>1. <<e>> \in Seq(Files)
          OBVIOUS
        <4> QED
          BY <4>1, NoPass
      <3> QED
        BY <1>1, <3>1, <3>2
    <2>2. 0 \in 0 .. Passed
      BY DEF Init, Passed
    <2> QED
      BY <1>1, <2>1, <2>2 DEF Init, InPlaceHeld, HasRead, Working
  <1> QED
    BY <1>3, <1>5, <1>6, <1>7, <1>8 DEF RunInv

----------------------------------------------------------------------------
\* What a step leaves alone

LEMMA Fixed ==
  ASSUME inv' = inv, disk0' = disk0
  PROVE  /\ Looped' <=> Looped
         /\ \A n : At(n)' = At(n)
         /\ \A i : StreamsToFile(i)' <=> StreamsToFile(i)
         /\ \A e : NamedForOutput(e)' <=> NamedForOutput(e)
  <1>1. \A n : NodeIn(disk0, n)' = NodeIn(disk0, n)
    BY DEF NodeIn
  <1>2. Looped' <=> Looped
    BY DEF Looped
  <1>3. \A n : At(n)' = At(n)
    BY <1>1 DEF At
  <1>4. \A i : StreamsToFile(i)' <=> StreamsToFile(i)
    BY DEF StreamsToFile
  <1>5. \A e : NamedForOutput(e)' <=> NamedForOutput(e)
    BY DEF NamedForOutput
  <1> QED
    BY <1>2, <1>3, <1>4, <1>5

LEMMA FixedItem ==
  ASSUME inv' = inv, disk0' = disk0, k' = k
  PROVE  /\ Here' = Here
         /\ asked' = asked => /\ Dest' = Dest /\ (AsksRaw' <=> AsksRaw)
                              /\ held' = held => Result' = Result
  BY DEF Here, Dest, AsksRaw, Result

LEMMA SameDisk ==
  ASSUME disk' = disk
  PROVE  /\ \A n : Node(n)' = Node(n) /\ (IsDirAt(n)' <=> IsDirAt(n))
         /\ \A a, b : SameFile(a, b)' <=> SameFile(a, b)
         /\ \A n : Contents(n)' = Contents(n) /\ (Opens(n)' <=> Opens(n))
  BY DEF Node, NodeIn, IsDirAt, SameFile, Contents, Opens

LEMMA FixedWrites ==
  ASSUME inv' = inv, disk0' = disk0, disk' = disk, log' = log
  PROVE  /\ \A e : (KeptAt(e)' <=> KeptAt(e)) /\ Writes(e)' = Writes(e)
         /\ \A j : (Whole(j)' <=> Whole(j)) /\ (Newest(j)' <=> Newest(j))
  <1>1. \A e : Writes(e)' = Writes(e)
    BY DEF Writes
  <1>2. \A j : Whole(j)' <=> Whole(j)
    BY DEF Whole
  <1>3. \A j : Newest(j)' <=> Newest(j)
    BY DEF Newest, Writes
  <1>4. \A e : MadeDir(e)' <=> MadeDir(e)
    BY Fixed DEF MadeDir
  <1>5. \A e : KeptAt(e)' <=> KeptAt(e)
    BY <1>1, <1>2, <1>4, Fixed DEF KeptAt
  <1> QED
    BY <1>1, <1>2, <1>3, <1>5

LEMMA FromKept ==
  ASSUME inv' = inv, disk0' = disk0, \A e : Writes(e) # {} => Writes(e)' # {},
         NEW n, NEW what, From(n, what)
  PROVE  From(n, what)'
  BY Fixed DEF From

\* What depends on the disk, the log and the command line alone.
LEMMA KeptByQuietSteps ==
  ASSUME RunInv, inv' = inv, disk0' = disk0, disk' = disk, log' = log
  PROVE  LinksStay' /\ Kept' /\ Filled' /\ FromWhatItWas'
  <1>1. LinksStay'
    BY DEF RunInv, LinksStay
  <1>2. Kept'
    BY FixedWrites DEF RunInv, Kept
  <1>3. Filled'
    BY DEF RunInv, Filled
  <1>4. FromWhatItWas'
    BY FromKept, FixedWrites DEF RunInv, FromWhatItWas
  <1> QED
    BY <1>1, <1>2, <1>3, <1>4

----------------------------------------------------------------------------
\* Steps that stop the run, and do nothing else

LEMMA Stops ==
  ASSUME RunInv, UNCHANGED <<inv, disk, k, held, asked, log, disk0>>,
         pc' \in {"end", "dead"}, temp' = temp \/ temp' = Absent,
         pc' = "end" => /\ temp' = Absent /\ status' # "done"
                        /\ inv.check \/ status' \notin Codes,
         faulty' \in BOOLEAN, faulty \/ pc = "writing" => faulty'
  PROVE  RunInv'
  <1>1. Shaped'
    <2>1. Absent \in Nodes
      BY DEF Absent, Nodes, What
    <2> QED
      BY <2>1 DEF RunInv, Shaped, Phases
  <1>2. LinksStay' /\ Kept' /\ Filled' /\ FromWhatItWas'
    BY KeptByQuietSteps
  <1>3. Accepted' /\ HeldFrom' /\ InProgress'
    BY DEF Accepted, HeldFrom, InProgress, Working, HasRead, Writing
  <1>4. AskedByMolds'
    BY DEF RunInv, AskedByMolds, NothingAsked, Streaming
  <1>5. StreamsOnly'
    BY DEF StreamsOnly, Streaming
  <1>6. Delivered' /\ NewestWhole'
    BY DEF Delivered, NewestWhole, Working, Writing, Succeeded
  <1>7. CheckLogsRaw'
    BY DEF RunInv, CheckLogsRaw
  <1>8. InPlaceHeld'
    <2>1. k \in Nat /\ 0 .. Passed \subseteq 0 .. Passed'
      <3>1. k \in Nat /\ k >= 1
        BY Sources DEF RunInv, Shaped
      <3> QED
        BY <3>1 DEF Passed
    <2>2. ASSUME NEW e \in Files, disk0[e].kind = "file", ~NamedForOutput(e)
          PROVE  /\ ~inv.inPlace => disk[e] = disk0[e]
                 /\ inv.inPlace =>
                      \/ \E m \in 0 .. Passed : disk[e] = File(disk0[e].what \o Passes(m))
                      \/ disk[e] = Torn /\ (pc = "writing" \/ faulty)
      BY <2>2 DEF RunInv, InPlaceHeld
    <2>3. \A m : Passes(m)' = Passes(m)
      BY DEF Passes
    <2> QED
      BY <2>1, <2>2, <2>3, Fixed DEF InPlaceHeld, HasRead, Working
  <1> QED
    BY <1>1, <1>2, <1>3, <1>4, <1>5, <1>6, <1>7, <1>8 DEF RunInv

\* A streamed conversion alone has a temporary.
LEMMA NoTemp ==
  ASSUME RunInv, pc \notin {"fill", "install", "dead"}
  PROVE  temp = Absent
  BY DEF RunInv, StreamsOnly

LEMMA StoppingSteps ==
  ASSUME RunInv,
         Refuse \/ GiveUp \/ DecideCheck \/ WriteFails \/ StreamFails \/ Die
  PROVE  RunInv'
  <1> USE ShapeAssumption
  <1>0. faulty \in BOOLEAN /\ (faulty => pc \in {"end", "dead"})
        /\ asked.exit \in Codes \cup {None}
    BY DEF RunInv, Shaped, InPlaceHeld
  <1>1. CASE Refuse
    BY <1>0, <1>1, NoTemp, Stops DEF Refuse, End
  <1>2. CASE GiveUp
    BY <1>0, <1>2, NoTemp, Stops DEF GiveUp, End
  <1>3. CASE DecideCheck
    <2>1. status' # "done" /\ pc' = "end" /\ pc = "decide" /\ inv.check
      BY <1>0, <1>3 DEF DecideCheck, End
    <2> QED
      BY <1>0, <1>3, <2>1, NoTemp, Stops DEF DecideCheck
  <1>4. CASE WriteFails
    BY <1>0, <1>4, NoTemp, Stops DEF WriteFails, End
  <1>5. CASE StreamFails
    BY <1>0, <1>5, Stops DEF StreamFails, End
  <1>6. CASE Die
    BY <1>0, <1>6, Stops DEF Die
  <1> QED
    BY <1>1, <1>2, <1>3, <1>4, <1>5, <1>6

LEMMA Stutters ==
  ASSUME RunInv, UNCHANGED vars
  PROVE  RunInv'
  <1> USE DEF vars
  <1>1. LinksStay' /\ Kept' /\ Filled' /\ FromWhatItWas'
    BY KeptByQuietSteps
  <1>2. Shaped' /\ Accepted' /\ AskedByMolds' /\ CheckLogsRaw'
    BY DEF RunInv, Shaped, Accepted, AskedByMolds, CheckLogsRaw, Looped, At, NodeIn, AsksRaw
  <1>3. HeldFrom'
    <2>1. Here' = Here
      BY FixedItem
    <2>2. From(Here, held)' <=> From(Here, held)
      BY <2>1, Fixed, FixedWrites DEF From
    <2> QED
      BY <2>1, <2>2 DEF RunInv, HeldFrom
  <1>6. InProgress'
    <2>1. Dest' = Dest /\ Result' = Result /\ (AsksRaw' <=> AsksRaw)
      BY FixedItem
    <2>2. Node(Dest)' = Node(Dest) /\ Entry(Dest)' = Entry(Dest)
      BY <2>1 DEF Node
    <2>3. AsksRaw' = AsksRaw
      BY DEF AsksRaw
    <2> QED
      BY <2>1, <2>2, <2>3 DEF RunInv, InProgress
  <1>7. StreamsOnly'
    BY FixedItem, Fixed DEF RunInv, StreamsOnly
  <1>4. Delivered' /\ NewestWhole'
    BY FixedWrites DEF RunInv, Delivered, NewestWhole, Succeeded
  <1>5. InPlaceHeld'
    BY Fixed, FixedItem DEF RunInv, InPlaceHeld, Passed, Passes
  <1> QED
    BY <1>1, <1>2, <1>3, <1>4, <1>5, <1>6, <1>7 DEF RunInv

----------------------------------------------------------------------------
\* Steps that go on without touching the disk or the log

LEMMA Advances ==
  ASSUME RunInv, UNCHANGED <<inv, disk, log, disk0>>,
         pc \in {"read", "run", "decide"}, pc' \in {"read", "run", "decide", "write", "temp"},
         k' = k \/ IsMultiSlurp(inv)
  PROVE  /\ LinksStay' /\ Kept' /\ Filled' /\ FromWhatItWas'
         /\ Accepted' /\ InProgress' /\ Delivered' /\ NewestWhole'
  <1>1. LinksStay' /\ Kept' /\ Filled' /\ FromWhatItWas'
    BY KeptByQuietSteps
  <1>2. Accepted'
    BY Fixed DEF RunInv, Accepted, Working, Phases
  <1>3. InProgress'
    BY DEF InProgress, Writing
  <1>4. Delivered'
    BY DEF RunInv, Delivered, Working, Writing, Phases, Succeeded
  <1>5. NewestWhole'
    BY FixedWrites DEF RunInv, NewestWhole, Working, Writing, Phases, Succeeded
  <1> QED
    BY <1>1, <1>2, <1>3, <1>4, <1>5

LEMMA HeldFromStays ==
  ASSUME RunInv, UNCHANGED <<inv, k, held, disk0>>, pc \in HasRead,
         \A e : Writes(e) # {} => Writes(e)' # {}
  PROVE  HeldFrom'
  <1>1. Here' = Here
    BY FixedItem
  <1>2. From(Here, held) => From(Here, held)'
    BY <1>1, Fixed DEF From
  <1> QED
    BY <1>1, <1>2 DEF RunInv, HeldFrom, HasRead

LEMMA HeldStays ==
  ASSUME RunInv, UNCHANGED <<inv, disk, k, held, disk0, faulty>>,
         pc \in HasRead \ {"writing"}, pc' \in HasRead,
         \A e : Writes(e) # {} => Writes(e)' # {}
  PROVE  HeldFrom' /\ InPlaceHeld'
  <1>1. Here' = Here
    BY FixedItem
  <1>2. HeldFrom'
    BY HeldFromStays
  <1>3. InPlaceHeld'
    BY <1>1, Fixed DEF RunInv, InPlaceHeld, Passed, Passes, HasRead, Working
  <1> QED
    BY <1>2, <1>3

LEMMA StartStep ==
  ASSUME RunInv, Start
  PROVE  RunInv'
  <1>1. CASE inv.watch
    BY <1>1, NoTemp, Stops, ShapeAssumption DEF RunInv, Shaped, InPlaceHeld, Start, End
  <1>2. CASE ~inv.watch
    <2> USE DEF Start
    <2>1. /\ pc = "start" /\ pc' \in {"mkdir", "read"}
          /\ pc' = "mkdir" => Looped /\ ~IsRaw(inv) /\ inv.output # None
      BY <1>2
    <2>2. /\ disk = disk0 /\ k = 1 /\ log = <<>> /\ asked = NothingAsked /\ temp = Absent
          /\ UNCHANGED <<inv, disk, k, held, asked, temp, log, disk0, faulty>>
      BY <2>1, NoTemp DEF RunInv, Accepted, AskedByMolds
    <2>3. Shaped'
      BY <2>1, <2>2 DEF RunInv, Shaped, Phases
    <2>4. LinksStay' /\ Kept' /\ Filled' /\ FromWhatItWas'
      BY <2>2, KeptByQuietSteps
    <2>5. Accepted'
      <3>1. ~Refused(inv, inv.output # None /\ disk0[At(inv.output)].kind \in {"file", "torn"},
                     inv.output # None /\ disk0[At(inv.output)].kind = "dir")
        BY <2>2 DEF IsOtherAt, IsDirAt, Node, At
      <3> QED
        BY <2>1, <2>2, <3>1, Fixed DEF Accepted
    <2>6. AskedByMolds' /\ StreamsOnly' /\ HeldFrom' /\ InProgress'
      BY <2>1, <2>2 DEF AskedByMolds, StreamsOnly, HeldFrom, InProgress, HasRead, Working,
                        Writing, Streaming
    <2>7. Delivered' /\ NewestWhole' /\ CheckLogsRaw'
      BY <2>1, <2>2 DEF Delivered, NewestWhole, CheckLogsRaw, Working, Writing, Succeeded
    <2>8. InPlaceHeld'
      BY <2>1, <2>2, Fixed DEF RunInv, InPlaceHeld, Passed, Passes, HasRead, Working
    <2> QED
      BY <2>3, <2>4, <2>5, <2>6, <2>7, <2>8 DEF RunInv
  <1> QED
    BY <1>1, <1>2

LEMMA RunMoldsStep ==
  ASSUME RunInv, RunMolds
  PROVE  RunInv'
  <1> USE DEF RunMolds
  <1>1. pc = "run" /\ pc' = "decide" /\ inv.chain = "molds" /\ ~IsRaw(inv)
    BY DEF RunInv, AskedByMolds
  <1>2. /\ LinksStay' /\ Kept' /\ Filled' /\ FromWhatItWas'
        /\ Accepted' /\ InProgress' /\ Delivered' /\ NewestWhole'
    BY <1>1, Advances
  <1>3. Shaped'
    BY <1>1 DEF RunInv, Shaped, Phases
  <1>4. HeldFrom' /\ InPlaceHeld'
    BY <1>1, HeldStays, FixedWrites DEF HasRead, Working, Phases
  <1>5. AskedByMolds'
    BY <1>1 DEF AskedByMolds, Streaming
  <1>6. StreamsOnly'
    BY <1>1, NoTemp DEF StreamsOnly, StreamsToFile, Streaming
  <1>7. CheckLogsRaw'
    BY <1>1 DEF RunInv, CheckLogsRaw
  <1> QED
    BY <1>2, <1>3, <1>4, <1>5, <1>6, <1>7 DEF RunInv

\* DecideRaw and DecideWrite, where they let the result through.
LEMMA LetThrough ==
  ASSUME RunInv, UNCHANGED <<inv, disk, k, held, asked, temp, log, disk0, faulty, status>>,
         pc = "decide", pc' = "write", AsksRaw \/ ~inv.check
  PROVE  RunInv'
  <1>1. /\ LinksStay' /\ Kept' /\ Filled' /\ FromWhatItWas'
        /\ Accepted' /\ InProgress' /\ Delivered' /\ NewestWhole'
    BY Advances
  <1>2. Shaped'
    BY DEF RunInv, Shaped, Phases
  <1>3. HeldFrom' /\ InPlaceHeld'
    BY HeldStays, FixedWrites DEF HasRead, Working, Phases
  <1>4. AskedByMolds'
    BY DEF RunInv, AskedByMolds, Streaming, NothingAsked
  <1>5. StreamsOnly'
    <2>1. ~StreamsToFile(k)
      <3>1. CASE AsksRaw
        <4>1. asked # NothingAsked
          BY <3>1, InvocationAssumption DEF AsksRaw, NothingAsked, Formats
        <4> QED
          BY <4>1 DEF RunInv, AskedByMolds, StreamsToFile
      <3>2. CASE ~inv.check
        BY <3>2 DEF RunInv, StreamsOnly
      <3> QED
        BY <3>1, <3>2
    <2> QED
      BY <2>1, NoTemp, Fixed DEF StreamsOnly, Streaming
  <1>6. CheckLogsRaw'
    BY DEF RunInv, CheckLogsRaw, AsksRaw
  <1> QED
    BY <1>1, <1>2, <1>3, <1>4, <1>5, <1>6 DEF RunInv

LEMMA DecidingSteps ==
  ASSUME RunInv, DecideRaw \/ DecideWrite
  PROVE  RunInv'
  <1>1. faulty \in BOOLEAN /\ ~faulty /\ pc = "decide"
    BY DEF RunInv, Shaped, InPlaceHeld, DecideRaw, DecideWrite
  <1>2. CASE pc' = "write"
    BY <1>1, <1>2, LetThrough DEF DecideRaw, DecideWrite, End
  <1>3. CASE pc' # "write"
    BY <1>1, <1>3, NoTemp, Stops, ShapeAssumption DEF DecideRaw, DecideWrite, End
  <1> QED
    BY <1>2, <1>3

----------------------------------------------------------------------------
\* Reading

LEMMA ContentsRead ==
  ASSUME RunInv, Opens(Here)
  PROVE  /\ Contents(Here) \in What /\ Contents(Here) # <<>>
         /\ From(Here, Contents(Here))
         /\ ~(Here = None \/ IsUrl(Here)) =>
              /\ At(Here) \in Files /\ disk[At(Here)].kind = "file"
              /\ Contents(Here) = disk[At(Here)].what
  <1>1. Here \in Names \cup {None}
    BY Sources DEF RunInv, Shaped, Here
  <1>2. CASE Here = None \/ IsUrl(Here)
    <2>1. Contents(Here) = <<Here>>
      BY <1>2 DEF Contents
    <2> QED
      BY <1>1, <1>2, <2>1 DEF What, From
  <1>3. CASE ~(Here = None \/ IsUrl(Here))
    <2>1. Here \in Local \X Bases
      BY <1>1, <1>3, LocalNames
    <2>2. Node(Here) = At(Here) /\ At(Here) \in Files
      BY <2>1, SameNode, AtIsFile DEF RunInv
    <2>3. disk[At(Here)].kind = "file" /\ Contents(Here) = disk[At(Here)].what
      BY <1>3, <2>2 DEF Opens, Contents
    <2>4. disk[At(Here)].what \in What /\ disk[At(Here)].what # <<>>
      BY <2>2, <2>3 DEF RunInv, Shaped, Nodes, Filled
    <2>5. ASSUME Writes(At(Here)) = {} PROVE disk[At(Here)].what[1] = At(Here)
      <3>1. disk[At(Here)] = disk0[At(Here)]
        BY <2>2, <2>3, <2>5 DEF RunInv, Kept, KeptAt, MadeDir, Dir
      <3>2. disk0[At(Here)] = File(<<At(Here)>>)
        BY <2>2, <2>3, <3>1, Command DEF RunInv, WellFilled
      <3> QED
        BY <3>1, <3>2 DEF File
    <2> QED
      BY <1>3, <2>2, <2>3, <2>4, <2>5 DEF From
  <1> QED
    BY <1>2, <1>3

\* What by its command line streams to a file is not read as a whole.
LEMMA StreamsWhenItMay ==
  ASSUME RunInv, pc = "read", ~inv.check, ~(inv.urlName /\ Here = None), StreamsToFile(k)
  PROVE  Streams /\ StreamFormats(inv, Here, Output(inv, k))[1] # "json"
  <1>1. k \in 1 .. Items(inv) /\ Here = Source(inv, k) /\ pc \in Working
    BY DEF RunInv, Shaped, Here, Working, Phases
  <1>2. Output(inv, k) \in Local \X Bases
    BY <1>1, OutputIsLocal DEF RunInv, StreamsToFile
  <1>3. Entry(Output(inv, k)) \in Files
    BY <1>2, EntryIsFile
  <1>4. /\ disk0[Entry(Output(inv, k))].kind \in {"file", "absent"}
        /\ At(Output(inv, k)) = Entry(Output(inv, k))
    BY DEF StreamsToFile, At, NodeIn
  <1>5. disk[Entry(Output(inv, k))].kind # "link" /\ Node(Output(inv, k)) = Entry(Output(inv, k))
    BY <1>2, <1>3, <1>4, SameNode DEF RunInv
  <1>6. ASSUME Here # None
        PROVE  Here # Output(inv, k) /\ Node(Here) # Node(Output(inv, k))
    <2>1. At(Here) # Entry(Output(inv, k)) /\ ~IsUrl(Here)
      BY <1>1, <1>6 DEF StreamsToFile, At
    <2>2. Here \in Local \X Bases
      BY <1>1, <1>6, <2>1, Sources, LocalNames DEF RunInv
    <2>3. Node(Here) = At(Here)
      BY <2>2, SameNode DEF RunInv
    <2> QED
      BY <1>4, <1>5, <2>1, <2>3
  <1>7. ~SameFile(Here, Output(inv, k))
    BY <1>6 DEF SameFile
  <1>8. /\ StreamFormats(inv, Here, Output(inv, k)) = <<"ndjson", "json">>
        /\ inv.chain = "identity" /\ ~inv.debug /\ ~inv.slurp /\ ~inv.noInput /\ ~IsUrl(Here)
    BY <1>1 DEF StreamsToFile
  <1> QED
    BY <1>5, <1>7, <1>8 DEF Streams, Streamable

LEMMA ReadStep ==
  ASSUME RunInv, Read
  PROVE  RunInv'
  <1>1. /\ pc = "read" /\ pc \in Working /\ pc' \in {"read", "write", "decide", "run"}
        /\ UNCHANGED <<inv, disk, asked, temp, status, log, disk0, faulty>>
        /\ k \in 1 .. Items(inv) /\ Items(inv) \in Nat \ {0} /\ ~(inv.urlName /\ Here = None)
    BY Sources DEF Read, RunInv, Shaped, Working, Phases
  <1>2. /\ pc' = "read" => IsMultiSlurp(inv) /\ k' = k + 1 /\ k < Items(inv)
        /\ pc' # "read" => k' = k /\ (IsMultiSlurp(inv) => k = Items(inv))
        /\ pc' = "write" <=> pc' # "read" /\ IsRaw(inv)
        /\ pc' = "decide" => inv.chain = "identity"
        /\ pc' = "run" => inv.chain # "identity" /\ ~IsRaw(inv)
    <2>1. IsRaw(inv) => inv.chain # "identity"
      BY <1>1, AcceptedCommand DEF RunInv
    <2>2. CASE IsMultiSlurp(inv) /\ k < Items(inv)
      BY <2>2 DEF Read
    <2>3. CASE ~(IsMultiSlurp(inv) /\ k < Items(inv))
      <3>1. IsMultiSlurp(inv) => k = Items(inv)
        BY <1>1, <2>3
      <3> QED
        BY <2>1, <2>3, <3>1 DEF Read
    <2> QED
      BY <2>2, <2>3
  <1>3. Opens(Here) /\ asked = NothingAsked /\ temp = Absent /\ ~faulty
    BY <1>1, NoTemp DEF Read, Readable, RunInv, AskedByMolds, InPlaceHeld
  <1>4. /\ Contents(Here) \in What /\ Contents(Here) # <<>>
        /\ From(Here, Contents(Here))
        /\ ~(Here = None \/ IsUrl(Here)) =>
             /\ At(Here) \in Files /\ disk[At(Here)].kind = "file"
             /\ Contents(Here) = disk[At(Here)].what
    BY <1>3, ContentsRead
  <1>5. held' \in What /\ held' # <<>> /\ (~IsMultiSlurp(inv) => held' = Contents(Here))
    <2>1. CASE IsMultiSlurp(inv)
      <3>1. held \in What /\ held' = held \o Contents(Here)
        BY <1>1, <2>1 DEF Read, RunInv, Shaped
      <3> QED
        BY <1>4, <2>1, <3>1 DEF What
    <2>2. CASE ~IsMultiSlurp(inv)
      BY <1>4, <2>2 DEF Read
    <2> QED
      BY <2>1, <2>2
  <1>6. /\ LinksStay' /\ Kept' /\ Filled' /\ FromWhatItWas'
        /\ Accepted' /\ InProgress' /\ Delivered' /\ NewestWhole'
    <2>1. k' = k \/ IsMultiSlurp(inv)
      BY <1>1, <1>2
    <2> QED
      BY <1>1, <2>1, Advances
  <1>7. Shaped'
    <2>1. k' \in 1 .. Items(inv)
      BY <1>1, <1>2
    <2> QED
      BY <1>1, <1>5, <2>1 DEF RunInv, Shaped, Phases
  <1>8. AskedByMolds'
    <2>1. pc' = "run" => inv.chain = "molds" /\ ~IsRaw(inv)
      BY <1>1, <1>2, Command, AcceptedCommand DEF RunInv, WellFormed
    <2> QED
      BY <1>1, <1>3, <2>1 DEF AskedByMolds, NothingAsked
  <1>9. StreamsOnly'
    <2>1. pc' = "decide" /\ ~inv.check => ~StreamsToFile(k)
      <3>1. Streams => StreamFormats(inv, Here, Output(inv, k))[1] = "json"
        BY DEF Read
      <3> QED
        BY <1>1, <3>1, StreamsWhenItMay
    <2>2. pc' = "write" => ~StreamsToFile(k)
      BY <1>1, <1>2, AcceptedCommand DEF RunInv, StreamsToFile
    <2> QED
      BY <1>1, <1>2, <1>3, <2>1, <2>2, Fixed DEF StreamsOnly, Streaming
  <1>10. HeldFrom'
    <2>1. CASE pc' = "read"
      BY <2>1 DEF HeldFrom, HasRead
    <2>2. CASE pc' # "read"
      <3>1. Here' = Here /\ k' = k
        BY <1>1, <1>2, <2>2, FixedItem
      <3>2. ~IsMultiSlurp(inv) => From(Here, held)'
        BY <1>1, <1>4, <1>5, <3>1, Fixed, WritesStay DEF From
      <3> QED
        BY <1>1, <1>2, <1>5, <2>2, <3>1, <3>2 DEF HeldFrom
    <2> QED
      BY <2>1, <2>2
  <1>11. InPlaceHeld'
    <2>1. Passed = k - 1 /\ 0 .. Passed \subseteq 0 .. Passed'
      BY <1>1, <1>2 DEF Passed
    <2>2. ASSUME NEW e \in Files, disk0[e].kind = "file", ~NamedForOutput(e)
          PROVE  /\ ~inv.inPlace => disk[e] = disk0[e]
                 /\ inv.inPlace =>
                      \/ \E m \in 0 .. Passed : disk[e] = File(disk0[e].what \o Passes(m))
                      \/ disk[e] = Torn /\ (pc = "writing" \/ faulty)
      BY <2>2 DEF RunInv, InPlaceHeld
    <2>3. ASSUME NEW e \in Files, disk0[e].kind = "file", ~NamedForOutput(e),
                 inv.inPlace, pc' # "read", ~IsRaw(inv), At(Here) = e
          PROVE  \E m \in 0 .. k - 1 : held' = disk0[e].what \o Passes(m)
      <3>1. ~IsMultiSlurp(inv)
        BY <1>1, <2>3, AcceptedCommand DEF RunInv
      <3>2. ~(Here = None \/ IsUrl(Here))
        BY <1>1, <2>3, InPlaceSources DEF RunInv, Here
      <3>3. held' = disk[e].what /\ disk[e].kind = "file"
        BY <1>4, <1>5, <2>3, <3>1, <3>2
      <3>4. disk[e] # Torn
        BY <3>3 DEF Torn
      <3>5. PICK m \in 0 .. k - 1 : disk[e] = File(disk0[e].what \o Passes(m))
        BY <2>1, <2>2, <2>3, <3>4
      <3>6. held' = disk0[e].what \o Passes(m)
        BY <3>3, <3>5 DEF File
      <3> QED
        BY <3>6
    <2>4. pc' # "read" => Here' = Here /\ k' = k
      BY <1>1, <1>2, FixedItem
    <2>5. pc' \notin HasRead \/ pc' # "read"
      BY DEF HasRead
    <2>6. \A m : Passes(m)' = Passes(m)
      BY DEF Passes
    <2> QED
      BY <1>1, <1>3, <2>1, <2>2, <2>3, <2>4, <2>5, <2>6, Fixed DEF InPlaceHeld
  <1>12. CheckLogsRaw'
    BY <1>1, <1>2 DEF RunInv, CheckLogsRaw
  <1> QED
    BY <1>6, <1>7, <1>8, <1>9, <1>10, <1>11, <1>12 DEF RunInv

LEMMA OpenStreamStep ==
  ASSUME RunInv, OpenStream
  PROVE  RunInv'
  <1> USE DEF OpenStream
  <1>1. /\ pc = "read" /\ pc \in Working /\ pc' \in {"write", "temp"}
        /\ pc' = "write" => Output(inv, k) = None
        /\ pc' = "temp" => Output(inv, k) # None
        /\ UNCHANGED <<inv, disk, k, asked, temp, status, log, disk0, faulty>>
        /\ k \in 1 .. Items(inv) /\ held' = Contents(Here)
    BY DEF RunInv, Shaped, Working, Phases
  <1>2. /\ inv.chain = "identity" /\ ~inv.check /\ ~inv.slurp /\ ~IsUrl(Here)
        /\ ~SameFile(Here, Output(inv, k))
        /\ Output(inv, k) # None => disk[Entry(Output(inv, k))].kind # "link"
    BY DEF Streams
  <1>3. Opens(Here) /\ asked = NothingAsked /\ temp = Absent /\ ~faulty
    BY <1>1, NoTemp DEF Readable, RunInv, AskedByMolds, InPlaceHeld
  <1>4. ~IsRaw(inv) /\ ~IsMultiSlurp(inv)
    BY <1>1, <1>2, AcceptedCommand DEF RunInv, IsMultiSlurp
  <1>5. ~inv.inPlace
    <2> SUFFICES ASSUME inv.inPlace PROVE FALSE
      OBVIOUS
    <2>1. Output(inv, k) = Here /\ Here # None
      BY <1>1, <1>4, InPlaceOutput, InPlaceSources DEF RunInv, Here
    <2> QED
      BY <1>2, <2>1 DEF SameFile
  <1>6. ~(inv.urlName /\ Here = None)
    <2> SUFFICES ASSUME inv.urlName, Here = None PROVE FALSE
      OBVIOUS
    <2>1. Inputs(inv) = <<>>
      BY <1>1, Sources DEF RunInv, Here
    <2>2. ~IsBatch(inv) /\ Source(inv, 1) = None
      BY <2>1 DEF IsBatch, Source
    <2> QED
      BY <1>1, <1>4, <2>2, AcceptedCommand DEF RunInv, IsUrl
  <1>7. /\ LinksStay' /\ Kept' /\ Filled' /\ FromWhatItWas'
        /\ Accepted' /\ InProgress' /\ Delivered' /\ NewestWhole'
    BY <1>1, Advances
  <1>8. /\ Contents(Here) \in What /\ Contents(Here) # <<>>
        /\ From(Here, Contents(Here))
    BY <1>3, ContentsRead
  <1>9. Shaped'
    BY <1>1, <1>8 DEF RunInv, Shaped, Phases
  <1>10. AskedByMolds'
    BY <1>1, <1>3 DEF AskedByMolds, NothingAsked
  <1>11. StreamsOnly'
    <2>1. Dest = Output(inv, k) /\ Dest' = Dest
      BY <1>1, <1>3, FixedItem DEF Dest, NothingAsked
    <2>2. pc' = "write" => ~StreamsToFile(k)
      BY <1>1 DEF StreamsToFile
    <2> QED
      BY <1>1, <1>2, <1>3, <1>4, <1>5, <2>1, <2>2, Fixed DEF StreamsOnly, Streaming
  <1>12. HeldFrom'
    <2>1. Here' = Here
      BY <1>1, FixedItem
    <2>2. From(Here, held)'
      BY <1>1, <1>8, <2>1, Fixed, WritesStay DEF From
    <2> QED
      BY <1>1, <1>4, <1>6, <1>8, <2>1, <2>2 DEF HeldFrom
  <1>13. InPlaceHeld'
    BY <1>1, <1>3, <1>5, Fixed DEF RunInv, InPlaceHeld
  <1>14. CheckLogsRaw'
    BY <1>1, <1>2 DEF CheckLogsRaw
  <1> QED
    BY <1>7, <1>9, <1>10, <1>11, <1>12, <1>13, <1>14 DEF RunInv

----------------------------------------------------------------------------
\* Writing: what becomes of the disk and of the log

LEMMA NodeTypes ==
  ASSUME RunInv
  PROVE  /\ Torn \in Nodes /\ Dir \in Nodes /\ Absent \in Nodes
         /\ Torn.kind = "torn" /\ Dir.kind = "dir"
         /\ held # <<>> => /\ File(Result) \in Nodes /\ File(Result).kind = "file"
                           /\ File(Result).what = Result
  <1>1. Torn \in Nodes /\ Dir \in Nodes /\ Absent \in Nodes
    BY DEF Torn, Dir, Absent, Nodes, What
  <1>2. held # <<>> => Result \in What
    BY ResultType DEF RunInv
  <1>3. held # <<>> => File(Result) \in Nodes
    BY <1>2 DEF File, Nodes
  <1> QED
    BY <1>1, <1>3 DEF Torn, Dir, File

LEMMA DiskWritten ==
  ASSUME RunInv, NEW e \in Files, NEW w \in Nodes, disk' = [disk EXCEPT ![e] = w],
         disk0' = disk0, disk[e].kind # "link", w.kind # "link"
  PROVE  /\ disk' \in [Files -> Nodes] /\ disk'[e] = w
         /\ \A x \in Files : x # e => disk'[x] = disk[x]
         /\ LinksStay'
         /\ (w.kind = "file" => w.what # <<>>) => Filled'
         /\ \A n \in Local \X Bases : Node(n)' = Node(n)
  <1>1. /\ disk' \in [Files -> Nodes] /\ disk'[e] = w
        /\ \A x \in Files : x # e => disk'[x] = disk[x]
    BY DEF RunInv, Shaped
  <1>2. LinksStay'
    BY <1>1 DEF RunInv, LinksStay
  <1>3. (w.kind = "file" => w.what # <<>>) => Filled'
    BY <1>1 DEF RunInv, Filled
  <1>4. ASSUME NEW n \in Local \X Bases
        PROVE  NodeIn(disk', n) = NodeIn(disk, n)
    <2>1. Entry(n) \in Files
      BY EntryIsFile
    <2> QED
      BY <1>1, <2>1 DEF NodeIn
  <1> QED
    BY <1>1, <1>2, <1>3, <1>4 DEF Node

\* What the log records of a write.
LEMMA LogWritten ==
  ASSUME RunInv, pc \in HasRead, inv' = inv, disk0' = disk0, NEW n \in Files \cup {None},
         log' = Begun(n)
  PROVE  /\ log' \in Seq([item : Nat, node : Files \cup {None}, what : What, raw : BOOLEAN])
         /\ Len(log') = Len(log) + 1 /\ DOMAIN log' = DOMAIN log \cup {Len(log')}
         /\ Len(log) \in Nat /\ DOMAIN log = 1 .. Len(log) /\ Len(log') \notin DOMAIN log
         /\ \A j \in DOMAIN log : log'[j] = log[j] /\ j \in Nat /\ j < Len(log')
         /\ log'[Len(log')] = [item |-> k, node |-> n, what |-> Result, raw |-> AsksRaw]
         /\ \A e : Writes(e)' = IF n = e THEN Writes(e) \cup {Len(log')} ELSE Writes(e)
         /\ {log'[j].item : j \in DOMAIN log'} = {log[j].item : j \in DOMAIN log} \cup {k}
         /\ FromWhatItWas'
  <1>1. PICK r : r = [item |-> k, node |-> n, what |-> Result, raw |-> AsksRaw]
    OBVIOUS
  <1>2. log' = Append(log, r) /\ r.item = k /\ r.node = n /\ r.what = Result
    BY <1>1 DEF Begun
  <1>3. r \in [item : Nat, node : Files \cup {None}, what : What, raw : BOOLEAN]
    <2>1. Result \in What /\ k \in Nat /\ AsksRaw \in BOOLEAN
      BY ResultType, Sources DEF RunInv, Shaped, HeldFrom, AsksRaw
    <2> QED
      BY <1>1, <2>1
  <1>4. log' \in Seq([item : Nat, node : Files \cup {None}, what : What, raw : BOOLEAN])
    BY <1>2, <1>3 DEF RunInv, Shaped
  <1>5. /\ Len(log') = Len(log) + 1 /\ DOMAIN log' = DOMAIN log \cup {Len(log')}
        /\ Len(log) \in Nat /\ DOMAIN log = 1 .. Len(log) /\ Len(log') \notin DOMAIN log
        /\ \A j \in DOMAIN log : log'[j] = log[j] /\ j \in Nat /\ j < Len(log')
        /\ log'[Len(log')] = r
    BY <1>2, LogGrows DEF RunInv
  <1>6. \A e : Writes(e)' = IF n = e THEN Writes(e) \cup {Len(log')} ELSE Writes(e)
    BY <1>2, WritesGrow DEF RunInv
  <1>7. {log'[j].item : j \in DOMAIN log'} = {log[j].item : j \in DOMAIN log} \cup {k}
    BY <1>2, ItemsGrow DEF RunInv
  <1>8. FromWhatItWas'
    <2>1. \A x : Writes(x) # {} => Writes(x)' # {}
      BY <1>6
    <2>2. \A x, w : From(x, w) => From(x, w)'
      BY <2>1, FromKept
    <2>3. ASSUME NEW j \in DOMAIN log'
          PROVE  /\ ~IsMultiSlurp(inv) => From(Source(inv, log[j].item), log[j].what)'
                 /\ log'[j].item \in 1 .. Items(inv)
      <3>1. PICK s, w : s = Source(inv, log'[j].item) /\ w = log'[j].what
        OBVIOUS
      <3>2. (~IsMultiSlurp(inv) => From(s, w)) /\ log'[j].item \in 1 .. Items(inv)
        <4>1. CASE j \in DOMAIN log
          <5>1. log'[j] = log[j]
            BY <1>5, <4>1
          <5> QED
            BY <3>1, <4>1, <5>1 DEF RunInv, FromWhatItWas
        <4>2. CASE j = Len(log')
          <5>1. log'[j].item = k /\ s = Here /\ w = Result
            BY <1>2, <1>5, <3>1, <4>2 DEF Here
          <5>2. Result[1] = held[1] /\ k \in 1 .. Items(inv)
            BY ResultType DEF RunInv, HeldFrom, Shaped
          <5>3. ~IsMultiSlurp(inv) => From(Here, held)
            BY DEF RunInv, HeldFrom
          <5>4. ~IsMultiSlurp(inv) => From(Here, Result)
            BY <5>2, <5>3 DEF From
          <5> QED
            BY <5>1, <5>2, <5>4
        <4> QED
          BY <1>5, <4>1, <4>2
      <3>3. ~IsMultiSlurp(inv) => From(s, w)'
        BY <2>2, <3>2
      <3> QED
        BY <3>1, <3>2, <3>3 DEF From
    <2> QED
      BY <2>3 DEF FromWhatItWas
  <1> QED
    BY <1>1, <1>4, <1>5, <1>6, <1>7, <1>8

\* A write newer than another of the same file.
LEMMA NewestGrows ==
  ASSUME RunInv, pc \in HasRead, inv' = inv, disk0' = disk0, NEW n \in Files \cup {None},
         log' = Begun(n), NEW j \in DOMAIN log, Newest(j)'
  PROVE  Newest(j) /\ log[j].node # n
  <1>1. /\ log'[j] = log[j] /\ j \in Nat /\ j < Len(log') /\ Len(log') \in Nat
        /\ \A e : Writes(e)' = IF n = e THEN Writes(e) \cup {Len(log')} ELSE Writes(e)
    <2>1. Len(log) \in Nat /\ Len(log') = Len(log) + 1
      BY LogWritten
    <2>2. Len(log') \in Nat
      BY <2>1
    <2> QED
      BY <2>2, LogWritten
  <1>2. PICK e : e = log[j].node
    OBVIOUS
  <1>3. \A i \in Writes(e)' : i <= j
    BY <1>1, <1>2 DEF Newest, Writes
  <1>4. Newest(j)
    BY <1>1, <1>2, <1>3 DEF Newest
  <1>5. n # e
    BY <1>1, <1>3
  <1> QED
    BY <1>2, <1>4, <1>5

\* A file that the step does not touch.
LEMMA KeptElsewhere ==
  ASSUME RunInv, inv' = inv, disk0' = disk0, NEW e \in Files, disk'[e] = disk[e],
         Writes(e)' = Writes(e), \A i \in Writes(e) : log'[i] = log[i]
  PROVE  KeptAt(e)'
  <1>1. KeptAt(e)
    BY DEF RunInv, Kept
  <1>2. MadeDir(e)' <=> MadeDir(e)
    BY Fixed DEF MadeDir
  <1>3. \A i \in Writes(e) : Whole(i)' <=> Whole(i)
    BY DEF Whole, Writes
  <1> QED
    BY <1>1, <1>2, <1>3, Fixed DEF KeptAt

\* A write to a file that nothing names for output is one in place.
LEMMA NotNamed ==
  ASSUME RunInv, pc \in HasRead, Dest # None, NEW e \in Files, ~NamedForOutput(e), At(Dest) = e
  PROVE  inv.inPlace /\ ~IsRaw(inv) /\ Here # None /\ At(Here) = e
  <1>1. k \in 1 .. Items(inv) /\ asked.file \in Targets \cup {None} /\ pc \in Working
    BY DEF RunInv, Shaped, HasRead
  <1>2. asked.file = None
    <2> SUFFICES ASSUME asked.file # None PROVE FALSE
      OBVIOUS
    <2>1. Dest = asked.file /\ Dest \in Targets
      BY <1>1 DEF Dest
    <2>2. inv.chain = "molds"
      BY DEF RunInv, AskedByMolds, NothingAsked
    <2> QED
      BY <2>1, <2>2 DEF NamedForOutput, At
  <1>3. Dest = Output(inv, k)
    BY <1>2 DEF Dest
  <1>4. inv.inPlace
    BY <1>1, <1>3 DEF NamedForOutput, At
  <1>5. Dest = IF IsRaw(inv) THEN None ELSE Here
    BY <1>1, <1>3, <1>4, InPlaceOutput DEF RunInv, Here
  <1> QED
    BY <1>4, <1>5

----------------------------------------------------------------------------
\* Writing, step by step

LEMMA MakeDirStep ==
  ASSUME RunInv, MakeDir
  PROVE  RunInv'
  <1>1. /\ pc = "mkdir" /\ pc' = "read" /\ pc \in Working
        /\ UNCHANGED <<inv, k, held, asked, temp, status, log, disk0, faulty>>
        /\ disk' = [disk EXCEPT ![Node(inv.output)] = Dir]
    BY DEF MakeDir, Working, Phases
  <1>2. /\ Looped /\ ~IsRaw(inv) /\ inv.output # None /\ log = <<>> /\ disk = disk0
        /\ asked = NothingAsked /\ temp = Absent
    BY <1>1, NoTemp DEF RunInv, Accepted, AskedByMolds
  <1>3. /\ inv.output \in Files /\ At(inv.output) = inv.output
        /\ disk0[inv.output].kind \notin {"file", "torn", "link"}
    BY <1>1, <1>2, BatchDirectory DEF RunInv
  <1>4. Node(inv.output) = inv.output
    BY <1>2, <1>3 DEF Node, At
  <1>5. /\ disk' \in [Files -> Nodes] /\ disk'[inv.output] = Dir
        /\ \A x \in Files : x # inv.output => disk'[x] = disk[x]
        /\ LinksStay' /\ Filled'
    <2>1. Dir \in Nodes /\ Dir.kind = "dir" /\ disk[inv.output].kind # "link"
      BY <1>2, <1>3, NodeTypes
    <2> QED
      BY <1>1, <1>3, <1>4, <2>1, DiskWritten
  <1>6. Shaped'
    BY <1>1, <1>5 DEF RunInv, Shaped, Phases
  <1>7. Accepted' /\ AskedByMolds' /\ StreamsOnly'
    BY <1>1, <1>2, Fixed DEF RunInv, Accepted, AskedByMolds, StreamsOnly, Streaming
  <1>8. HeldFrom' /\ InProgress' /\ FromWhatItWas' /\ CheckLogsRaw'
    BY <1>1, <1>2 DEF HeldFrom, InProgress, FromWhatItWas, CheckLogsRaw, HasRead, Writing
  <1>9. Delivered' /\ NewestWhole'
    <2>1. DOMAIN log = {}
      BY <1>2
    <2>2. {log[j].item : j \in DOMAIN log} = IF IsMultiSlurp(inv) THEN {} ELSE 1 .. k - 1
      BY <1>1 DEF RunInv, Delivered, Working, Writing, Phases
    <2>3. Delivered'
      BY <1>1, <2>2 DEF Delivered, Writing, Succeeded
    <2> QED
      BY <1>1, <2>1, <2>3 DEF NewestWhole
  <1>10. Kept'
    <2>1. \A e : Writes(e)' = {}
      BY <1>1, <1>2 DEF Writes
    <2>2. ASSUME NEW e \in Files PROVE KeptAt(e)'
      <3>1. disk'[e] = disk0[e] \/ MadeDir(e)'
        BY <1>1, <1>2, <1>3, <1>5, Fixed DEF MadeDir
      <3> QED
        BY <1>1, <2>1, <3>1 DEF KeptAt
    <2> QED
      BY <2>2 DEF Kept
  <1>11. InPlaceHeld'
    <2>1. \A e \in Files : disk0[e].kind = "file" => disk'[e] = disk[e]
      BY <1>3, <1>5
    <2>2. Passed' = Passed
      BY <1>1 DEF Passed
    <2>3. \A m : Passes(m)' = Passes(m)
      BY DEF Passes
    <2> QED
      BY <1>1, <2>1, <2>2, <2>3, Fixed DEF RunInv, InPlaceHeld, HasRead
  <1> QED
    BY <1>5, <1>6, <1>7, <1>8, <1>9, <1>10, <1>11 DEF RunInv

\* A write that is begun: Truncate, and MakeTemp.
LEMMA BeginsWrite ==
  ASSUME RunInv, pc \in {"write", "temp"}, Dest # None, NEW e \in Files, log' = Begun(e),
         e = IF pc = "write" THEN Node(Dest) ELSE Entry(Dest),
         UNCHANGED <<inv, k, held, asked, status, disk0, faulty>>,
         pc' = IF pc = "write" THEN "writing" ELSE "fill",
         \A x \in Files : x # e => disk'[x] = disk[x],
         pc = "temp" => disk' = disk, Node(Dest)' = Node(Dest),
         pc = "write" => disk'[e] = Torn
  PROVE  /\ Accepted' /\ AskedByMolds' /\ HeldFrom' /\ InProgress' /\ Delivered'
         /\ NewestWhole' /\ CheckLogsRaw'
  <1>1. pc \in HasRead /\ pc' \in Writing /\ pc \in Working \ Writing
    BY DEF HasRead, Working, Phases, Writing
  <1>2. /\ Len(log') = Len(log) + 1 /\ DOMAIN log' = DOMAIN log \cup {Len(log')}
        /\ Len(log) \in Nat /\ \A j \in DOMAIN log : log'[j] = log[j]
        /\ log'[Len(log')] = [item |-> k, node |-> e, what |-> Result, raw |-> AsksRaw]
        /\ \A x : Writes(x)' = IF e = x THEN Writes(x) \cup {Len(log')} ELSE Writes(x)
        /\ {log'[j].item : j \in DOMAIN log'} = {log[j].item : j \in DOMAIN log} \cup {k}
    BY <1>1, LogWritten
  <1>3. Dest' = Dest /\ Result' = Result /\ AsksRaw' = AsksRaw /\ Here' = Here
    BY FixedItem DEF AsksRaw
  <1>4. Accepted'
    BY <1>1, Fixed DEF RunInv, Accepted, Working, Phases
  <1>5. AskedByMolds'
    BY DEF RunInv, AskedByMolds, NothingAsked, Streaming
  <1>6. HeldFrom'
    BY <1>1, <1>2, HeldFromStays
  <1>7. InProgress'
    <2>1. log' # <<>>
      BY <1>2
    <2>2. Node(Dest)' = Node(Dest) /\ Entry(Dest)' = Entry(Dest)
      BY <1>3
    <2> QED
      BY <1>2, <1>3, <2>1, <2>2 DEF InProgress
  <1>8. Delivered'
    <2>1. {log[j].item : j \in DOMAIN log} = IF IsMultiSlurp(inv) THEN {} ELSE 1 .. k - 1
      BY <1>1 DEF RunInv, Delivered
    <2>2. k \in Nat /\ k >= 1
      BY Sources DEF RunInv, Shaped
    <2>3. (1 .. k - 1) \cup {k} = 1 .. k
      BY <2>2
    <2>4. {log'[j].item : j \in DOMAIN log'} = IF IsMultiSlurp(inv) THEN {k} ELSE 1 .. k
      BY <1>2, <2>1, <2>3
    <2> QED
      BY <1>1, <2>4 DEF Delivered, Writing
  <1>9. NewestWhole'
    <2>1. ASSUME NEW j \in DOMAIN log, log[j].node # None, Newest(j)'
          PROVE  Whole(j)'
      <3>1. Newest(j) /\ log[j].node # e
        BY <1>1, <2>1, NewestGrows
      <3>2. Whole(j)
        BY <1>1, <2>1, <3>1 DEF RunInv, NewestWhole
      <3>3. log[j].node \in Files
        BY <2>1, NodesOfWrites DEF RunInv
      <3> QED
        BY <1>2, <3>1, <3>2, <3>3 DEF Whole
    <2> QED
      BY <1>1, <1>2, <2>1 DEF NewestWhole
  <1>10. CheckLogsRaw'
    <2>1. inv.check /\ ~IsRaw(inv) => AsksRaw
      BY <1>1 DEF RunInv, CheckLogsRaw, StreamsOnly, Streaming
    <2> QED
      BY <1>2, <1>3, <2>1 DEF RunInv, CheckLogsRaw
  <1> QED
    BY <1>4, <1>5, <1>6, <1>7, <1>8, <1>9, <1>10

LEMMA TruncateStep ==
  ASSUME RunInv, Truncate
  PROVE  RunInv'
  <1>1. /\ pc = "write" /\ pc' = "writing" /\ pc \in HasRead /\ pc \in Working
        /\ Dest # None /\ ~IsDirAt(Dest)
        /\ UNCHANGED <<inv, k, held, asked, temp, status, disk0, faulty>>
        /\ disk' = [disk EXCEPT ![Node(Dest)] = Torn] /\ log' = Begun(Node(Dest))
    BY DEF Truncate, HasRead, Working, Phases
  <1>2. PICK e : e = Node(Dest)
    OBVIOUS
  <1>3. /\ Dest \in Local \X Bases /\ e = At(Dest) /\ e \in Files
        /\ disk[e].kind # "link" /\ temp = Absent
    BY <1>1, <1>2, DestNode, NoTemp
  <1>4. /\ disk' \in [Files -> Nodes] /\ disk'[e] = Torn
        /\ \A x \in Files : x # e => disk'[x] = disk[x]
        /\ LinksStay' /\ Filled' /\ \A n \in Local \X Bases : Node(n)' = Node(n)
    <2>1. Torn \in Nodes /\ Torn.kind = "torn"
      BY NodeTypes
    <2> QED
      BY <1>1, <1>2, <1>3, <2>1, DiskWritten
  <1>5. Dest' = Dest
    BY <1>1, FixedItem
  <1>6. Node(Dest)' = Node(Dest)
    BY <1>3, <1>4, <1>5 DEF Node
  <1>7. /\ Accepted' /\ AskedByMolds' /\ HeldFrom' /\ InProgress' /\ Delivered'
        /\ NewestWhole' /\ CheckLogsRaw'
    BY <1>1, <1>2, <1>3, <1>4, <1>6, BeginsWrite
  <1>8. /\ log' \in Seq([item : Nat, node : Files \cup {None}, what : What, raw : BOOLEAN])
        /\ \A j \in DOMAIN log : log'[j] = log[j]
        /\ log'[Len(log')].item = k /\ FromWhatItWas'
        /\ \A x : Writes(x)' = IF e = x THEN Writes(x) \cup {Len(log')} ELSE Writes(x)
    <2>1. log'[Len(log')] = [item |-> k, node |-> e, what |-> Result, raw |-> AsksRaw]
      BY <1>1, <1>2, <1>3, LogWritten
    <2>2. log' = Begun(e)
      BY <1>1, <1>2
    <2>3. log'[Len(log')].item = k
      BY <2>1
    <2> QED
      BY <1>1, <1>3, <2>2, <2>3, LogWritten, ZenonT(30)
  <1>9. Shaped'
    BY <1>1, <1>4, <1>8 DEF RunInv, Shaped, Phases
  <1>10. ~StreamsToFile(k)
    BY <1>1 DEF RunInv, StreamsOnly
  <1>11. StreamsOnly'
    BY <1>1, <1>3, <1>10, Fixed DEF StreamsOnly, Streaming
  <1>12. Kept'
    <2>1. KeptAt(e)'
      <3>1. PICK i : i = Len(log')
        OBVIOUS
      <3>2. i \in Writes(e)' /\ log'[i].item = k
        BY <1>8, <3>1
      <3>3. ~StreamsToFile(log[i].item)'
        BY <1>1, <1>10, <3>2 DEF StreamsToFile
      <3> QED
        BY <3>2, <3>3 DEF KeptAt
    <2>2. ASSUME NEW x \in Files, x # e PROVE KeptAt(x)'
      <3>1. \A i \in Writes(x) : log'[i] = log[i]
        BY <1>8 DEF Writes
      <3> QED
        BY <1>1, <1>4, <1>8, <2>2, <3>1, KeptElsewhere
    <2> QED
      BY <2>1, <2>2 DEF Kept
  <1>13. InPlaceHeld'
    <2>1. Passed' = Passed /\ Here' = Here /\ Dest' = Dest
      BY <1>1, FixedItem DEF Passed
    <2>2. \A m : Passes(m)' = Passes(m)
      BY DEF Passes
    <2>3. ASSUME NEW x \in Files, disk0[x].kind = "file", ~NamedForOutput(x)
          PROVE  \/ disk'[x] = disk[x]
                 \/ inv.inPlace /\ disk'[x] = Torn /\ At(Dest) = x
      <3>1. x = e => inv.inPlace /\ At(Dest) = x
        BY <1>1, <1>3, <2>3, NotNamed
      <3> QED
        BY <1>4, <3>1
    <2> QED
      BY <1>1, <2>1, <2>2, <2>3, Fixed DEF RunInv, InPlaceHeld, HasRead
  <1> QED
    BY <1>4, <1>7, <1>8, <1>9, <1>11, <1>12, <1>13 DEF RunInv

LEMMA MakeTempStep ==
  ASSUME RunInv, MakeTemp
  PROVE  RunInv'
  <1>1. /\ pc = "temp" /\ pc' = "fill" /\ pc \in HasRead /\ pc \in Working /\ temp' = Torn
        /\ UNCHANGED <<inv, disk, k, held, asked, status, disk0, faulty>>
        /\ log' = Begun(Entry(Dest))
    BY DEF MakeTemp, HasRead, Working, Phases
  <1>2. /\ inv.chain = "identity" /\ ~inv.check /\ ~inv.inPlace /\ ~IsMultiSlurp(inv)
        /\ Dest # None /\ disk[Entry(Dest)].kind # "link" /\ asked = NothingAsked
    BY <1>1 DEF RunInv, StreamsOnly, AskedByMolds, Streaming
  <1>3. PICK e : e = Entry(Dest)
    OBVIOUS
  <1>4. e \in Files /\ Dest \in Local \X Bases
    BY <1>1, <1>2, <1>3, DestNode
  <1>5. Dest' = Dest /\ Node(Dest)' = Node(Dest)
    BY <1>1, FixedItem DEF Node
  <1>6. /\ Accepted' /\ AskedByMolds' /\ HeldFrom' /\ InProgress' /\ Delivered'
        /\ NewestWhole' /\ CheckLogsRaw'
    BY <1>1, <1>2, <1>3, <1>4, <1>5, BeginsWrite
  <1>7. /\ log' \in Seq([item : Nat, node : Files \cup {None}, what : What, raw : BOOLEAN])
        /\ \A j \in DOMAIN log : log'[j] = log[j]
        /\ FromWhatItWas'
        /\ \A x : Writes(x)' = IF e = x THEN Writes(x) \cup {Len(log')} ELSE Writes(x)
    BY <1>1, <1>3, <1>4, LogWritten
  <1>8. Shaped'
    <2>1. Torn \in Nodes
      BY NodeTypes
    <2> QED
      BY <1>1, <1>7, <2>1 DEF RunInv, Shaped, Phases
  <1>9. LinksStay' /\ Filled'
    BY <1>1 DEF RunInv, LinksStay, Filled
  <1>10. StreamsOnly'
    BY <1>1, <1>2, <1>5, Fixed DEF StreamsOnly, Streaming
  <1>11. Kept'
    <2>1. KeptAt(e)'
      <3>1. ~MadeDir(e)
        <4>1. k \in 1 .. Items(inv) /\ Dest = Output(inv, k)
          BY <1>2 DEF RunInv, Shaped, Dest, NothingAsked
        <4> QED
          BY <1>1, <1>2, <1>3, <4>1, BatchDirectory DEF RunInv, MadeDir
      <3>2. KeptAt(e)
        BY <1>4 DEF RunInv, Kept
      <3>3. Writes(e)' # {} /\ Writes(e) \subseteq Writes(e)'
        BY <1>7
      <3>4. \A i \in Writes(e) : (Whole(i)' <=> Whole(i)) /\ log'[i] = log[i]
        BY <1>1, <1>7 DEF Whole, Writes
      <3> QED
        BY <1>1, <3>1, <3>2, <3>3, <3>4, Fixed DEF KeptAt
    <2>2. ASSUME NEW x \in Files, x # e PROVE KeptAt(x)'
      <3>1. \A i \in Writes(x) : log'[i] = log[i]
        BY <1>7 DEF Writes
      <3> QED
        BY <1>1, <1>7, <2>2, <3>1, KeptElsewhere
    <2> QED
      BY <2>1, <2>2 DEF Kept
  <1>12. InPlaceHeld'
    BY <1>1, <1>7, HeldStays DEF HasRead, Working, Phases
  <1> QED
    BY <1>6, <1>7, <1>8, <1>9, <1>10, <1>11, <1>12 DEF RunInv

LEMMA FillStep ==
  ASSUME RunInv, Fill
  PROVE  RunInv'
  <1>1. /\ pc = "fill" /\ pc' = "install" /\ pc \in HasRead /\ temp' = File(Result)
        /\ UNCHANGED <<inv, disk, k, held, asked, status, log, disk0, faulty>>
    BY DEF Fill, HasRead, Working, Phases
  <1>2. LinksStay' /\ Kept' /\ Filled' /\ FromWhatItWas'
    BY <1>1, KeptByQuietSteps
  <1>3. Shaped'
    <2>1. File(Result) \in Nodes
      BY <1>1, NodeTypes DEF RunInv, HeldFrom
    <2> QED
      BY <1>1, <2>1 DEF RunInv, Shaped, Phases
  <1>4. HeldFrom' /\ InPlaceHeld'
    BY <1>1, HeldStays, FixedWrites DEF HasRead, Working, Phases
  <1>5. Dest' = Dest /\ Result' = Result /\ AsksRaw' = AsksRaw
    BY <1>1, FixedItem DEF AsksRaw
  <1>6. Accepted' /\ AskedByMolds' /\ CheckLogsRaw'
    BY <1>1, <1>5, Fixed DEF RunInv, Accepted, AskedByMolds, CheckLogsRaw, Working, Phases, Streaming
  <1>7. StreamsOnly'
    BY <1>1, <1>5, Fixed DEF RunInv, StreamsOnly, Streaming
  <1>8. InProgress'
    BY <1>1, <1>5 DEF RunInv, InProgress, Writing
  <1>9. Delivered' /\ NewestWhole'
    BY <1>1, FixedWrites DEF RunInv, Delivered, NewestWhole, Working, Writing, Phases, Succeeded
  <1> QED
    BY <1>2, <1>3, <1>4, <1>6, <1>7, <1>8, <1>9 DEF RunInv

----------------------------------------------------------------------------
\* A write that is done, and the loop that goes on

LEMMA OnwardFacts ==
  ASSUME RunInv, Onward, pc \in {"write", "writing", "install"}
  PROVE  /\ UNCHANGED <<inv, held, disk0, faulty>> /\ pc' \in {"read", "end"}
         /\ pc' = "read" => /\ ~IsMultiSlurp(inv) /\ k < Items(inv) /\ k' = k + 1
                            /\ asked' = NothingAsked
         /\ pc' = "end" => /\ k' = k /\ asked' = asked
                           /\ status' = "done" => k = Items(inv)
         /\ k \in 1 .. Items(inv) /\ Items(inv) \in Nat /\ k' \in 1 .. Items(inv) /\ k \in Nat
  <1>1. k \in 1 .. Items(inv) /\ Items(inv) \in Nat \ {0} /\ asked.exit \in Codes \cup {None}
        /\ Inputs(inv) \in Seq(Names)
    BY Sources DEF RunInv, Shaped
  <1>2. CASE asked.exit # None
    BY <1>1, <1>2, ShapeAssumption DEF Onward, End
  <1>3. CASE asked.exit = None /\ Looped /\ k < Items(inv)
    BY <1>1, <1>3 DEF Onward, Looped
  <1>4. CASE asked.exit = None /\ ~(Looped /\ k < Items(inv))
    <2>1. IsMultiSlurp(inv) => k = Items(inv)
      BY DEF RunInv, HeldFrom, HasRead, Working, Phases
    <2>2. ~IsBatch(inv) => Items(inv) = 1
      <3>1. CASE Inputs(inv) = <<>>
        BY <3>1 DEF Items
      <3>2. CASE Inputs(inv) # <<>>
        <4>1. Len(Inputs(inv)) \in Nat \ {0}
          BY <1>1, <3>2, EmptySeq
        <4>2. ~IsBatch(inv) => Len(Inputs(inv)) = 1
          <5>1. PICK n \in Nat \ {0} : n = Len(Inputs(inv))
            BY <4>1
          <5>2. ~(n > 1) => n = 1
            OBVIOUS
          <5>3. IsBatch(inv) <=> n > 1
            BY <5>1 DEF IsBatch
          <5> QED
            BY <5>1, <5>2, <5>3
        <4> QED
          BY <3>2, <4>2 DEF Items
      <3> QED
        BY <3>1, <3>2
    <2>3. k = Items(inv)
      BY <1>1, <1>4, <2>1, <2>2 DEF Looped
    <2> QED
      BY <1>1, <1>4, <2>3 DEF Onward, End
  <1> QED
    BY <1>2, <1>3, <1>4

LEMMA OnwardKeeps ==
  ASSUME RunInv, Onward, pc \in {"write", "writing", "install"}, temp' = Absent,
         disk' \in [Files -> Nodes],
         log' \in Seq([item : Nat, node : Files \cup {None}, what : What, raw : BOOLEAN]),
         {log'[j].item : j \in DOMAIN log'} = IF IsMultiSlurp(inv) THEN {k} ELSE 1 .. k
  PROVE  /\ Shaped' /\ Accepted' /\ AskedByMolds' /\ StreamsOnly' /\ HeldFrom'
         /\ InProgress' /\ Delivered'
  <1>1. /\ UNCHANGED <<inv, held, disk0, faulty>> /\ pc' \in {"read", "end"}
        /\ pc' = "read" => /\ ~IsMultiSlurp(inv) /\ k' = k + 1
                           /\ asked' = NothingAsked
        /\ pc' = "end" => /\ k' = k /\ asked' = asked
                          /\ status' = "done" => k = Items(inv)
        /\ k' \in 1 .. Items(inv) /\ k \in Nat
    BY OnwardFacts
  <1>2. Shaped'
    <2>1. Absent \in Nodes
      BY NodeTypes
    <2>2. NothingAsked \in [exit : Codes \cup {None}, format : Requests \cup {None},
                            file : Targets \cup {None}]
      BY DEF NothingAsked
    <2> QED
      BY <1>1, <2>1, <2>2 DEF RunInv, Shaped, Phases
  <1>3. Accepted'
    BY <1>1, Fixed DEF RunInv, Accepted, Working, Phases
  <1>4. AskedByMolds'
    BY <1>1 DEF RunInv, AskedByMolds, NothingAsked, Streaming
  <1>5. StreamsOnly' /\ HeldFrom' /\ InProgress'
    <2>1. StreamsOnly'
      BY <1>1 DEF StreamsOnly, Streaming
    <2>2. pc' \notin HasRead /\ pc' \notin Writing
      BY <1>1 DEF HasRead, Writing, Working
    <2>3. HeldFrom'
      BY <2>2 DEF HeldFrom
    <2>4. InProgress'
      BY <2>2 DEF InProgress
    <2> QED
      BY <2>1, <2>3, <2>4
  <1>6. Delivered'
    <2>1. CASE pc' = "read"
      <3>1. 1 .. k' - 1 = 1 .. k /\ ~IsMultiSlurp(inv)
        BY <1>1, <2>1
      <3> QED
        BY <1>1, <2>1, <3>1 DEF Delivered, Writing, Succeeded
    <2>2. CASE pc' = "end"
      BY <1>1, <2>2 DEF Delivered, Working, Writing
    <2> QED
      BY <1>1, <2>1, <2>2
  <1> QED
    BY <1>2, <1>3, <1>4, <1>5, <1>6

\* In place, one more result, or none.
LEMMA PassedMore ==
  ASSUME RunInv, Onward, pc \in {"write", "writing", "install"}
  PROVE  /\ Passed = k - 1 /\ Passed' = k /\ k \in Nat /\ 0 .. Passed \subseteq 0 .. Passed'
         /\ \A m : Passes(m)' = Passes(m)
  <1>1. k \in Nat /\ Passed = k - 1 /\ Passed' = k
    BY OnwardFacts DEF Passed
  <1>2. \A m : Passes(m)' = Passes(m)
    BY DEF Passes
  <1> QED
    BY <1>1, <1>2

LEMMA StillInPlace ==
  ASSUME inv' = inv, disk0' = disk0, pc' \in {"read", "end"}, ~faulty', Passed' = k,
         \A m : Passes(m)' = Passes(m),
         \A x \in Files : disk0[x].kind = "file" /\ ~NamedForOutput(x) =>
           /\ ~inv.inPlace => disk'[x] = disk0[x]
           /\ inv.inPlace => \E m \in 0 .. k : disk'[x] = File(disk0[x].what \o Passes(m))
  PROVE  InPlaceHeld'
  <1>1. \A e : NamedForOutput(e)' <=> NamedForOutput(e)
    BY Fixed
  <1>2. pc' \notin HasRead
    BY DEF HasRead, Working
  <1> QED
    BY <1>1, <1>2 DEF InPlaceHeld

LEMMA EmitStep ==
  ASSUME RunInv, Emit
  PROVE  RunInv'
  <1>1. /\ pc = "write" /\ Onward /\ Dest = None /\ UNCHANGED <<disk, temp>>
        /\ log' = Begun(None) /\ temp = Absent /\ pc \in HasRead
    BY NoTemp DEF Emit, HasRead, Working, Phases
  <1>2. /\ UNCHANGED <<inv, held, disk0, faulty>> /\ pc' \in {"read", "end"} /\ k \in Nat
        /\ k >= 1 /\ (pc' = "end" => asked' = asked)
    BY <1>1, OnwardFacts
  <1>3. /\ log' \in Seq([item : Nat, node : Files \cup {None}, what : What, raw : BOOLEAN])
        /\ DOMAIN log' = DOMAIN log \cup {Len(log')}
        /\ \A j \in DOMAIN log : log'[j] = log[j]
        /\ log'[Len(log')] = [item |-> k, node |-> None, what |-> Result, raw |-> AsksRaw]
        /\ \A x : Writes(x)' = IF None = x THEN Writes(x) \cup {Len(log')} ELSE Writes(x)
        /\ {log'[j].item : j \in DOMAIN log'} = {log[j].item : j \in DOMAIN log} \cup {k}
        /\ FromWhatItWas'
    BY <1>1, <1>2, LogWritten
  <1>4. {log'[j].item : j \in DOMAIN log'} = IF IsMultiSlurp(inv) THEN {k} ELSE 1 .. k
    <2>1. {log[j].item : j \in DOMAIN log} = IF IsMultiSlurp(inv) THEN {} ELSE 1 .. k - 1
      BY <1>1 DEF RunInv, Delivered, Working, Writing, Phases
    <2>2. (1 .. k - 1) \cup {k} = 1 .. k
      BY <1>2
    <2> QED
      BY <1>3, <2>1, <2>2
  <1>5. /\ Shaped' /\ Accepted' /\ AskedByMolds' /\ StreamsOnly' /\ HeldFrom'
        /\ InProgress' /\ Delivered'
    <2>1. disk' \in [Files -> Nodes]
      BY <1>1 DEF RunInv, Shaped
    <2> QED
      BY <1>1, <1>3, <1>4, <2>1, OnwardKeeps
  <1>6. LinksStay' /\ Filled'
    BY <1>1, <1>2 DEF RunInv, LinksStay, Filled
  <1>7. Kept'
    <2>1. ASSUME NEW x \in Files PROVE KeptAt(x)'
      <3>1. x # None
        BY FilesAreNames
      <3>2. \A i \in Writes(x) : log'[i] = log[i]
        BY <1>3 DEF Writes
      <3> QED
        BY <1>1, <1>2, <1>3, <3>1, <3>2, KeptElsewhere
    <2> QED
      BY <2>1 DEF Kept
  <1>8. NewestWhole'
    <2>1. ASSUME NEW j \in DOMAIN log, log[j].node # None, Newest(j)'
          PROVE  Whole(j)'
      <3>1. Newest(j)
        BY <1>1, <1>2, <2>1, NewestGrows
      <3>2. Whole(j)
        BY <1>1, <2>1, <3>1 DEF RunInv, NewestWhole, Working, Writing, Phases
      <3> QED
        BY <1>1, <1>3, <3>2 DEF Whole
    <2>2. log'[Len(log')].node = None
      <3>1. log'[Len(log')] = [item |-> k, node |-> None, what |-> Result, raw |-> AsksRaw]
        BY <1>3
      <3> QED
        BY <3>1
    <2>3. \A j \in DOMAIN log : log'[j] = log[j]
      BY <1>3
    <2>4. DOMAIN log' = DOMAIN log \cup {Len(log')}
      BY <1>3
    <2>5. ASSUME NEW j \in DOMAIN log', log'[j].node # None, Newest(j)'
          PROVE  Whole(j)'
      BY <2>1, <2>2, <2>3, <2>4, <2>5
    <2> QED
      BY <2>5 DEF NewestWhole
  <1>9. InPlaceHeld'
    <2>1. /\ Passed = k - 1 /\ Passed' = k /\ 0 .. Passed \subseteq 0 .. Passed'
          /\ \A m : Passes(m)' = Passes(m)
      BY <1>1, PassedMore
    <2>2. ~faulty
      BY <1>1 DEF RunInv, InPlaceHeld
    <2>3. ASSUME NEW x \in Files, disk0[x].kind = "file", ~NamedForOutput(x)
          PROVE  /\ ~inv.inPlace => disk[x] = disk0[x]
                 /\ inv.inPlace => \E m \in 0 .. k : disk[x] = File(disk0[x].what \o Passes(m))
      BY <1>1, <2>1, <2>2, <2>3 DEF RunInv, InPlaceHeld
    <2> QED
      BY <1>1, <1>2, <2>1, <2>2, <2>3, StillInPlace
  <1>10. CheckLogsRaw'
    <2>1. inv.check /\ ~IsRaw(inv) => AsksRaw
      BY <1>1 DEF RunInv, CheckLogsRaw
    <2>2. log'[Len(log')].raw = AsksRaw
      <3>1. log'[Len(log')] = [item |-> k, node |-> None, what |-> Result, raw |-> AsksRaw]
        BY <1>3
      <3> QED
        BY <3>1
    <2> QED
      BY <1>2, <1>3, <2>1, <2>2 DEF RunInv, CheckLogsRaw
  <1> QED
    BY <1>3, <1>5, <1>6, <1>7, <1>8, <1>9, <1>10 DEF RunInv

\* A write that is finished: FinishWrite, and Install.
LEMMA FinishesWrite ==
  ASSUME RunInv, Onward, pc \in {"writing", "install"}, log' = log, temp' = Absent,
         disk' = [disk EXCEPT ![Node(Dest)] = File(Result)], Dest # None,
         log[Len(log)].node = Node(Dest)
  PROVE  RunInv'
  <1>1. /\ UNCHANGED <<inv, held, disk0, faulty>> /\ pc' \in {"read", "end"} /\ k \in Nat
        /\ k >= 1 /\ (pc' = "end" => asked' = asked)
    BY OnwardFacts
  <1>2. pc \in HasRead /\ pc \in Writing /\ pc \in Working
    BY DEF HasRead, Working, Phases, Writing
  <1>3. PICK e : e = Node(Dest)
    OBVIOUS
  <1>4. PICK w : w = File(Result)
    OBVIOUS
  <1>5. e \in Files /\ e = At(Dest) /\ disk[e].kind # "link"
    BY <1>2, <1>3, DestNode
  <1>6. w \in Nodes /\ w.kind = "file" /\ w.what = Result /\ w.what # <<>>
    BY <1>2, <1>4, NodeTypes, ResultType DEF RunInv, HeldFrom
  <1>7. /\ disk' \in [Files -> Nodes] /\ disk'[e] = w
        /\ \A x \in Files : x # e => disk'[x] = disk[x]
        /\ LinksStay' /\ Filled'
    BY <1>1, <1>3, <1>4, <1>5, <1>6, DiskWritten
  <1>8. /\ log # <<>> /\ log[Len(log)].what = Result /\ log[Len(log)].node = e
        /\ Len(log) \in DOMAIN log /\ DOMAIN log = 1 .. Len(log) /\ Len(log) \in Nat
    <2>1. /\ log # <<>>
          /\ log[Len(log)] = [item |-> k, what |-> Result, raw |-> AsksRaw,
                              node |-> IF pc = "writing" THEN Node(Dest) ELSE Entry(Dest)]
      BY <1>2 DEF RunInv, InProgress
    <2>2. log \in Seq([item : Nat, node : Files \cup {None}, what : What, raw : BOOLEAN])
      BY DEF RunInv, Shaped
    <2>3. Len(log) \in Nat /\ DOMAIN log = 1 .. Len(log) /\ Len(log) \in DOMAIN log
      BY <2>1, <2>2
    <2>4. log[Len(log)].what = Result
      BY <2>1
    <2> QED
      BY <1>3, <2>1, <2>3, <2>4
  <1>9. PICK z : z = Len(log)
    OBVIOUS
  <1>10. Whole(z)' /\ z \in Writes(e)
    BY <1>3, <1>4, <1>7, <1>8, <1>9 DEF Whole, Writes
  <1>11. /\ Shaped' /\ Accepted' /\ AskedByMolds' /\ StreamsOnly' /\ HeldFrom'
         /\ InProgress' /\ Delivered'
    <2>1. {log[j].item : j \in DOMAIN log} = IF IsMultiSlurp(inv) THEN {k} ELSE 1 .. k
      BY <1>2 DEF RunInv, Delivered
    <2>2. log' \in Seq([item : Nat, node : Files \cup {None}, what : What, raw : BOOLEAN])
      BY DEF RunInv, Shaped
    <2>3. {log'[j].item : j \in DOMAIN log'} = IF IsMultiSlurp(inv) THEN {k} ELSE 1 .. k
      BY <2>1
    <2> QED
      BY <1>7, <2>2, <2>3, OnwardKeeps
  <1>12. Kept'
    <2>1. KeptAt(e)'
      <3>1. z \in Writes(e)'
        BY <1>10, WritesStay
      <3> QED
        BY <1>10, <3>1 DEF KeptAt
    <2>2. ASSUME NEW x \in Files, x # e PROVE KeptAt(x)'
      BY <1>1, <1>7, <2>2, WritesStay, KeptElsewhere
    <2> QED
      BY <2>1, <2>2 DEF Kept
  <1>13. NewestWhole'
    <2>1. ASSUME NEW j \in DOMAIN log, log[j].node # None, Newest(j), j # z
          PROVE  Whole(j)'
      <3>1. log[j].node # e
        <4> SUFFICES ASSUME log[j].node = e PROVE FALSE
          OBVIOUS
        <4>1. z <= j
          BY <1>10, <2>1 DEF Newest
        <4> QED
          BY <1>8, <1>9, <2>1, <4>1
      <3>2. Whole(j)
        BY <1>2, <1>9, <2>1 DEF RunInv, NewestWhole
      <3>3. log[j].node \in Files
        BY <2>1, NodesOfWrites DEF RunInv
      <3> QED
        BY <1>7, <3>1, <3>2, <3>3 DEF Whole
    <2>2. \A j : Newest(j)' <=> Newest(j)
      BY WritesStay DEF Newest, Writes
    <2> QED
      BY <1>10, <2>1, <2>2 DEF NewestWhole
  <1>14. FromWhatItWas'
    BY <1>1, WritesStay, FromKept DEF RunInv, FromWhatItWas
  <1>15. InPlaceHeld'
    <2>1. /\ Passed = k - 1 /\ Passed' = k /\ 0 .. Passed \subseteq 0 .. Passed'
          /\ \A m : Passes(m)' = Passes(m)
      BY PassedMore
    <2>2. ~faulty
      BY <1>2 DEF RunInv, InPlaceHeld, Writing
    <2>3. ASSUME NEW x \in Files, disk0[x].kind = "file", ~NamedForOutput(x), x # e
          PROVE  /\ ~inv.inPlace => disk'[x] = disk0[x]
                 /\ inv.inPlace => \E m \in 0 .. k : disk'[x] = File(disk0[x].what \o Passes(m))
      <3>1. disk'[x] = disk[x]
        BY <1>7, <2>3
      <3>2. inv.inPlace => \E m \in 0 .. Passed : disk[x] = File(disk0[x].what \o Passes(m))
        <4> SUFFICES ASSUME inv.inPlace
                     PROVE  \E m \in 0 .. Passed : disk[x] = File(disk0[x].what \o Passes(m))
          OBVIOUS
        <4>1. ~(pc = "writing" /\ At(Dest) = x)
          BY <1>5, <2>3
        <4> QED
          BY <2>2, <2>3, <4>1 DEF RunInv, InPlaceHeld
      <3> QED
        BY <2>1, <2>3, <3>1, <3>2 DEF RunInv, InPlaceHeld
    <2>4. ASSUME disk0[e].kind = "file", ~NamedForOutput(e)
          PROVE  /\ inv.inPlace
                 /\ \E m \in 0 .. k : disk'[e] = File(disk0[e].what \o Passes(m))
      <3>1. inv.inPlace /\ ~IsRaw(inv) /\ Here # None /\ At(Here) = e
        BY <1>2, <1>5, <2>4, NotNamed
      <3>2. PICK m \in 0 .. k - 1 : held = disk0[e].what \o Passes(m)
        BY <1>2, <1>5, <2>4, <3>1 DEF RunInv, InPlaceHeld
      <3>3. m \in Nat /\ m \in 0 .. k /\ m + 1 \in 0 .. k
        BY <1>1, <3>2
      <3>4. disk0[e].what \in Seq(Names \cup {None, Converted})
        BY <1>5, Command DEF RunInv, WellFilled, Nodes, What
      <3>5. Append(held, Converted) = disk0[e].what \o Passes(m + 1)
        BY <3>2, <3>3, <3>4, OnePassMore
      <3>6. Result = disk0[e].what \o Passes(m) \/ Result = disk0[e].what \o Passes(m + 1)
        BY <3>2, <3>5 DEF Result
      <3> QED
        BY <1>4, <1>7, <3>1, <3>3, <3>6
    <2>5. ASSUME NEW x \in Files, disk0[x].kind = "file", ~NamedForOutput(x)
          PROVE  /\ ~inv.inPlace => disk'[x] = disk0[x]
                 /\ inv.inPlace => \E m \in 0 .. k : disk'[x] = File(disk0[x].what \o Passes(m))
      BY <2>3, <2>4, <2>5
    <2> QED
      BY <1>1, <2>1, <2>2, <2>5, StillInPlace
  <1>16. CheckLogsRaw'
    BY <1>1 DEF RunInv, CheckLogsRaw
  <1> QED
    BY <1>7, <1>11, <1>12, <1>13, <1>14, <1>15, <1>16 DEF RunInv

LEMMA FinishWriteStep ==
  ASSUME RunInv, FinishWrite
  PROVE  RunInv'
  <1>1. /\ pc = "writing" /\ Onward /\ UNCHANGED <<temp, log>> /\ temp = Absent
        /\ disk' = [disk EXCEPT ![Node(Dest)] = File(Result)] /\ Dest # None
        /\ log[Len(log)].node = Node(Dest)
    BY NoTemp DEF FinishWrite, RunInv, InProgress, Writing
  <1> QED
    BY <1>1, FinishesWrite

LEMMA InstallStep ==
  ASSUME RunInv, Install
  PROVE  RunInv'
  <1>1. /\ pc = "install" /\ Onward /\ log' = log /\ temp' = Absent /\ temp = File(Result)
        /\ disk' = [disk EXCEPT ![Entry(Dest)] = temp]
    BY DEF Install, RunInv, StreamsOnly
  <1>2. Dest # None /\ disk[Entry(Dest)].kind # "link" /\ log[Len(log)].node = Entry(Dest)
    BY <1>1 DEF RunInv, StreamsOnly, InProgress, Writing, Streaming
  <1>3. Entry(Dest) = Node(Dest)
    BY <1>1, <1>2, DestNode DEF HasRead, Working, Phases
  <1> QED
    BY <1>1, <1>2, <1>3, FinishesWrite

LEMMA RunInductive == RunInv /\ [Next]_vars => RunInv'
  <1> SUFFICES ASSUME RunInv, [Next]_vars PROVE RunInv'
    OBVIOUS
  <1>1. CASE Refuse \/ GiveUp \/ DecideCheck \/ WriteFails \/ StreamFails \/ Die
    BY <1>1, StoppingSteps
  <1>2. CASE Start
    BY <1>2, StartStep
  <1>3. CASE MakeDir
    BY <1>3, MakeDirStep
  <1>4. CASE Read
    BY <1>4, ReadStep
  <1>5. CASE OpenStream
    BY <1>5, OpenStreamStep
  <1>6. CASE RunMolds
    BY <1>6, RunMoldsStep
  <1>7. CASE DecideRaw \/ DecideWrite
    BY <1>7, DecidingSteps
  <1>8. CASE Emit
    BY <1>8, EmitStep
  <1>9. CASE Truncate
    BY <1>9, TruncateStep
  <1>10. CASE FinishWrite
    BY <1>10, FinishWriteStep
  <1>11. CASE MakeTemp
    BY <1>11, MakeTempStep
  <1>12. CASE Fill
    BY <1>12, FillStep
  <1>13. CASE Install
    BY <1>13, InstallStep
  <1>14. CASE UNCHANGED vars
    BY <1>14, Stutters
  <1> QED
    BY <1>1, <1>2, <1>3, <1>4, <1>5, <1>6, <1>7, <1>8, <1>9, <1>10, <1>11, <1>12, <1>13, <1>14
       DEF Next

LEMMA RunInvariant == Spec => []RunInv
  BY InitRun, RunInductive, PTL DEF Spec

----------------------------------------------------------------------------
\* What a run promises

\* A streamed output is whole at every moment, links stay links, and a temporary is
\* left only by a process that died, whatever fails and wherever the process dies.
THEOREM StreamedOutputsAreWhole == Spec => []StreamedWhole
  <1>1. ASSUME RunInv PROVE StreamedWhole
    <2>1. ASSUME NEW j \in DOMAIN log, NEW e, e = log[j].node, e # None,
                 \A i \in Writes(e) : StreamsToFile(log[i].item)
          PROVE  disk[e] = disk0[e] \/ \E i \in Writes(e) : disk[e] = File(log[i].what)
      <3>1. e \in Files /\ j \in Writes(e)
        BY <1>1, <2>1, NodesOfWrites DEF RunInv, Writes
      <3>2. disk[e] = disk0[e] \/ \E i \in Writes(e) : Whole(i)
        BY <1>1, <2>1, <3>1 DEF RunInv, Kept, KeptAt
      <3>3. \A i \in Writes(e) : log[i].node = e
        BY DEF Writes
      <3> QED
        BY <3>2, <3>3 DEF Whole
    <2>2. \A n \in Files : disk0[n].kind = "link" => disk[n] = disk0[n]
      BY <1>1 DEF RunInv, LinksStay
    <2>3. pc = "end" => temp = Absent
      BY <1>1 DEF RunInv, StreamsOnly
    <2> QED
      BY <2>1, <2>2, <2>3 DEF StreamedWhole
  <1> QED
    BY <1>1, RunInvariant, PTL

\* An input keeps its content, or in place becomes a result made from it, in every
\* batch and after every failure; only a write that was cut off leaves it damaged.
THEOREM InputsAreNotLost == Spec => []InputsSurvive
  <1>1. ASSUME RunInv PROVE InputsSurvive
    <2>1. ASSUME log = <<>>, NEW n \in Files, disk0[n].kind = "file"
          PROVE  disk[n] = disk0[n]
      <3>1. Writes(n) = {}
        BY <2>1 DEF Writes
      <3> QED
        BY <1>1, <2>1, <3>1 DEF RunInv, Kept, KeptAt, MadeDir
    <2>2. ASSUME NEW i \in DOMAIN Inputs(inv), NEW n, n = Inputs(inv)[i], NEW e, e = At(n),
                 ~IsUrl(n), disk0[e].kind = "file", ~NamedForOutput(e)
          PROVE  \/ disk[e] = disk0[e]
                 \/ inv.inPlace /\ \E m \in 1 .. Items(inv) :
                      disk[e] = File(disk0[e].what \o [j \in 1 .. m |-> Converted])
                 \/ inv.inPlace /\ disk[e] = Torn /\ (pc = "writing" \/ faulty)
      <3>1. k \in 1 .. Items(inv) /\ Inputs(inv) \in Seq(Names) /\ Items(inv) \in Nat
        BY <1>1, Sources DEF RunInv, Shaped
      <3>2. n \in Local \X Bases
        <4>1. n \in Names
          BY <2>2, <3>1
        <4> QED
          BY <2>2, <4>1, LocalNames
      <3>3. e \in Files
        BY <1>1, <2>2, <3>2, AtIsFile DEF RunInv
      <3>4. CASE ~inv.inPlace
        BY <1>1, <2>2, <3>3, <3>4 DEF RunInv, InPlaceHeld
      <3>5. CASE disk[e] = Torn /\ (pc = "writing" \/ faulty) /\ inv.inPlace
        BY <3>5
      <3>6. CASE /\ inv.inPlace
                 /\ \E m \in 0 .. Passed : disk[e] = File(disk0[e].what \o Passes(m))
        <4>1. PICK m \in 0 .. Passed : disk[e] = File(disk0[e].what \o Passes(m))
          BY <3>6
        <4>2. m \in Nat /\ m <= Items(inv)
          BY <3>1, <4>1 DEF Passed
        <4>3. CASE m = 0
          <5>1. disk0[e] = File(<<e>>) /\ disk0[e].what = <<e>>
            BY <1>1, <2>2, <3>3, Command DEF RunInv, WellFilled, File
          <5>2. <<e>> \o Passes(0) = <<e>>
            <6>1. <<e>> \in Seq(Files)
              BY <3>3
            <6> QED
              BY <6>1, NoPass
          <5> QED
            BY <4>1, <4>3, <5>1, <5>2
        <4>4. CASE m # 0
          <5>1. m \in 1 .. Items(inv)
            BY <3>1, <4>2, <4>4
          <5> QED
            BY <3>6, <4>1, <5>1 DEF Passes
        <4> QED
          BY <4>3, <4>4
      <3> QED
        BY <1>1, <2>2, <3>3, <3>4, <3>5, <3>6 DEF RunInv, InPlaceHeld
    <2> QED
      BY <2>1, <2>2 DEF InputsSurvive, At
  <1> QED
    BY <1>1, RunInvariant, PTL

\* With --check no output is begun and no file changes, but for what a mold makes raw
\* and for the directory of a batch.
THEOREM ChecksWriteNothing == Spec => []CheckWritesNothing
  <1>1. ASSUME RunInv, inv.check, ~IsRaw(inv) PROVE \A j \in DOMAIN log : log[j].raw
    BY <1>1 DEF RunInv, CheckLogsRaw
  <1>2. ASSUME RunInv, NEW n \in Files, disk[n] # disk0[n],
               \A j \in DOMAIN log : log[j].node # n
        PROVE  Looped /\ n = inv.output /\ disk0[n].kind \in {"absent", "dir"} /\ disk[n] = Dir
    <2>1. Writes(n) = {}
      BY <1>2 DEF Writes
    <2>2. MadeDir(n)
      BY <1>2, <2>1 DEF RunInv, Kept, KeptAt
    <2>3. disk0[n].kind # "link"
      BY <1>2 DEF RunInv, LinksStay
    <2>4. disk0[n].kind \in {"file", "absent", "dir", "torn", "link"}
      BY <1>2, ShapeAssumption DEF RunInv, Shaped, WellFilled, Nodes
    <2> QED
      BY <2>2, <2>3, <2>4 DEF MadeDir
  <1>3. RunInv => CheckWritesNothing
    BY <1>1, <1>2 DEF CheckWritesNothing
  <1> QED
    BY <1>3, RunInvariant, PTL

\* A run that ends well has delivered every input, each from its own content, and the
\* files hold what was delivered last.
THEOREM DoneIsWritten == Spec => []DoneMeansWritten
  <1>1. ASSUME RunInv PROVE DoneMeansWritten
    <2> SUFFICES ASSUME pc = "end", ~inv.check, status \in Codes \cup {"done"}
                 PROVE  DoneMeansWritten
      BY DEF DoneMeansWritten
    <2>1. Succeeded /\ pc \notin Writing
      BY DEF Succeeded, Writing
    <2>2. /\ status = "done" => k = Items(inv)
          /\ {log[j].item : j \in DOMAIN log} = IF IsMultiSlurp(inv) THEN {k} ELSE 1 .. k
      BY <1>1, <2>1 DEF RunInv, Delivered
    <2>3. ASSUME NEW j \in DOMAIN log, NEW e, e = log[j].node, e # None,
                 \A i \in Writes(e) : i <= j
          PROVE  disk[e] = File(log[j].what)
      <3>1. Newest(j)
        BY <2>3 DEF Newest
      <3>2. Whole(j)
        BY <1>1, <2>1, <2>3, <3>1 DEF RunInv, NewestWhole
      <3> QED
        BY <2>3, <3>2 DEF Whole
    <2>4. ASSUME ~IsMultiSlurp(inv), NEW j \in DOMAIN log,
                 NEW n, n = Source(inv, log[j].item)
          PROVE  \/ (IF n = None \/ IsUrl(n) THEN n ELSE NodeIn(disk0, n)) = log[j].what[1]
                 \/ n # None /\ ~IsUrl(n) /\ Writes(NodeIn(disk0, n)) # {}
      <3>1. From(n, log[j].what)
        BY <1>1, <2>4 DEF RunInv, FromWhatItWas
      <3> QED
        BY <3>1 DEF From, At
    <2> QED
      BY <2>2, <2>3, <2>4 DEF DoneMeansWritten
  <1> QED
    BY <1>1, RunInvariant, PTL

\* The streaming and the buffered path agree on every format.
THEOREM FormatsAgree == Spec => []OneOutputFormat
  <1>1. OneOutputFormat
    BY InvocationAssumption
       DEF OneOutputFormat, StreamFormats, ReadFormat, WrittenFormat, Resolve, Fallback
  <1> QED
    BY <1>1, PTL

----------------------------------------------------------------------------
\* Part 2: the budgets of the chain.

\* What is inductive: the mold's remaining interpreter time and what all molds
\* computed so far together fit the budget, as the clock is never behind the
\* interpreter; and what was served and what remains make up the quota.
Budgets ==
  /\ policy \in [duration : Durations \cup {Unlimited}, suspensions : Quotas]
  /\ elapsed \in 0..Horizon /\ computed \in Nat /\ served \in Nat
  /\ feed \in Nat \cup {Unlimited}
  /\ remaining \in Nat \cup {Unlimited}
  /\ Timed => computed <= policy.duration
  /\ Timed /\ phase # "run" => computed <= elapsed \/ elapsed = Horizon
  /\ Timed /\ phase = "run" =>
       /\ feed \in Nat /\ computed + feed <= policy.duration
       /\ computed <= elapsed \/ elapsed = Horizon
  /\ policy.suspensions # 0 => served <= policy.suspensions
  /\ phase = "run" =>
       IF policy.suspensions = 0 THEN remaining = Unlimited
       ELSE remaining \in Nat /\ served + remaining = policy.suspensions
  /\ phase = "max_suspensions" => policy.suspensions # 0 /\ served = policy.suspensions

\* The policy's own type: a limit is a number no larger than the model's horizon.
LEMMA PolicyType ==
  ASSUME policy \in [duration : Durations \cup {Unlimited}, suspensions : Quotas]
  PROVE  /\ policy.suspensions \in Nat
         /\ Timed => policy.duration \in 0..Horizon
  BY BudgetAssumption DEF Timed

LEMMA InitBudgets == BudgetInit => Budgets
  <1> SUFFICES ASSUME BudgetInit PROVE Budgets
    OBVIOUS
  <1>1. policy.suspensions \in Nat /\ (Timed => policy.duration \in 0..Horizon)
    BY PolicyType DEF BudgetInit
  <1> QED
    BY <1>1, BudgetAssumption DEF BudgetInit, Budgets

LEMMA BudgetsInductive == Budgets /\ [BudgetNext]_budgetVars => Budgets'
  <1> SUFFICES ASSUME Budgets, [BudgetNext]_budgetVars PROVE Budgets'
    OBVIOUS
  <1> USE BudgetAssumption DEF Budgets, Timed
  <1>0. policy.suspensions \in Nat /\ (Timed => policy.duration \in 0..Horizon)
    BY PolicyType DEF budgetVars
  <1>1. CASE StartMold
    <2>1. /\ policy' = policy /\ elapsed' = elapsed /\ computed' = computed
          /\ phase' = "run" /\ served' = 0 /\ phase = "start"
          /\ feed' = Feed(elapsed) /\ remaining' = Quota
      BY <1>1 DEF StartMold
    <2>2. CASE Timed
      <3>1. feed' \in Nat /\ computed + feed' <= policy.duration /\ computed <= elapsed
        BY <1>0, <1>1, <2>1, <2>2 DEF StartMold, Feed
      <3> QED
        BY <1>0, <2>1, <2>2, <3>1 DEF Quota
    <2>3. CASE ~Timed
      BY <1>0, <2>1, <2>3 DEF Feed, Quota
    <2> QED
      BY <2>2, <2>3
  <1>2. CASE StartTooLate
    BY <1>2 DEF StartTooLate
  <1>3. CASE Compute
    <2>1. CASE Timed
      <3>1. feed \in Nat \ {0} /\ feed' = feed - 1 /\ computed' = computed + 1
        BY <1>3, <2>1 DEF Compute
      <3>2. elapsed' \in 0..Horizon
            /\ (computed' <= elapsed' \/ elapsed' = Horizon)
        BY <1>3, <2>1, <3>1 DEF Compute, Tick
      <3>3. /\ policy' = policy /\ phase' = phase /\ phase = "run"
            /\ remaining' = remaining /\ served' = served
        BY <1>3 DEF Compute
      <3> QED
        BY <1>0, <2>1, <3>1, <3>2, <3>3
    <2>2. CASE ~Timed
      BY <1>3, <2>2 DEF Compute
    <2> QED
      BY <2>1, <2>2
  <1>4. CASE FeedExpires \/ MoldReturns \/ MoldFails \/ CapExceeded
    BY <1>4 DEF FeedExpires, MoldReturns, MoldFails, CapExceeded
  <1>5. CASE QuotaExceeded
    BY <1>5 DEF QuotaExceeded, Suspends, Exhausted
  <1>6. ASSUME NEW n \in {0, 1}, Suspend(n) PROVE Budgets'
    BY <1>6 DEF Suspend, Suspends, Exhausted
  <1>7. CASE HostWait
    BY <1>7 DEF HostWait, Tick
  <1>8. CASE Absorb
    BY <1>8 DEF Absorb
  <1>9. CASE UNCHANGED budgetVars
    BY <1>9 DEF budgetVars
  <1> QED
    BY <1>1, <1>2, <1>3, <1>4, <1>5, <1>6, <1>7, <1>8, <1>9
       DEF BudgetNext, RunStep, HostStep, Stopped

\* The molds of a chain, injected ones included, never compute for longer than
\* max_duration, in any interleaving of interpreter and host time.
THEOREM BudgetHolds == BudgetSpec => []ComputeWithinBudget
  <1>1. Budgets => ComputeWithinBudget
    BY DEF Budgets, ComputeWithinBudget
  <1> QED
    BY <1>1, InitBudgets, BudgetsInductive, PTL DEF BudgetSpec

\* A mold is stopped at its suspension quota exactly.
THEOREM QuotaHolds == BudgetSpec => []QuotaExact
  <1>1. Budgets => QuotaExact
    BY DEF Budgets, QuotaExact
  <1> QED
    BY <1>1, InitBudgets, BudgetsInductive, PTL DEF BudgetSpec

\* The molds that may still run, and what they may still do under a duration limit:
\* two steps for each tick of interpreter time left, and four for each mold.
MoldsLeft == left + (MaxDynamicSteps - injected)
StepsOfMold == CASE phase = "start" -> 3 [] phase = "run" -> 2 [] phase = "absorb" -> 1
ToSuspend == IF phase = "run" /\ worked THEN 1 ELSE 0

BudgetLeft ==
  IF phase \in Ended THEN 0
  ELSE 4 * MoldsLeft + 2 * (policy.duration - computed) + ToSuspend + StepsOfMold

Counted ==
  /\ phase \in {"start", "run", "absorb"} \cup Ended
  /\ left \in Nat /\ pending \in Nat /\ injected \in 0 .. MaxDynamicSteps
  /\ worked \in BOOLEAN

Spent == BudgetLeft' < BudgetLeft
HostWaits == phase = "run" /\ phase' = "run" /\ computed' = computed /\ BudgetLeft' = BudgetLeft

\* A mold is begun when the one before has been taken off.
MoldTaken == MoldsLeft' < MoldsLeft
MoldStays == MoldsLeft' = MoldsLeft /\ (phase' = "start" => phase = "start")
MoldsEnd == MoldsLeft' <= MoldsLeft /\ phase' \in Ended

LEMMA CountedInvariant == BudgetSpec => []Counted
  <1>1. BudgetInit => Counted
    <2>1. StaticSteps - 1 \in Nat /\ 0 \in 0 .. MaxDynamicSteps
      BY BudgetAssumption
    <2>2. BudgetInit => /\ left = StaticSteps - 1 /\ pending = 0 /\ injected = 0
                        /\ phase = "start" /\ worked = FALSE
      BY DEF BudgetInit
    <2> SUFFICES ASSUME BudgetInit PROVE Counted
      OBVIOUS
    <2>3. left \in Nat /\ pending \in Nat /\ injected \in 0 .. MaxDynamicSteps
      <3>1. left = StaticSteps - 1 /\ pending = 0 /\ injected = 0
        BY <2>2
      <3> QED
        BY <2>1, <3>1
    <2>4. phase \in {"start", "run", "absorb"} \cup Ended
      BY <2>2
    <2>5. worked \in BOOLEAN
      BY <2>2, Zenon
    <2> QED
      BY <2>3, <2>4, <2>5, Zenon DEF Counted
  <1>2. Counted /\ [BudgetNext]_budgetVars => Counted'
    <2> SUFFICES ASSUME Counted, [BudgetNext]_budgetVars PROVE Counted'
      OBVIOUS
    <2> USE BudgetAssumption DEF Counted
    <2>0. /\ left \in Nat /\ pending \in Nat /\ injected \in 0 .. MaxDynamicSteps
          /\ phase \in {"start", "run", "absorb"} \cup Ended /\ worked \in BOOLEAN
      OBVIOUS
    <2>1. CASE StartMold \/ StartTooLate \/ FeedExpires \/ QuotaExceeded
      <3>1. /\ left' = left /\ injected' = injected /\ pending' \in {0, pending}
            /\ phase' \in {"run"} \cup Ended
        BY <2>1 DEF StartMold, StartTooLate, FeedExpires, QuotaExceeded, Suspends, Ended
      <3>2. worked' = FALSE \/ worked' = worked
        BY <2>1 DEF StartMold, StartTooLate, FeedExpires, QuotaExceeded
      <3>3. worked' \in BOOLEAN
        BY <2>0, <3>2
      <3>4. left' \in Nat /\ injected' \in 0 .. MaxDynamicSteps /\ pending' \in Nat
        BY <2>0, <3>1
      <3> QED
        BY <3>1, <3>3, <3>4
    <2>6. CASE Compute
      BY <2>0, <2>6 DEF Compute
    <2>2. CASE HostWait \/ MoldReturns \/ MoldFails \/ CapExceeded
      BY <2>2 DEF HostWait, MoldReturns, MoldFails, CapExceeded, Ended
    <2>3. ASSUME NEW n \in {0, 1}, Suspend(n) PROVE Counted'
      <3>1. pending' = pending + n /\ pending + n \in Nat
        BY <2>0, <2>3 DEF Suspend
      <3> QED
        BY <2>0, <2>3, <3>1 DEF Suspend, Suspends
    <2>4. CASE Absorb
      BY <2>4 DEF Absorb, Count, Ended
    <2>5. CASE UNCHANGED budgetVars
      BY <2>5 DEF budgetVars
    <2> QED
      BY <2>1, <2>2, <2>3, <2>4, <2>5, <2>6 DEF BudgetNext, RunStep, HostStep, Stopped
  <1> QED
    BY <1>1, <1>2, PTL DEF BudgetSpec

LEMMA MoldsPass ==
  Counted /\ [BudgetNext]_budgetVars => [MoldTaken \/ MoldStays \/ MoldsEnd]_budgetVars
  <1> SUFFICES ASSUME Counted, BudgetNext
               PROVE  MoldTaken \/ MoldStays \/ MoldsEnd \/ UNCHANGED budgetVars
    OBVIOUS
  <1>1. MaxDynamicSteps \in Nat /\ left \in Nat /\ pending \in Nat /\ injected \in 0 .. MaxDynamicSteps
    BY BudgetAssumption DEF Counted
  <1>2. CASE Absorb
    BY <1>1, <1>2 DEF Absorb, Count, MoldTaken, MoldsEnd, MoldsLeft, Ended
  <1>3. CASE StartMold \/ StartTooLate \/ Compute \/ FeedExpires \/ QuotaExceeded
    BY <1>3 DEF StartMold, StartTooLate, Compute, FeedExpires, QuotaExceeded, Suspends, MoldStays, MoldsLeft
  <1>4. CASE HostWait \/ MoldReturns \/ MoldFails \/ CapExceeded
    BY <1>4 DEF HostWait, MoldReturns, MoldFails, CapExceeded, MoldStays, MoldsLeft
  <1>5. ASSUME NEW n \in {0, 1}, Suspend(n) PROVE MoldStays
    BY <1>5 DEF Suspend, Suspends, MoldStays, MoldsLeft
  <1> QED
    BY <1>2, <1>3, <1>4, <1>5 DEF BudgetNext, RunStep, HostStep, Stopped

\* With or without limits a chain runs no more molds than were named and may be injected
\* (the cap of execute_chain).
THEOREM MoldsAreBounded ==
  BudgetSpec => /\ [](MoldsLeft \in 0 .. StaticSteps + MaxDynamicSteps - 1)
                /\ [][MoldTaken \/ MoldStays \/ MoldsEnd]_budgetVars
  <1>1. BudgetInit => MoldsLeft \in 0 .. StaticSteps + MaxDynamicSteps - 1
    BY BudgetAssumption DEF BudgetInit, MoldsLeft
  <1>2. /\ Counted /\ Counted' /\ MoldsLeft \in 0 .. StaticSteps + MaxDynamicSteps - 1
        /\ [BudgetNext]_budgetVars
        => (MoldsLeft \in 0 .. StaticSteps + MaxDynamicSteps - 1)'
    <2> SUFFICES ASSUME Counted, Counted', MoldsLeft \in 0 .. StaticSteps + MaxDynamicSteps - 1,
                        [BudgetNext]_budgetVars
                 PROVE  MoldsLeft' \in 0 .. StaticSteps + MaxDynamicSteps - 1
      OBVIOUS
    <2>1. MoldsLeft' <= MoldsLeft
      <3>1. [MoldTaken \/ MoldStays \/ MoldsEnd]_budgetVars
        BY MoldsPass
      <3>2. MoldsLeft \in Int /\ MoldsLeft' \in Int
        BY BudgetAssumption DEF Counted, MoldsLeft
      <3> QED
        BY <3>1, <3>2 DEF MoldTaken, MoldStays, MoldsEnd, budgetVars, MoldsLeft
    <2>2. MoldsLeft' \in Nat
      <3>1. left' \in Nat /\ injected' \in 0 .. MaxDynamicSteps /\ MaxDynamicSteps \in Nat
        BY BudgetAssumption DEF Counted
      <3>2. MoldsLeft' = left' + (MaxDynamicSteps - injected')
        BY DEF MoldsLeft
      <3>3. \A m \in Nat : \A l \in Nat : \A n \in 0 .. m : l + (m - n) \in Nat
        OBVIOUS
      <3>4. left' + (MaxDynamicSteps - injected') \in Nat
        BY <3>1, <3>3, Zenon
      <3> QED
        BY <3>2, <3>4, Zenon
    <2> QED
      BY <2>1, <2>2, BudgetAssumption
  <1> QED
    BY <1>1, <1>2, MoldsPass, CountedInvariant, PTL DEF BudgetSpec

LEMMA BudgetPasses ==
  Counted /\ Budgets /\ Budgets' /\ [BudgetNext]_budgetVars => [Timed => Spent \/ HostWaits]_budgetVars
  <1> SUFFICES ASSUME Counted, Budgets, Budgets', BudgetNext, Timed
               PROVE  Spent \/ HostWaits \/ UNCHANGED budgetVars
    OBVIOUS
  <1>1. /\ MaxDynamicSteps \in Nat /\ left \in Nat /\ pending \in Nat /\ injected \in 0 .. MaxDynamicSteps
        /\ worked \in BOOLEAN /\ phase \in {"start", "run", "absorb"} \cup Ended
    BY BudgetAssumption DEF Counted
  <1>2. policy.duration \in Nat /\ computed \in 0 .. policy.duration
    BY PolicyType DEF Budgets
  <1>3. ASSUME phase \notin Ended PROVE BudgetLeft \in Nat \ {0}
    <2>1. MoldsLeft \in Nat /\ ToSuspend \in {0, 1} /\ StepsOfMold \in {1, 2, 3}
      BY <1>1, <1>3 DEF MoldsLeft, ToSuspend, StepsOfMold
    <2> QED
      BY <1>2, <1>3, <2>1 DEF BudgetLeft
  <1>4. ASSUME phase \notin Ended, phase' \in Ended PROVE Spent
    BY <1>3, <1>4 DEF Spent, BudgetLeft
  <1>5. MoldsLeft \in Nat
    BY <1>1 DEF MoldsLeft
  <1>6. CASE StartTooLate \/ FeedExpires \/ QuotaExceeded \/ MoldFails \/ CapExceeded
    BY <1>4, <1>6 DEF StartTooLate, FeedExpires, QuotaExceeded, MoldFails, CapExceeded, Suspends, Ended
  <1>7. CASE StartMold
    <2>1. /\ phase = "start" /\ phase' = "run" /\ MoldsLeft' = MoldsLeft
          /\ policy' = policy /\ computed' = computed /\ worked' = FALSE
      BY <1>7 DEF StartMold, MoldsLeft
    <2>2. ToSuspend = 0 /\ ToSuspend' = 0 /\ StepsOfMold = 3 /\ StepsOfMold' = 2 /\ phase \notin Ended /\ phase' \notin Ended
      BY <2>1 DEF ToSuspend, StepsOfMold, Ended
    <2> QED
      BY <1>2, <1>5, <2>1, <2>2 DEF Spent, BudgetLeft
  <1>8. CASE Compute
    <2>1. /\ phase = "run" /\ phase' = "run" /\ MoldsLeft' = MoldsLeft
          /\ policy' = policy /\ computed' = computed + 1
      BY <1>8 DEF Compute, MoldsLeft
    <2>2. /\ ToSuspend \in {0, 1} /\ ToSuspend' \in {0, 1} /\ StepsOfMold = 2 /\ StepsOfMold' = 2
          /\ phase \notin Ended /\ phase' \notin Ended
      BY <2>1 DEF ToSuspend, StepsOfMold, Ended
    <2> QED
      BY <1>2, <1>5, <2>1, <2>2 DEF Spent, BudgetLeft
  <1>9. ASSUME NEW n \in {0, 1}, Suspend(n) PROVE Spent
    <2>1. /\ phase = "run" /\ phase' = "run" /\ MoldsLeft' = MoldsLeft /\ worked /\ worked' = FALSE
          /\ policy' = policy /\ computed' = computed
      BY <1>9 DEF Suspend, Suspends, MoldsLeft
    <2>2. /\ ToSuspend = 1 /\ ToSuspend' = 0 /\ StepsOfMold = 2 /\ StepsOfMold' = 2
          /\ phase \notin Ended /\ phase' \notin Ended
      BY <2>1 DEF ToSuspend, StepsOfMold, Ended
    <2> QED
      BY <1>2, <1>5, <2>1, <2>2 DEF Spent, BudgetLeft
  <1>10. CASE HostWait
    <2>1. /\ phase = "run" /\ phase' = "run" /\ MoldsLeft' = MoldsLeft /\ worked' = worked
          /\ policy' = policy /\ computed' = computed
      BY <1>10 DEF HostWait, MoldsLeft
    <2>2. ToSuspend' = ToSuspend /\ StepsOfMold' = StepsOfMold
      BY <2>1 DEF ToSuspend, StepsOfMold
    <2> QED
      BY <2>1, <2>2 DEF HostWaits, BudgetLeft
  <1>11. CASE MoldReturns
    <2>1. /\ phase = "run" /\ phase' = "absorb" /\ MoldsLeft' = MoldsLeft
          /\ policy' = policy /\ computed' = computed
      BY <1>11 DEF MoldReturns, MoldsLeft
    <2>2. /\ ToSuspend \in {0, 1} /\ ToSuspend' = 0 /\ StepsOfMold = 2 /\ StepsOfMold' = 1
          /\ phase \notin Ended /\ phase' \notin Ended
      BY <2>1 DEF ToSuspend, StepsOfMold, Ended
    <2> QED
      BY <1>2, <1>5, <2>1, <2>2 DEF Spent, BudgetLeft
  <1>12. CASE Absorb
    <2>1. CASE left + pending = 0
      BY <1>4, <1>12, <2>1 DEF Absorb, Ended
    <2>2. CASE left + pending # 0
      <3>1. /\ phase = "absorb" /\ phase' = "start" /\ policy' = policy /\ computed' = computed
            /\ left' = left + pending - 1 /\ injected' = injected + pending
        BY <1>12, <2>2 DEF Absorb, Count
      <3>2. MoldsLeft' = MoldsLeft - 1
        BY <1>1, <3>1 DEF MoldsLeft
      <3>3. /\ ToSuspend = 0 /\ ToSuspend' = 0 /\ StepsOfMold = 1 /\ StepsOfMold' = 3
            /\ phase \notin Ended /\ phase' \notin Ended
        BY <3>1 DEF ToSuspend, StepsOfMold, Ended
      <3> QED
        BY <1>2, <1>5, <3>1, <3>2, <3>3 DEF Spent, BudgetLeft
    <2> QED
      BY <2>1, <2>2
  <1> QED
    BY <1>6, <1>7, <1>8, <1>9, <1>10, <1>11, <1>12 DEF BudgetNext, RunStep, HostStep, Stopped

\* With a duration limit a chain winds down: every step but the host's waiting spends
\* something that is never given back, whatever the molds do (run_loop, execute_chain).
THEOREM LimitedChainWindsDown ==
  BudgetSpec => /\ [](Timed => BudgetLeft \in Nat)
                /\ [][Timed => Spent \/ HostWaits]_budgetVars
  <1>1. BudgetSpec => []Budgets
    BY InitBudgets, BudgetsInductive, PTL DEF BudgetSpec
  <1>2. Counted /\ Budgets => (Timed => BudgetLeft \in Nat)
    <2> SUFFICES ASSUME Counted, Budgets, Timed PROVE BudgetLeft \in Nat
      OBVIOUS
    <2>1. policy.duration \in Nat /\ computed \in 0 .. policy.duration
      BY PolicyType DEF Budgets
    <2>2. MoldsLeft \in Nat /\ ToSuspend \in {0, 1}
      BY BudgetAssumption DEF Counted, MoldsLeft, ToSuspend
    <2>3. phase \notin Ended => StepsOfMold \in {1, 2, 3}
      BY DEF Counted, StepsOfMold
    <2> QED
      BY <2>1, <2>2, <2>3 DEF BudgetLeft
  <1> QED
    BY <1>1, <1>2, BudgetPasses, CountedInvariant, PTL DEF BudgetSpec
=============================================================================
