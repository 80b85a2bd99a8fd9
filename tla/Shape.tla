-------------------------------- MODULE Shape --------------------------------
(***************************************************************************)
(* One run of `fimod shape`, from the command line to the files it leaves: *)
(* raw passthrough, single inputs, the batch loop, multi-file slurp, and   *)
(* the two ways an output is written: fs::write, which truncates first,    *)
(* and for streamed identity conversions a temporary that is renamed.      *)
(* The process may fail at any call and die between any two.               *)
(***************************************************************************)
EXTENDS Invocation

CONSTANTS
  Invocations,  \* command lines
  Worlds,       \* what the disk may hold at the start
  Targets,      \* names a mold may give to set_output_file
  Requests,     \* formats a mold may ask for
  Codes,        \* exit codes a mold may set
  Converted     \* the mark of a result, after the names of what it was made from

VARIABLES
  inv, disk, pc,
  k,       \* the input that the run is at
  held,    \* what has been read
  asked,   \* what the mold asked for
  temp,    \* the temporary sibling of a streamed output
  status,  \* how the run ended: done, error, or an exit code
  log,     \* history: the outputs begun, and with what
  disk0, faulty  \* history: the disk at the start, and whether a write was cut short

vars == <<inv, disk, pc, k, held, asked, temp, status, log, disk0, faulty>>

Files == (Local \ {"./"}) \X Bases
File(what) == [kind |-> "file", to |-> None, what |-> what]
Absent == [kind |-> "absent", to |-> None, what |-> <<>>]
Dir == [kind |-> "dir", to |-> None, what |-> <<>>]
Torn == [kind |-> "torn", to |-> None, what |-> <<>>]
LinkTo(n) == [kind |-> "link", to |-> n, what |-> <<>>]

Entry(n) == IF n[1] = "./" THEN InCwd(n) ELSE n
\* Where opening n leads to: a link is followed.
NodeIn(d, n) == IF d[Entry(n)].kind = "link" THEN d[Entry(n)].to ELSE Entry(n)
Node(n) == NodeIn(disk, n)

\* What a file may hold: the names of what it was made from, then the mark of each
\* conversion.
What == Seq(Names \cup {None, Converted})
Nodes == [kind : {"file", "absent", "dir", "torn", "link"}, to : Files \cup {None},
          what : What]

\* What clap and the shell can give.  A batch is written to a directory of "."; what
\* is in it goes by its name, so it is no link.
WellFormed(v) ==
  /\ v.inputs \in Seq(Names) /\ (v.listed = None \/ v.listed \in Seq(Names))
  /\ v.output \in (Local \X Bases) \cup {None}
  /\ {v.inPlace, v.check, v.slurp, v.noInput, v.watch, v.urlName, v.debug} \subseteq BOOLEAN
  /\ v.chain \in {"none", "identity", "molds"}
  /\ v.urlName => v.output = None /\ ~v.inPlace
  /\ IsBatch(v) /\ ~v.slurp /\ v.output # None =>
       v.output[1] = "." /\ v.output[2] \in {"d", "out"}

\* Every file holds something of its own; a link leads to a file, in one step.
WellFilled(d) ==
  /\ d \in [Files -> Nodes]
  /\ \A n \in Files :
       /\ d[n].kind = "file" => d[n] = File(<<n>>)
       /\ d[n].kind = "link" => d[n].to \in Files /\ d[d[n].to].kind # "link"

ASSUME ShapeAssumption ==
  /\ \A v \in Invocations : WellFormed(v)
  /\ \A d \in Worlds : WellFilled(d)
  /\ \A v \in Invocations, d \in Worlds :
       IsBatch(v) /\ ~v.slurp /\ v.output # None => d[v.output].kind # "link"
  /\ Targets \subseteq Local \X Bases
  /\ None \notin Codes
  /\ Codes \cap {"done", "error", "watching"} = {}

HasParent(e) == e[1] # "." => disk[<<".", e[1]>>].kind = "dir"

NothingAsked == [exit |-> None, format |-> None, file |-> None]
Here == Source(inv, k)
Dest == IF asked.file # None THEN asked.file ELSE Output(inv, k)
Looped == IsBatch(inv) /\ ~IsMultiSlurp(inv)
IsDirAt(n) == n # None /\ disk[Node(n)].kind = "dir"
IsOtherAt(n) == n # None /\ disk[Node(n)].kind \in {"file", "torn"}

\* What is read: the file's content, or the body behind a URL, or stdin.
Contents(n) == IF n = None \/ IsUrl(n) THEN <<n>> ELSE disk[Node(n)].what
Opens(n) == n # None /\ ~IsUrl(n) => disk[Node(n)].kind = "file"
\* http has no meaning for a file, nor in read_and_parse_for_slurp.
Parses(n) ==
  ~IsRaw(inv) =>
    /\ InFormat(inv) # "bad"
    /\ ~inv.noInput => /\ InFormat(inv) # "raw"
                       /\ InFormat(inv) = "http" => IsUrl(n) /\ ~IsMultiSlurp(inv)
Readable(n) == Opens(n) /\ Parses(n)
\* An alias that an earlier input of the slurp has taken.
TakenKey == IsMultiSlurp(inv) /\ inv.named = "all" /\ \E i \in 1 .. k - 1 : Source(inv, i)[2] = Here[2]

\* identity_streaming_is_disabled
SameFile(a, b) ==
  a # None /\ b # None /\ (a = b \/ (Node(a) = Node(b) /\ disk[Node(a)].kind # "absent"))

Streams ==
  /\ inv.chain = "identity" /\ ~inv.check /\ ~inv.debug /\ ~inv.slurp /\ ~inv.noInput
  /\ ~IsUrl(Here) /\ ~SameFile(Here, Output(inv, k))
  /\ Output(inv, k) # None => disk[Entry(Output(inv, k))].kind # "link"
  /\ Streamable(StreamFormats(inv, Here, Output(inv, k)))

----------------------------------------------------------------------------
Init ==
  /\ inv \in Invocations /\ disk \in Worlds /\ disk0 = disk
  /\ pc = "start" /\ k = 1 /\ held = <<>> /\ asked = NothingAsked
  /\ temp = Absent /\ status = None /\ log = <<>> /\ faulty = FALSE

End(s) == pc' = "end" /\ status' = s

Refuse ==
  /\ pc = "start" /\ Refused(inv, IsOtherAt(inv.output), IsDirAt(inv.output))
  /\ End("error")
  /\ UNCHANGED <<inv, disk, k, held, asked, temp, log, disk0, faulty>>

Start ==
  /\ pc = "start" /\ ~Refused(inv, IsOtherAt(inv.output), IsDirAt(inv.output))
  /\ IF inv.watch THEN End("watching")
     ELSE /\ pc' = IF Looped /\ ~IsRaw(inv) /\ inv.output # None THEN "mkdir" ELSE "read"
          /\ UNCHANGED status
  /\ UNCHANGED <<inv, disk, k, held, asked, temp, log, disk0, faulty>>

\* create_dir_all
MakeDir ==
  /\ pc = "mkdir"
  /\ disk' = [disk EXCEPT ![Node(inv.output)] = Dir]
  /\ pc' = "read"
  /\ UNCHANGED <<inv, k, held, asked, temp, status, log, disk0, faulty>>

\* A step that fails before it has touched an output: a file that cannot be read,
\* parsed, created or printed to, a mold that cannot be loaded or that raises.
GiveUp ==
  /\ pc \in {"mkdir", "read", "run", "write", "temp"}
  /\ End("error")
  /\ UNCHANGED <<inv, disk, k, held, asked, temp, log, disk0, faulty>>

\* The whole input is read and parsed.  A JSON input that the streaming path has
\* found not to be an array comes here too.
Read ==
  /\ pc = "read" /\ Readable(Here) /\ ~TakenKey
  /\ ~(inv.urlName /\ Here = None)
  /\ Streams => StreamFormats(inv, Here, Output(inv, k))[1] = "json"
  /\ held' = IF IsMultiSlurp(inv) THEN held \o Contents(Here) ELSE Contents(Here)
  /\ IF IsMultiSlurp(inv) /\ k < Items(inv) THEN k' = k + 1 /\ pc' = "read"
     ELSE /\ pc' = CASE IsRaw(inv) -> "write"
                     [] inv.chain = "identity" -> "decide"
                     [] OTHER -> "run"
          /\ k' = k
  /\ UNCHANGED <<inv, disk, asked, temp, status, log, disk0, faulty>>

OpenStream ==
  /\ pc = "read" /\ Readable(Here) /\ Streams
  /\ held' = Contents(Here)
  /\ pc' = IF Output(inv, k) = None THEN "write" ELSE "temp"
  /\ UNCHANGED <<inv, disk, k, asked, temp, status, log, disk0, faulty>>

\* Mutant: the file to change in place is opened for writing before the molds run.
RunMoldsOnOpenFile ==
  /\ pc = "run"
  /\ disk' = IF inv.inPlace THEN [disk EXCEPT ![Node(Here)] = Torn] ELSE disk
  /\ pc' = "decide"
  /\ UNCHANGED <<inv, k, held, asked, temp, status, log, disk0, faulty>>

RunMolds ==
  /\ pc = "run"
  /\ \E exit \in Codes \cup {None}, format \in Requests \cup {None}, file \in Targets \cup {None} :
       asked' = [exit |-> exit, format |-> format, file |-> file]
  /\ pc' = "decide"
  /\ UNCHANGED <<inv, disk, k, held, temp, status, log, disk0, faulty>>

----------------------------------------------------------------------------
\* What becomes of the value

AsksRaw == asked.format = "raw" /\ ~IsMultiSlurp(inv)

\* set_output_format("raw") comes before --check.
DecideRaw ==
  /\ pc = "decide" /\ AsksRaw
  /\ IF IsUrl(Here) /\ InFormat(inv) = "http" THEN pc' = "write" /\ UNCHANGED status
     ELSE End("error")
  /\ UNCHANGED <<inv, disk, k, held, asked, temp, log, disk0, faulty>>

\* Mutant: a mold's exit code lets the output through.
DecideCheckUnlessExit ==
  /\ pc = "decide" /\ inv.check /\ ~AsksRaw
  /\ IF asked.exit # None THEN pc' = "write" /\ UNCHANGED status
     ELSE \E code \in {"0", "1"} : End(code)
  /\ UNCHANGED <<inv, disk, k, held, asked, temp, log, disk0, faulty>>

DecideCheck ==
  /\ pc = "decide" /\ inv.check /\ ~AsksRaw
  /\ IF asked.format = "bad" /\ ~IsMultiSlurp(inv) THEN End("error")
     ELSE IF asked.exit # None THEN End(asked.exit)
     ELSE \E code \in {"0", "1"} : End(code)
  /\ UNCHANGED <<inv, disk, k, held, asked, temp, log, disk0, faulty>>

DecideWrite ==
  /\ pc = "decide" /\ ~inv.check /\ ~AsksRaw
  /\ IF WrittenFormat(inv, asked.format, Dest,
                      IF IsMultiSlurp(inv) THEN "json" ELSE ReadFormat(inv, Here, None))
          \in {"http", "raw", "bad"}
     THEN End("error") ELSE pc' = "write" /\ UNCHANGED status
  /\ UNCHANGED <<inv, disk, k, held, asked, temp, log, disk0, faulty>>

Result == IF IsRaw(inv) \/ AsksRaw THEN held ELSE Append(held, Converted)
Begun(node) == Append(log, [item |-> k, node |-> node, what |-> Result, raw |-> AsksRaw])

\* Mutant: the loop leaves out the input behind one that is written.
OnwardByTwo ==
  /\ IF asked.exit # None THEN End(asked.exit) /\ UNCHANGED <<k, asked>>
     ELSE IF Looped /\ k + 1 < Items(inv)
     THEN pc' = "read" /\ k' = k + 2 /\ asked' = NothingAsked /\ UNCHANGED status
     ELSE End("done") /\ UNCHANGED <<k, asked>>
  /\ UNCHANGED <<inv, held, disk0, faulty>>

\* The batch loop goes on; an exit code, 0 too, ends it.
Onward ==
  /\ IF asked.exit # None THEN End(asked.exit) /\ UNCHANGED <<k, asked>>
     ELSE IF Looped /\ k < Items(inv)
     THEN pc' = "read" /\ k' = k + 1 /\ asked' = NothingAsked /\ UNCHANGED status
     ELSE End("done") /\ UNCHANGED <<k, asked>>
  /\ UNCHANGED <<inv, held, disk0, faulty>>

Emit ==
  /\ pc = "write" /\ Dest = None
  /\ log' = Begun(None)
  /\ Onward
  /\ UNCHANGED <<disk, temp>>

\* fs::write opens the file with truncation, and then writes it.
Truncate ==
  /\ pc = "write" /\ Dest # None /\ HasParent(Node(Dest)) /\ ~IsDirAt(Dest)
  /\ disk' = [disk EXCEPT ![Node(Dest)] = Torn]
  /\ log' = Begun(Node(Dest))
  /\ pc' = "writing"
  /\ UNCHANGED <<inv, k, held, asked, temp, status, disk0, faulty>>

FinishWrite ==
  /\ pc = "writing"
  /\ disk' = [disk EXCEPT ![Node(Dest)] = File(Result)]
  /\ Onward
  /\ UNCHANGED <<temp, log>>

WriteFails ==
  /\ pc = "writing" /\ End("error")
  /\ faulty' = TRUE
  /\ UNCHANGED <<inv, disk, k, held, asked, temp, log, disk0>>

\* Mutant: the streamed output is opened itself.
MakeNoTemp ==
  /\ pc = "temp" /\ HasParent(Entry(Dest))
  /\ temp' = Torn
  /\ disk' = [disk EXCEPT ![Node(Dest)] = Torn]
  /\ log' = Begun(Entry(Dest))
  /\ pc' = "fill"
  /\ UNCHANGED <<inv, k, held, asked, status, disk0, faulty>>

\* write_stream_output_file: a new file beside the output,
MakeTemp ==
  /\ pc = "temp" /\ HasParent(Entry(Dest))
  /\ temp' = Torn
  /\ log' = Begun(Entry(Dest))
  /\ pc' = "fill"
  /\ UNCHANGED <<inv, disk, k, held, asked, status, disk0, faulty>>

\* the conversion, item by item, into it,
Fill ==
  /\ pc = "fill"
  /\ temp' = File(Result)
  /\ pc' = "install"
  /\ UNCHANGED <<inv, disk, k, held, asked, status, log, disk0, faulty>>

\* and a rename, which replaces whatever has the output's name.
Install ==
  /\ pc = "install" /\ disk[Entry(Dest)].kind # "dir"
  /\ disk' = [disk EXCEPT ![Entry(Dest)] = temp]
  /\ temp' = Absent
  /\ Onward
  /\ UNCHANGED log

\* A value that does not parse in mid-stream, or a rename refused: the temporary goes.
StreamFails ==
  /\ pc \in {"fill", "install"} /\ End("error")
  /\ temp' = Absent
  /\ UNCHANGED <<inv, disk, k, held, asked, log, disk0, faulty>>

Die ==
  /\ pc \notin {"end", "dead"}
  /\ pc' = "dead"
  /\ faulty' = (faulty \/ pc = "writing")
  /\ UNCHANGED <<inv, disk, k, held, asked, temp, status, log, disk0>>

Next ==
  \/ Refuse \/ Start \/ MakeDir \/ GiveUp \/ Read \/ OpenStream \/ RunMolds
  \/ DecideRaw \/ DecideCheck \/ DecideWrite \/ Emit
  \/ Truncate \/ FinishWrite \/ WriteFails
  \/ MakeTemp \/ Fill \/ Install \/ StreamFails \/ Die

Spec == Init /\ [][Next]_vars
----------------------------------------------------------------------------
\* Properties

\* By its command line input i streams to a regular file.
StreamsToFile(i) ==
  LET n == Source(inv, i)
      out == Output(inv, i)
  IN /\ inv.chain = "identity" /\ ~inv.debug /\ ~inv.slurp /\ ~inv.noInput
     /\ out # None /\ StreamFormats(inv, n, out) = <<"ndjson", "json">>
     /\ disk0[Entry(out)].kind \in {"file", "absent"}
     /\ ~IsUrl(n) /\ (n # None => NodeIn(disk0, n) # Entry(out))

Writes(e) == {j \in DOMAIN log : log[j].node = e}

\* A streamed output is at every moment, a crash included, what it was or a complete result
\* ("written through a temporary sibling and replaced only after the complete input
\* succeeds", docs/reference/formats.md:55-57); symbolic links stay links; and a
\* temporary is left only by a process that died (pipeline.rs:1012-1045).
StreamedWhole ==
  /\ \A j \in DOMAIN log : LET e == log[j].node IN
       e # None /\ (\A i \in Writes(e) : StreamsToFile(log[i].item))
         => disk[e] = disk0[e] \/ \E i \in Writes(e) : disk[e] = File(log[i].what)
  /\ \A n \in Files : disk0[n].kind = "link" => disk[n] = disk0[n]
  /\ pc = "end" => temp = Absent

\* What the command line, or a mold, names for output.
NamedForOutput(e) ==
  \/ ~inv.inPlace /\ \E i \in 1 .. Items(inv) : Output(inv, i) # None /\ NodeIn(disk0, Output(inv, i)) = e
  \/ inv.chain = "molds" /\ \E n \in Targets : NodeIn(disk0, n) = e

\* An input is never lost: it keeps its content, unless it is named for output; in
\* place it is replaced by a result made from it, and short of a write that is cut off
\* no failure, of this input or of another, leaves it damaged (shape.rs:547, pipeline.rs:1391).
InputsSurvive ==
  IF log = <<>> THEN \A n \in Files : disk0[n].kind = "file" => disk[n] = disk0[n]
  ELSE
    \A i \in DOMAIN Inputs(inv) :
      LET n == Inputs(inv)[i]
          e == NodeIn(disk0, n)
      IN ~IsUrl(n) /\ disk0[e].kind = "file" /\ ~NamedForOutput(e) =>
           \/ disk[e] = disk0[e]
           \/ inv.inPlace /\ \E m \in 1 .. Items(inv) :
                disk[e] = File(disk0[e].what \o [j \in 1 .. m |-> Converted])
           \/ inv.inPlace /\ disk[e] = Torn /\ (pc = "writing" \/ faulty)

\* With --check no output is begun, to stdout ("No stdout", cli-reference.md:30) or to a
\* file, even where a mold sets an exit code or an output file, and no file changes: but
\* a batch makes the directory of its outputs all the same (shape.rs:541-544), and what
\* a mold makes raw by set_output_format("raw") is written (pipeline.rs:1301), as is
\* everything under --output-format raw (shape.rs:110).
CheckWritesNothing ==
  inv.check /\ ~IsRaw(inv) =>
    /\ \A j \in DOMAIN log : log[j].raw
    /\ \A n \in Files :
         \/ disk[n] = disk0[n]
         \/ \E j \in DOMAIN log : log[j].node = n
         \/ Looped /\ n = inv.output /\ disk0[n].kind \in {"absent", "dir"} /\ disk[n] = Dir

\* A run that ends well, with or without an exit code of a mold, has delivered every input up
\* to the one it stopped at, each from its own content, and the files hold what was
\* delivered to them last (shape.rs:546-598, pipeline.rs:1314-1343).
DoneMeansWritten ==
  pc = "end" /\ ~inv.check /\ status \in Codes \cup {"done"} =>
    /\ status = "done" => k = Items(inv)
    /\ {log[j].item : j \in DOMAIN log} = IF IsMultiSlurp(inv) THEN {k} ELSE 1 .. k
    /\ \A j \in DOMAIN log : LET e == log[j].node IN
         e # None /\ (\A i \in Writes(e) : i <= j) => disk[e] = File(log[j].what)
    /\ ~IsMultiSlurp(inv) => \A j \in DOMAIN log :
         LET n == Source(inv, log[j].item)
         IN (IF n = None \/ IsUrl(n) THEN n ELSE NodeIn(disk0, n)) = log[j].what[1]
            \/ (n # None /\ ~IsUrl(n) /\ Writes(NodeIn(disk0, n)) # {})

\* The places that determine a format agree: what the streaming path takes an input
\* and an output for is what the buffered path does (pipeline.rs:844-861, :565-575, :1360-1365),
\* whatever the command line and the molds' defaults say.
OneOutputFormat ==
  \A n \in {Source(inv, i) : i \in 1 .. Items(inv)}, o \in {None, inv.output} \cup Targets :
    ~inv.noInput /\ (n = None \/ ~IsUrl(n)) =>
      LET read == ReadFormat(inv, n, None)
      IN StreamFormats(inv, n, o) = <<read, WrittenFormat(inv, None, o, read)>>
=============================================================================
