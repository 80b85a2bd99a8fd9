------------------------------ MODULE Invocation ------------------------------
(***************************************************************************)
(* A `fimod shape` command line: what it asks for, when it is refused, and *)
(* which formats and output names follow from it (cmd/shape.rs and the     *)
(* format resolution of pipeline.rs).                                      *)
(*                                                                         *)
(* A name is <<directory, base>>.  The directory "http" makes a URL, "./"  *)
(* is another way to write ".".                                            *)
(***************************************************************************)
EXTENDS Naturals, Sequences, FiniteSets

CONSTANTS
  Bases,     \* last components of names
  Ext,       \* the format that the extension of a base stands for, or None
  None

\* The formats that the code tells apart; "bad" is no format's name.
Formats == {"json", "ndjson", "csv", "yaml", "http", "raw"}
Local == {".", "./", "d", "out"}
Names == (Local \cup {"http"}) \X Bases

ASSUME InvocationAssumption ==
  /\ Ext \in [Bases -> Formats \cup {None}] /\ None \notin Formats \cup Names

IsUrl(n) == n # None /\ n[1] = "http"
\* url_filename, and Path::join of a directory with a file name.
InCwd(n) == <<".", n[2]>>
Join(dir, n) == <<dir[2], n[2]>>

\* resolve_format
Resolve(explicit, n, fallback) ==
  IF explicit # None THEN explicit
  ELSE IF n # None /\ Ext[n[2]] # None THEN Ext[n[2]] ELSE fallback

----------------------------------------------------------------------------
\* The options, after clap.  `listed` is what the file of --input-list names.
\* `chain`: no script, the expression `data` alone, or molds with the defaults of
\* the first (input) and last (output) of them, `forced` by a "!=" directive.
\* `named`: whether all, some or none of the inputs carry a ":" alias.

Inputs(v) == IF v.listed # None THEN v.listed ELSE v.inputs
IsBatch(v) == Len(Inputs(v)) > 1
IsRaw(v) == v.outFormat = "raw"
\* The raw passthrough is before the slurp, and takes each input by itself.
IsMultiSlurp(v) == IsBatch(v) /\ v.slurp /\ ~IsRaw(v)
\* Inputs are taken one by one; stdin or nothing counts as one.
Items(v) == IF Inputs(v) = <<>> THEN 1 ELSE Len(Inputs(v))
Source(v, k) == IF Inputs(v) = <<>> THEN None ELSE Inputs(v)[k]

Effective(explicit, default, forced) ==
  IF forced \/ explicit = None THEN default ELSE explicit

InFormat(v) ==
  IF v.chain = "molds" THEN Effective(v.inFormat, v.defaultIn, v.forced) ELSE v.inFormat
OutFormat(v) ==
  IF v.chain = "molds" THEN Effective(v.outFormat, v.defaultOut, v.forced) ELSE v.outFormat

\* What is in the way of watching; the rest of --watch is the module Watch.
Unwatchable(v) ==
  \/ v.inPlace \/ v.noInput \/ v.listed # None \/ IsRaw(v)
  \/ Len(v.inputs) # 1 \/ \E k \in DOMAIN v.inputs : IsUrl(v.inputs[k])

\* validate_post_input_list; clap has refused -O with -o and with --in-place.
Inconsistent(v, OutIsFile) ==
  \/ v.noInput /\ (v.inPlace \/ Inputs(v) # <<>> \/ v.inFormat # None)
  \/ v.inPlace /\ (\/ Inputs(v) = <<>> \/ v.output # None
                   \/ \E k \in DOMAIN Inputs(v) : IsUrl(Inputs(v)[k]))
  \/ /\ IsBatch(v) /\ ~v.slurp /\ ~IsRaw(v) /\ ~v.inPlace
     /\ (v.output = None \/ OutIsFile)

\* run_raw_passthrough
RawRefused(v) ==
  IsRaw(v) /\ (v.chain # "none" \/ v.noInput \/ (IsBatch(v) /\ ~v.urlName))

\* run_shape_pipeline, before it reads anything
PipelineRefused(v, OutIsDir) ==
  /\ ~IsRaw(v)
  /\ \/ v.chain = "none"
     \/ IsMultiSlurp(v) /\ (v.inPlace \/ v.named = "some" \/ (v.output # None /\ OutIsDir))
     \/ ~IsBatch(v) /\ v.urlName /\ ~IsUrl(Source(v, 1))

Refused(v, OutIsFile, OutIsDir) ==
  \/ v.outFormat = "bad"
  \/ v.watch /\ Unwatchable(v)
  \/ v.listed = <<>>
  \/ Inconsistent(v, OutIsFile) \/ RawRefused(v) \/ PipelineRefused(v, OutIsDir)

\* The output that the command line names for input k; None is stdout.
Output(v, k) ==
  CASE IsMultiSlurp(v) -> v.output
    [] IsRaw(v) \/ ~IsBatch(v) ->
         IF v.inPlace /\ ~IsRaw(v) THEN Source(v, 1)
         ELSE IF v.urlName THEN InCwd(Source(v, k)) ELSE v.output
    [] OTHER -> IF v.inPlace THEN Source(v, k) ELSE Join(v.output, Source(v, k))

----------------------------------------------------------------------------
\* The formats of one input, at each of the places that determine them

\* read_input_to_value, run_pipeline_core; `served` is what the Content-Type says.
ReadFormat(v, n, served) ==
  IF v.noInput THEN "json"
  ELSE IF InFormat(v) # None THEN InFormat(v)
  ELSE IF IsUrl(n) /\ served # None THEN served ELSE Resolve(None, n, "json")

Fallback(v, read) == IF v.noInput \/ read = "http" THEN "json" ELSE read

\* output_result, with what the mold has asked for in place of the command line's
WrittenFormat(v, asked, out, read) ==
  Resolve(IF asked # None THEN asked ELSE OutFormat(v), out, Fallback(v, read))

\* resolve_identity_formats, of the streaming path
\* Mutant: the streaming path goes by the input's extension first.
StreamFormatsByName(v, n, out) ==
  LET read == Resolve(None, n, "json")
  IN <<read, Resolve(OutFormat(v), out, Fallback(v, read))>>

StreamFormats(v, n, out) ==
  LET read == Resolve(InFormat(v), n, "json")
  IN <<read, Resolve(OutFormat(v), out, Fallback(v, read))>>

Streamable(formats) ==
  \/ formats[1] = "ndjson" /\ formats[2] = "json"
  \/ formats[1] = "json" /\ formats[2] \in {"ndjson", "csv"}
=============================================================================
