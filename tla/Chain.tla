------------------------------- MODULE Chain -------------------------------
(***************************************************************************)
(* The mold chain of src/pipeline.rs (execute_chain) together with the     *)
(* `pipeline` API a running mold calls (src/engine.rs): introspection      *)
(* handles, Step.set on the current and on future steps, insert_next,      *)
(* append, and the global exit and format functions.                       *)
(*                                                                         *)
(* One mold runs at a time.  Its host calls are actions of their own, then *)
(* it returns, its requests are absorbed, the steps it injected are        *)
(* resolved and placed one by one, and the chain ends or goes on.  Data is *)
(* abstracted to its provenance: the identities of the steps it has been   *)
(* through.  Indices are 1-based here and 0-based in the code.             *)
(***************************************************************************)
EXTENDS Integers, Sequences, FiniteSets, SequencesExt

CONSTANTS
  StaticSteps,      \* number of -m/-e steps of the command line
  MaxDynamicSteps,  \* MAX_DYNAMIC_PIPELINE_STEPS
  MaxHostCalls,     \* bound of the model: host calls over the whole chain
  Args,             \* args blocks a step can be given
  Codes,            \* exit codes
  Formats,          \* format names that can be parsed
  Raw,              \* the format name "raw"
  Files,            \* output paths
  Junk,             \* a value of the wrong type for its key
  None              \* no value

Keys == {"args", "exit", "output_format", "input_format", "output_file"}

\* A value that set() accepts for a future step: only `args` is type-checked.
Settable(key) ==
  CASE key = "args"          -> Args
    [] key = "exit"          -> Codes \cup {Junk}
    [] key = "output_format" -> Formats \cup {Raw, Junk}
    [] key = "input_format"  -> Formats \cup {Junk}
    [] key = "output_file"   -> Files \cup {Junk}

Index == 1..(StaticSteps + MaxDynamicSteps)
StepId == Nat \ {0}
Value == Args \cup Codes \cup Formats \cup Files \cup {Raw, Junk}
Step == [id : StepId, args : Args \cup {None}]

\* A queued mutation.  `to` is history: the step the mold's handle denoted.
Entry == [val : Value, to : StepId]
Mutation == [idx : Index, key : Keys, entry : Entry]
Pending == [op : {"next", "append"}, step : Step]
\* `format` is one slot for set_output_format and set_input_format.
Host == [exit : Codes \cup {None}, format : Formats \cup {Raw, None},
         file : Files \cup {None}, args : Args \cup {None},
         pending : Seq(Pending), queued : Seq(Mutation), total : Nat]
ExitEvent == [step : Index, own : BOOLEAN, code : Codes \cup {None}]

ASSUME ChainAssumption ==
  /\ StaticSteps \in Nat \ {0}
  /\ MaxDynamicSteps \in Nat
  /\ MaxHostCalls \in Nat
  /\ None \notin Args \cup Codes \cup Formats \cup {Raw, Junk} \cup Files
  /\ Raw \notin Formats
  /\ Junk \notin Args \cup Codes \cup Formats \cup Files \cup {Raw}
  /\ None \notin Entry

VARIABLES
  steps,      \* the chain, steps already run included
  i,          \* the current step
  phase,      \* "enter", "script", "inject", "done" or "failed"
  data,       \* provenance of the data handed to the current step
  mutations,  \* queued mutations by absolute step index and key
  host,       \* the running mold's MoldContext
  insertAt,   \* where the next insert_next goes
  injected,   \* steps injected so far, all molds together
  lastExit,   \* exit code of the chain so far
  outcome,    \* what a finished chain returns beside its value
  calls,      \* host calls made (bounded by MaxHostCalls)
  exitLog,    \* history: every request for an exit code
  shifted     \* history: some insert_next pushed later steps back

history == <<exitLog, shifted>>
vars == <<steps, i, phase, data, mutations, host, insertAt, injected, lastExit,
          outcome, calls, exitLog, shifted>>

----------------------------------------------------------------------------
\* Helpers

NothingQueued == [key \in Keys |-> None]

FreshHost ==
  [exit |-> None, format |-> None, file |-> None, args |-> None,
   pending |-> <<>>, queued |-> <<>>, total |-> 0]

\* The value queued under a key, when it has the type the key wants.
QueuedValue(m, key) ==
  IF m[key] = None \/ m[key].val = Junk THEN None ELSE m[key].val

\* Fold a mold's mutations into the table: the last one for a key wins.
Absorb(table, queued) ==
  [j \in Index |-> [key \in Keys |->
     LET For(n) == queued[n].idx = j /\ queued[n].key = key
         last   == {n \in 1..Len(queued) :
                      For(n) /\ \A m \in n + 1..Len(queued) : ~For(m)}
     IN  IF last = {} THEN table[j][key] ELSE queued[CHOOSE n \in last : TRUE].entry]]

\* mutations.remove(&i): the current step's entries are spent.  Here and below, a
\* definition that precedes another one with the same parameters is a deviation
\* from it (here: the entries are kept); the runs show that it would be noticed.
ConsumeKept(table, j) == table
Consume(table, j) == [table EXCEPT ![j] = NothingQueued]

WithinCapOffByOne(n) == n <= MaxDynamicSteps + 1
WithinCap(n) == n <= MaxDynamicSteps

\* is_last is computed after the injected steps are in place.
IsLastAtEntry(k) == k = host.total
IsLast(k) == k = Len(steps)

\* Where an injected step goes: insert_next at the cursor, append at the end.
PlacedBeforeLast(ps) ==
  IF ps.op = "next" THEN InsertAt(steps, insertAt, ps.step)
                    ELSE InsertAt(steps, Len(steps), ps.step)
Placed(ps) ==
  IF ps.op = "next" THEN InsertAt(steps, insertAt, ps.step)
                    ELSE Append(steps, ps.step)

\* The cursor moves past each inserted step, so requests keep their order.
CursorFixed(ps) == insertAt
CursorAfter(ps) == IF ps.op = "next" THEN insertAt + 1 ELSE insertAt

\* The mold's own exit code overrides what was queued for its step.
ExitQueuedWins(own) == IF lastExit # None THEN lastExit ELSE own
ExitAfter(own) == IF own # None THEN own ELSE lastExit

\* History: a queued exit takes back what was queued for its step before; a
\* value that is no integer does only that.
WithQueuedExit(j, v) ==
  LET rest == [n \in 1..Len(exitLog) |->
                 IF exitLog[n].step = j /\ ~exitLog[n].own
                 THEN [exitLog[n] EXCEPT !.code = None] ELSE exitLog[n]]
  IN  Append(rest, [step |-> j, own |-> FALSE, code |-> IF v = Junk THEN None ELSE v])

----------------------------------------------------------------------------
\* Initial state: the steps build_scripts made from the command line.

Init ==
  /\ steps = [k \in 1..StaticSteps |-> [id |-> k, args |-> None]]
  /\ i = 1
  /\ phase = "enter"
  /\ data = <<>>
  /\ mutations = [j \in Index |-> NothingQueued]
  /\ host = FreshHost
  /\ insertAt = 2
  /\ injected = 0
  /\ lastExit = None
  /\ outcome = None
  /\ calls = 0
  /\ exitLog = <<>> /\ shifted = FALSE

----------------------------------------------------------------------------
\* The loop head: options of the step, with its queued mutations overlaid.

EnterStep ==
  LET m    == mutations[i]
      fmt  == QueuedValue(m, "output_format")
      args == QueuedValue(m, "args")
  IN  /\ phase = "enter"
      /\ phase' = "script"
      /\ host' = [FreshHost EXCEPT
                    !.args   = IF args # None THEN args ELSE steps[i].args,
                    !.format = fmt,
                    !.file   = QueuedValue(m, "output_file"),
                    !.total  = Len(steps)]
      /\ UNCHANGED <<steps, i, data, mutations, insertAt, injected, lastExit,
                     outcome, calls, history>>

----------------------------------------------------------------------------
\* Host calls of the running mold.

HostCall ==
  /\ phase = "script" /\ calls < MaxHostCalls
  /\ calls' = calls + 1
  /\ UNCHANGED <<steps, i, phase, data, mutations, insertAt, injected, lastExit,
                 outcome, shifted>>

\* set_exit(code), gk_fail() and current_step().set('exit', code).
SetExit(code) ==
  /\ HostCall
  /\ host' = [host EXCEPT !.exit = code]
  /\ exitLog' = Append(exitLog, [step |-> i, own |-> TRUE, code |-> code])

\* set_output_format, current_step().set('output_format'), and, but for "raw",
\* set_input_format and cast_input_format.
SetFormat(name) ==
  /\ HostCall
  /\ host' = [host EXCEPT !.format = name]
  /\ UNCHANGED exitLog

\* set_output_file(path) and current_step().set('output_file', path).
SetFile(path) ==
  /\ HostCall
  /\ host' = [host EXCEPT !.file = path]
  /\ UNCHANGED exitLog

\* step(j).set(key, v) on a step of the chain as it was when the mold began.
\* The current step's own input_format is queued too, and then never read.
SetQueued(j, key, v) ==
  /\ HostCall
  /\ j \in i..host.total
  /\ j > i \/ key = "input_format"
  /\ v \in Settable(key)
  /\ host' = [host EXCEPT !.queued =
                Append(@, [idx |-> j, key |-> key,
                           entry |-> [val |-> v, to |-> steps[j].id]])]
  /\ exitLog' = IF key = "exit" THEN WithQueuedExit(j, v) ELSE exitLog

\* pipeline.insert_next(Step.create(..)) and pipeline.append(Step.create(..)).
RequestStep(op, args) ==
  /\ HostCall
  /\ host' = [host EXCEPT !.pending =
                Append(@, [op |-> op,
                           step |-> [id |-> StaticSteps + injected + Len(@) + 1,
                                     args |-> args]])]
  /\ UNCHANGED exitLog

----------------------------------------------------------------------------
\* The mold ends.

Fail ==
  /\ phase' = "failed"
  /\ UNCHANGED <<steps, i, data, mutations, host, insertAt, injected, lastExit,
                 outcome, calls, history>>

\* A Python error, a refused host call or a sandbox limit ends the chain.
MoldFails == phase = "script" /\ Fail

CapExceeded ==
  /\ phase = "script"
  /\ ~WithinCap(injected + Len(host.pending))
  /\ Fail

MoldReturns ==
  LET merged == Absorb(mutations, host.queued)
      exit   == QueuedValue(merged[i], "exit")
  IN  /\ phase = "script"
      /\ WithinCap(injected + Len(host.pending))
      /\ phase' = "inject"
      /\ mutations' = Consume(merged, i)
      /\ lastExit' = IF exit # None THEN exit ELSE lastExit
      /\ injected' = injected + Len(host.pending)
      /\ insertAt' = i + 1
      /\ UNCHANGED <<steps, i, data, host, outcome, calls, history>>

----------------------------------------------------------------------------
\* Injection: each request is resolved to a mold and placed.

InjectStep ==
  LET ps == Head(host.pending)
  IN  /\ phase = "inject" /\ host.pending # <<>>
      /\ steps' = Placed(ps)
      /\ insertAt' = CursorAfter(ps)
      /\ host' = [host EXCEPT !.pending = Tail(@)]
      /\ shifted' = (shifted \/ (ps.op = "next" /\ insertAt <= Len(steps)))
      /\ UNCHANGED <<i, phase, data, mutations, injected, lastExit, outcome,
                     calls, exitLog>>

\* The mold named in a request cannot be found, fetched or read.
ResolveFails == phase = "inject" /\ host.pending # <<>> /\ Fail

----------------------------------------------------------------------------
\* The end of the step.

Settled == phase = "inject" /\ host.pending = <<>>

NextStep ==
  /\ phase' = "enter"
  /\ i' = i + 1
  /\ data' = Append(data, steps[i].id)
  /\ lastExit' = ExitAfter(host.exit)
  /\ UNCHANGED <<steps, mutations, host, insertAt, injected, outcome, calls,
                 exitLog, shifted>>

ThreadData ==
  /\ Settled /\ ~IsLast(i) /\ host.format = None
  /\ NextStep

Reparse ==
  /\ Settled /\ ~IsLast(i) /\ host.format # None
  /\ host.format # Raw
  /\ NextStep

\* "raw" before the final step, or text the format cannot parse.
ReparseFails == Settled /\ ~IsLast(i) /\ host.format # None /\ Fail

Return ==
  /\ Settled /\ IsLast(i)
  /\ phase' = "done"
  /\ data' = Append(data, steps[i].id)
  /\ lastExit' = ExitAfter(host.exit)
  /\ outcome' = [exit |-> ExitAfter(host.exit), file |-> host.file,
                 format |-> host.format]
  /\ UNCHANGED <<steps, i, mutations, host, insertAt, injected, calls, history>>

\* execute_chain has returned.
Ended == phase \in {"done", "failed"} /\ UNCHANGED vars

Next ==
  \/ EnterStep
  \/ \E c \in Codes : SetExit(c)
  \/ \E f \in Formats \cup {Raw} : SetFormat(f)
  \/ \E p \in Files : SetFile(p)
  \/ \E j \in Index, key \in Keys : \E v \in Settable(key) : SetQueued(j, key, v)
  \/ \E op \in {"next", "append"}, a \in Args \cup {None} : RequestStep(op, a)
  \/ MoldFails \/ CapExceeded \/ MoldReturns
  \/ InjectStep \/ ResolveFails
  \/ ThreadData \/ Reparse \/ ReparseFails \/ Return
  \/ Ended

Spec == Init /\ [][Next]_vars

----------------------------------------------------------------------------
\* Properties

\* Every variable keeps the shape the code gives it; in particular no step is
\* ever placed beyond StaticSteps + MaxDynamicSteps.
TypeOK ==
  /\ steps \in Seq(Step) /\ Len(steps) <= StaticSteps + MaxDynamicSteps
  /\ i \in 1..Len(steps)
  /\ phase \in {"enter", "script", "inject", "done", "failed"}
  /\ data \in Seq(StepId)
  /\ mutations \in [Index -> [Keys -> Entry \cup {None}]]
  /\ host \in Host
  /\ insertAt \in Nat
  /\ injected \in 0..MaxDynamicSteps
  /\ lastExit \in Codes \cup {None}
  /\ outcome \in [exit : Codes \cup {None}, file : Files \cup {None},
                  format : Formats \cup {Raw, None}] \cup {None}
  /\ calls \in 0..MaxHostCalls
  /\ exitLog \in Seq(ExitEvent)
  /\ shifted \in BOOLEAN

\* The data a step gets, and the value the chain returns, went through exactly
\* the steps before it in the chain, in order, each once: injecting steps behind
\* the loop index, or ending before an injected step ran, would break this
\* (pipeline.rs:294-332).
StepsInSeries ==
  /\ Len(data) = IF phase = "done" THEN Len(steps) ELSE i - 1
  /\ \A k \in 1..Len(data) : data[k] = steps[k].id

\* Injected steps are counted before any is placed, over all molds of the chain:
\* placed plus still pending never exceeds the cap (pipeline.rs:281-291).
InjectionBounded ==
  phase = "inject" =>
    /\ Len(steps) + Len(host.pending) = StaticSteps + injected
    /\ Len(steps) + Len(host.pending) <= StaticSteps + MaxDynamicSteps

\* A queued mutation waits at the index of a step that exists and has not begun
\* to run its successor: none is left behind for an index already passed, where a
\* HashMap keyed by index would keep it unseen for ever (pipeline.rs:183, 271).
MutationsOnlyAhead ==
  \A j \in Index : mutations[j] # NothingQueued =>
    /\ j <= Len(steps)
    /\ j >= i
    /\ phase \in {"inject", "done"} => j > i

\* A queued mutation is never delivered later in the chain than the step it was
\* meant for, and meets exactly that step unless an insert_next moved it: append
\* alone never misdirects a mutation (pipeline.rs:255-306).
StaleOnlyAfterInsert ==
  \A j \in Index, key \in Keys : mutations[j][key] # None =>
    \E k \in j..Len(steps) :
      /\ steps[k].id = mutations[j][key].to
      /\ k # j => shifted

\* The requests for an exit code that have not been taken back; which of two counts
\* less; and the code that the last of some of them asked for.
Asked == {n \in 1..Len(exitLog) : exitLog[n].code # None}
Earlier(m, n) ==
  \/ exitLog[m].step < exitLog[n].step
  \/ /\ exitLog[m].step = exitLog[n].step
     /\ \/ exitLog[n].own /\ ~exitLog[m].own
        \/ exitLog[n].own = exitLog[m].own /\ m < n
Latest(S, code) ==
  IF S = {} THEN code = None
  ELSE \E n \in S : code = exitLog[n].code /\ \A m \in S \ {n} : Earlier(m, n)

\* The exit code of a finished chain was asked for by or for the last step for
\* which any was asked; within that step its own request beats a queued one, and
\* of several equal ones the latest wins (pipeline.rs:270-279, 311-313).
ExitOfLatestStep == phase = "done" => Latest(Asked, outcome.exit)

\* What the theorems of ChainProofs need beside the properties above; together
\* they are inductive.

\* Values sit under keys they have the right type for.
WellKeyed ==
  /\ \A j \in Index, key \in Keys :
       mutations[j][key] # None => mutations[j][key].val \in Settable(key)
  /\ \A n \in 1..Len(host.queued) :
       host.queued[n].entry.val \in Settable(host.queued[n].key)

\* Every injected step is either in the chain or still pending.
StepsCounted ==
  /\ phase \in {"enter", "script", "done"} => Len(steps) = StaticSteps + injected
  /\ phase = "inject" => Len(steps) + Len(host.pending) = StaticSteps + injected

\* The insertion cursor stays ahead of the current step and within the chain.
CursorAhead == phase = "inject" => insertAt \in i + 1..Len(steps) + 1

\* A running mold's mutations are for steps of its snapshot of the chain.
QueuedAhead ==
  phase = "script" =>
    /\ host.total = Len(steps)
    /\ \A n \in 1..Len(host.queued) : host.queued[n].idx \in i..Len(steps)

\* Beside ChainInv, for StaleOnlyAfterInsert: while a mold runs its handles point
\* where they did when they were made.
QueuedAddressed ==
  phase = "script" =>
    \A n \in 1..Len(host.queued) :
      host.queued[n].entry.to = steps[host.queued[n].idx].id

\* For ExitOfLatestStep: the chain's exit code is what the requests ask for that have
\* had their turn; those queued for a step that is still to have it wait in the table;
\* those of the running mold, in its context.
Table == IF phase = "script" THEN Absorb(mutations, host.queued) ELSE mutations
QueuedFor(j) == {n \in Asked : ~exitLog[n].own /\ exitLog[n].step = j}
OwnAsked == {n \in Asked : exitLog[n].own /\ exitLog[n].step = i}
HadItsTurn ==
  {n \in Asked : \/ exitLog[n].step < i
                 \/ /\ exitLog[n].step = i
                    /\ phase = "done" \/ (phase = "inject" /\ ~exitLog[n].own)}

ExitsCounted ==
  phase # "failed" =>
    /\ \A m, n \in Asked :
         ~exitLog[m].own /\ ~exitLog[n].own /\ exitLog[m].step = exitLog[n].step => m = n
    /\ \A n \in Asked : exitLog[n].own =>
         exitLog[n].step <= i /\ (phase = "enter" => exitLog[n].step < i)
    /\ \A j \in Index : j > i \/ (j = i /\ phase \in {"enter", "script"}) =>
         Latest(QueuedFor(j), QueuedValue(Table[j], "exit"))
    /\ phase \in {"script", "inject"} => Latest(OwnAsked, host.exit)
    /\ Latest(HadItsTurn, lastExit)
    /\ phase = "done" => i = Len(steps) /\ outcome.exit = lastExit

ChainInv ==
  /\ TypeOK /\ WellKeyed /\ StepsCounted /\ CursorAhead /\ QueuedAhead
  /\ StepsInSeries /\ MutationsOnlyAhead

\* mold-scripting.md: a mutation of step(i) "is queued and applied just before
\* the target step runs".  The step a queued mutation waits for is the step the
\* mold addressed.
MutationMeetsItsTarget ==
  \A key \in Keys :
    mutations[i][key] # None => mutations[i][key].to = steps[i].id

----------------------------------------------------------------------------
\* The chain implements the series queue.  A step has run, and its requests have been
\* met, when the loop goes on to the next one or ends; while requests are being
\* placed, what is left to run is what was left when the mold returned: the step
\* itself and, between the insertions and the appended steps, those behind it.

Ids(from, to) == [k \in 1..to - from + 1 |-> steps[from + k - 1].id]

\* The first of the steps appended by this mold, when there are any.
AppendedFrom == insertAt + host.total - i

RanSoFar == IF phase = "failed" THEN <<>> ELSE data

StillToDo ==
  IF phase \in {"failed", "done"} THEN <<>>
  ELSE IF phase = "inject" THEN <<steps[i].id>> \o Ids(insertAt, AppendedFrom - 1)
  ELSE Ids(i, Len(steps))

Series == INSTANCE ChainSeries WITH
            ran <- RanSoFar, todo <- StillToDo,
            status <- IF phase \in {"done", "failed"} THEN phase ELSE "running"

\* The loop over absolute indices is a series queue (ChainSeries).
ImplementsSeries == Series!SeriesSpec
=============================================================================
