-------------------------------- MODULE Watch --------------------------------
(***************************************************************************)
(* `fimod shape --watch` (watch.rs): one thread that runs the pipeline,    *)
(* waits for a filesystem event, lets a burst of them pass, and runs again *)
(* when a watched file is no longer what its snapshot says; and an editor  *)
(* that changes, removes and recreates the files between any two of those  *)
(* steps.  A file is what it holds: every change gives it a new stamp (the *)
(* length and modification time that FileSnapshot compares), or None when  *)
(* there is no file.  The first component of a stamp numbers the editor's  *)
(* changes, the second tells apart what the program itself writes.         *)
(***************************************************************************)
EXTENDS Naturals, FiniteSets

CONSTANTS
  Molds,     \* the local mold files of -m
  Input,     \* the file of -i
  MaxEdits,  \* bound: changes the editor makes
  MaxErrors, \* bound: errors the event source reports
  MaxPending,\* bound: events not received; one more merges with those
  Beside, Apart, \* -o in a watched directory, and outside of them
  None, Failed

ASSUME WatchAssumption ==
  /\ IsFiniteSet(Molds) /\ MaxEdits \in Nat /\ MaxErrors \in Nat /\ MaxPending \in Nat \ {0}
  /\ Input \notin Molds
  /\ {Beside, Apart} \cap (Molds \cup {Input}) = {}
  /\ None # Failed /\ {None, Failed} \cap ((0 .. MaxEdits) \X {0, 1}) = {}

Files == Molds \cup {Input}
Stamps == (0 .. MaxEdits) \X {0, 1}

VARIABLES
  disk,      \* what each file holds
  output,    \* where -o points: Beside, Apart, or the input itself
  edits, errors,
  pc,        \* where the watching thread is
  subscribed,\* the parent directories are watched
  watched,   \* targets.files: the files whose snapshots are compared
  snapshots, \* as of the run in progress, or of the latest one
  fresh,     \* the snapshots being taken, file by file
  read,      \* what the run in progress has read
  ran,       \* what the latest run ran on: the files' stamps, or Failed
  pending    \* events raised and not received yet

editor == <<output, edits, errors>>
targets == <<subscribed, watched, snapshots, fresh>>
vars == <<disk, editor, pc, targets, read, ran, pending>>

Nothing == [f \in {} |-> None]

\* The directories' events: a change, but also every file the program opens.
Event == pending' = IF subscribed /\ pending < MaxPending THEN pending + 1 ELSE pending

----------------------------------------------------------------------------
\* Start

\* run_watch refuses a missing input; collect_watch_files leaves out the molds
\* that are not there.
Start ==
  /\ pc = "start"
  /\ \/ disk[Input] = None /\ pc' = "stopped" /\ UNCHANGED watched
     \/ /\ disk[Input] # None /\ pc' = "subscribe"
        /\ watched' = {f \in Files : f = Input \/ disk[f] # None}
  /\ UNCHANGED <<disk, editor, subscribed, snapshots, fresh, read, ran, pending>>

\* watcher.watch on every parent directory, before the first snapshots.
Subscribe ==
  /\ pc = "subscribe" /\ pc' = "stat"
  /\ subscribed' = TRUE
  /\ UNCHANGED <<disk, editor, watched, snapshots, fresh, read, ran, pending>>

----------------------------------------------------------------------------
\* Snapshots

\* FileSnapshot::from_path, one file after the other.
Stat(f) ==
  /\ pc = "stat" /\ f \in watched \ DOMAIN fresh
  /\ fresh' = [g \in DOMAIN fresh \cup {f} |-> IF g = f THEN disk[f] ELSE fresh[g]]
  /\ UNCHANGED <<disk, editor, pc, subscribed, watched, snapshots, read, ran, pending>>

\* Mutant: every event is a reason to run.
CompareNothing ==
  /\ pc = "stat" /\ DOMAIN fresh = watched
  /\ snapshots' = fresh /\ fresh' = Nothing /\ pc' = "run"
  /\ UNCHANGED <<disk, editor, subscribed, watched, read, ran, pending>>

\* The new snapshots are those of the files that the next run will read.
Compare ==
  /\ pc = "stat" /\ DOMAIN fresh = watched
  /\ snapshots' = fresh /\ fresh' = Nothing
  /\ pc' = IF fresh = snapshots THEN "waiting" ELSE "run"
  /\ UNCHANGED <<disk, editor, subscribed, watched, read, ran, pending>>

----------------------------------------------------------------------------
\* A run: build_scripts reads the molds, then the input is read and written.

\* The molds come before the input.
Due(f) == f \in Files \ DOMAIN read /\ (f = Input => Molds \subseteq DOMAIN read)

Read(f) ==
  /\ pc = "run" /\ Due(f) /\ disk[f] # None
  /\ read' = [g \in DOMAIN read \cup {f} |-> IF g = f THEN disk[f] ELSE read[g]]
  /\ Event
  /\ UNCHANGED <<disk, editor, pc, targets, ran>>

\* A missing file fails the run, and the loop goes on.
Missing(f) ==
  /\ pc = "run" /\ Due(f) /\ disk[f] = None
  /\ ran' = Failed /\ read' = Nothing /\ pc' = "waiting"
  /\ UNCHANGED <<disk, editor, targets, pending>>

\* What the program writes over the input is a new content of it.
Overwritten(s) == IF s = None THEN <<edits, 1>> ELSE <<s[1], 1 - s[2]>>

\* Mutant: the snapshots are taken when the run is over.
FinishThenSnapshot ==
  /\ pc = "run" /\ DOMAIN read = Files
  /\ ran' = read /\ read' = Nothing /\ pc' = "waiting"
  /\ snapshots' = [f \in watched |-> disk[f]]
  /\ UNCHANGED <<disk, editor, subscribed, watched, fresh, pending>>

\* The output is written, or the mold fails or leaves it to --check.
Finish ==
  /\ pc = "run" /\ DOMAIN read = Files
  /\ ran' = read /\ read' = Nothing /\ pc' = "waiting"
  /\ \/ /\ output = Input /\ Event
        /\ disk' = [disk EXCEPT ![Input] = Overwritten(disk[Input])]
     \/ output = Beside /\ Event /\ UNCHANGED disk
     \/ UNCHANGED <<disk, pending>>
  /\ UNCHANGED <<editor, targets>>

----------------------------------------------------------------------------
\* Waiting

\* The first event of a burst opens the window.
Receive ==
  /\ pc = "waiting" /\ pending > 0
  /\ pending' = pending - 1 /\ pc' = "draining"
  /\ UNCHANGED <<disk, editor, targets, read, ran>>

\* An error of the event source is passed over without a comparison.
ReceiveError ==
  /\ pc = "waiting" /\ errors > 0
  /\ errors' = errors - 1
  /\ UNCHANGED <<disk, output, edits, pc, targets, read, ran, pending>>

\* drain_quiet_period: what arrives within the window is dropped unread.
Absorb ==
  /\ pc = "draining" /\ pending > 0
  /\ pending' = pending - 1
  /\ UNCHANGED <<disk, editor, pc, targets, read, ran>>

\* The window ends with the clock, whatever is still on its way.
Elapse ==
  /\ pc = "draining" /\ pc' = "stat"
  /\ UNCHANGED <<disk, editor, targets, read, ran, pending>>

----------------------------------------------------------------------------
\* The editor

\* A write, a truncation or a rename over f: each is a change of its own.
Edit(f) ==
  /\ edits < MaxEdits /\ edits' = edits + 1
  /\ disk' = [disk EXCEPT ![f] = <<edits + 1, 0>>]
  /\ Event
  /\ UNCHANGED <<output, errors, pc, targets, read, ran>>

Remove(f) ==
  /\ edits < MaxEdits /\ disk[f] # None /\ edits' = edits + 1
  /\ disk' = [disk EXCEPT ![f] = None]
  /\ Event
  /\ UNCHANGED <<output, errors, pc, targets, read, ran>>

----------------------------------------------------------------------------
Init ==
  /\ disk \in [Files -> {None, <<0, 0>>}]
  /\ output \in {Beside, Apart, Input}
  /\ edits = 0 /\ errors \in 0 .. MaxErrors
  /\ pc = "start" /\ subscribed = FALSE /\ watched = {}
  /\ snapshots = Nothing /\ fresh = Nothing
  /\ read = Nothing /\ ran = None /\ pending = 0

Thread ==
  \/ Start \/ Subscribe \/ Compare \/ Finish \/ Receive \/ Absorb \/ Elapse
  \/ \E f \in Files : Stat(f) \/ Read(f) \/ Missing(f)

Editor == \E f \in Files : Edit(f) \/ Remove(f)

Next == Thread \/ Editor \/ ReceiveError

\* The thread is never stopped, and a run ends.
Fairness == WF_vars(Thread)

Spec == Init /\ [][Next]_vars /\ Fairness

----------------------------------------------------------------------------
\* Properties

AtRest == pc = "waiting" /\ pending = 0

\* The latest run ran on the files as they are.
Current == (\A f \in Files : disk[f] # None) => ran = disk

\* No change is lost: with no event left to receive, and no file missing, the
\* latest run ran on the files as they are now.  It holds because the directories
\* are watched before the first snapshots, and the snapshots are taken before the
\* run that reads the files (watch.rs:83, :114), so a later change is still to be
\* noticed.  A file that came after the snapshot and left after the run is not
\* missed in this way: it is gone in both snapshots.
NoChangeLost == AtRest /\ watched = Files => Current

\* The program's own reads and writes do not keep it running: once the editor is
\* done the loop comes to rest, unless -o is the file it watches (watch.rs:99-102).
ComesToRest == <>[](AtRest \/ pc = "stopped" \/ output = Input)
=============================================================================
