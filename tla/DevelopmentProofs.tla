-------------------------- MODULE DevelopmentProofs --------------------------
(***************************************************************************)
(* The two commands that run a mold again and again while it is being      *)
(* written.  Watch: no change is lost, for any number of molds, and        *)
(* however often and wherever in the loop the files change.  TestRunner:   *)
(* for any bases, extensions, metadata, molds and environments.            *)
(***************************************************************************)
EXTENDS Watch, TestRunner, FiniteSetTheorems, TLAPS

\* Part 1: watch mode.

Held == Stamps \cup {None}
Comparing == pc \in {"waiting", "draining", "stat"}

Shape ==
  /\ disk \in [Files -> Held] /\ edits \in 0 .. MaxEdits /\ pending \in 0 .. MaxPending
  /\ pc \in {"start", "stopped", "subscribe", "stat", "run", "waiting", "draining"}
  /\ subscribed \in BOOLEAN /\ (Comparing \/ pc = "run" => subscribed)
  /\ watched \subseteq Files /\ (pc \notin {"start", "stopped"} => Input \in watched)
  /\ DOMAIN fresh \subseteq watched /\ fresh \in [DOMAIN fresh -> Held]
  /\ DOMAIN read \subseteq Files /\ read \in [DOMAIN read -> Stamps]
  /\ DOMAIN snapshots \in {watched, {}} /\ snapshots \in [DOMAIN snapshots -> Held]
  /\ pc \in {"run", "waiting", "draining"} => DOMAIN snapshots = watched
  /\ pc # "run" => DOMAIN read = {}
  /\ pc # "stat" => DOMAIN fresh = {}
  /\ pc \in {"start", "subscribe"} => DOMAIN snapshots = {}

\* No stamp is from a later change than the latest.
Dated(s) == s # None => s[1] <= edits
Dates ==
  /\ \A f \in Files : Dated(disk[f])
  /\ \A f \in DOMAIN snapshots : Dated(snapshots[f])
  /\ \A f \in DOMAIN fresh : Dated(fresh[f])

\* A snapshot shows what f holds, or what it held before a change since.
Behind(s, f) ==
  \/ s \in {None, disk[f]}
  \/ disk[f] = None /\ s[1] < edits
  \/ disk[f] # None /\ s[1] < disk[f][1]

Order ==
  /\ \A f \in DOMAIN fresh : Behind(fresh[f], f)
  /\ pc = "run" => \A f \in watched : Behind(snapshots[f], f)

\* What the snapshots do not show is still to be announced.
Noticed ==
  \/ pending > 0
  \/ /\ pc \in {"waiting", "run"} => \A f \in watched : snapshots[f] = disk[f]
     /\ pc = "stat" => \A f \in DOMAIN fresh : fresh[f] = disk[f]

\* The snapshots show every file there, and as it is.
Shown == \A f \in Files : disk[f] # None /\ snapshots[f] = disk[f]

\* What is as the snapshots show it is what the run reads, and has run on.
Faithful ==
  DOMAIN snapshots = Files =>
    /\ pc = "run" => \A f \in DOMAIN read :
                       disk[f] # None /\ snapshots[f] = disk[f] => read[f] = disk[f]
    /\ Comparing /\ Shown => ran = disk

Watching == Shape /\ Dates /\ Order /\ Noticed /\ Faithful

USE WatchAssumption DEF Files, Stamps, Held, Comparing

LEMMA InitWatching == Init => Watching
  <1> SUFFICES ASSUME Init PROVE Watching
    OBVIOUS
  <1>1. DOMAIN Nothing = {} /\ Nothing \in [{} -> Held] /\ Nothing \in [{} -> Stamps]
    BY DEF Nothing
  <1>2. <<0, 0>> \in Stamps
    OBVIOUS
  <1>3. Shape
    <2>1. disk \in [Files -> Held]
      BY <1>2 DEF Init
    <2>2. /\ pc = "start" /\ edits = 0 /\ pending = 0 /\ subscribed = FALSE /\ watched = {}
          /\ fresh = Nothing /\ read = Nothing /\ snapshots = Nothing
      BY DEF Init
    <2>3. /\ DOMAIN fresh = {} /\ fresh \in [DOMAIN fresh -> Held]
          /\ DOMAIN read = {} /\ read \in [DOMAIN read -> Stamps]
          /\ DOMAIN snapshots = {} /\ snapshots \in [DOMAIN snapshots -> Held]
      BY <1>1, <2>2
    <2>4. subscribed \in BOOLEAN
      BY <2>2
    <2>5. edits \in 0 .. MaxEdits /\ pending \in 0 .. MaxPending
      BY <2>2
    <2> QED
      BY <2>1, <2>2, <2>3, <2>4, <2>5 DEF Shape
  <1>4. Dates
    BY <1>1, <1>2 DEF Init, Dates, Dated
  <1> QED
    BY <1>1, <1>3, <1>4 DEF Init, Watching, Order, Noticed, Faithful

LEMMA StartWatching == Watching /\ Start => Watching'
  BY DEF Start, Watching, Shape, Dates, Dated, Order, Behind, Noticed, Faithful, Shown, editor, targets

LEMMA SubscribeWatching == Watching /\ Subscribe => Watching'
  BY DEF Subscribe, Watching, Shape, Dates, Dated, Order, Behind, Noticed, Faithful, Shown, editor, targets

LEMMA StatWatching == ASSUME NEW f \in Files, Watching, Stat(f) PROVE Watching'
  <1>1. /\ pc = "stat" /\ f \in watched /\ DOMAIN fresh' = DOMAIN fresh \cup {f}
        /\ fresh' = [g \in DOMAIN fresh' |-> IF g = f THEN disk[f] ELSE fresh[g]]
        /\ UNCHANGED <<disk, output, edits, errors, pc, subscribed, watched, snapshots,
                      read, ran, pending>>
    BY DEF Stat, editor
  <1>2. disk[f] \in Held
    BY DEF Watching, Shape
  <1>3. Shape'
    BY <1>1, <1>2 DEF Watching, Shape
  <1>4. Dates'
    BY <1>1 DEF Watching, Dates, Dated
  <1>5. Order'
    BY <1>1 DEF Watching, Order, Behind
  <1>6. Noticed'
    BY <1>1 DEF Watching, Noticed
  <1>7. Faithful'
    BY <1>1 DEF Watching, Faithful, Shown
  <1> QED
    BY <1>3, <1>4, <1>5, <1>6, <1>7 DEF Watching

LEMMA CompareWatching == Watching /\ Compare => Watching'
  BY DEF Compare, Watching, Shape, Dates, Dated, Order, Behind, Noticed, Faithful, Shown, Nothing, editor, targets

LEMMA ReadWatching == ASSUME NEW f \in Files, Watching, Read(f) PROVE Watching'
  BY DEF Read, Due, Event, Watching, Shape, Dates, Dated, Order, Behind, Noticed, Faithful, Shown, editor, targets

LEMMA MissingWatching == ASSUME NEW f \in Files, Watching, Missing(f) PROVE Watching'
  BY DEF Missing, Due, Nothing, Watching, Shape, Dates, Dated, Order, Behind, Noticed, Faithful, Shown, editor, targets

LEMMA FinishWatching == Watching /\ Finish => Watching'
  <1> SUFFICES ASSUME Watching, Finish PROVE Watching'
    OBVIOUS
  <1>1. /\ pc = "run" /\ pc' = "waiting" /\ DOMAIN read = Files /\ ran' = read /\ read' = Nothing
        /\ UNCHANGED <<edits, subscribed, watched, snapshots, fresh>>
    BY DEF Finish, editor, targets
  <1>2. /\ pending' \in 0 .. MaxPending
        /\ disk' # disk => pending' > 0
        /\ pending' = pending \/ pending' > 0
    <2>1. pending \in 0 .. MaxPending /\ subscribed
      BY <1>1 DEF Watching, Shape
    <2> QED
      BY <2>1 DEF Finish, Event
  <1>3. /\ disk' \in [Files -> Held] /\ \A f \in Files : Dated(disk[f]) => Dated(disk'[f])
    <2>1. CASE disk' = disk
      BY <2>1 DEF Watching, Shape
    <2>2. CASE disk' = [disk EXCEPT ![Input] = Overwritten(disk[Input])]
      <3>1. disk \in [Files -> Held] /\ edits \in 0 .. MaxEdits
        BY DEF Watching, Shape
      <3>2. Overwritten(disk[Input]) \in Stamps /\ (Dated(disk[Input]) => Dated(Overwritten(disk[Input])))
        BY <3>1 DEF Overwritten, Dated
      <3> QED
        BY <2>2, <3>1, <3>2
    <2> QED
      BY <2>1, <2>2 DEF Finish
  <1>4. DOMAIN read' = {} /\ read' \in [DOMAIN read' -> Stamps]
    BY <1>1 DEF Nothing
  <1>5. Shape'
    BY <1>1, <1>2, <1>3, <1>4 DEF Watching, Shape
  <1>6. Dates'
    BY <1>1, <1>3 DEF Watching, Dates, Dated
  <1>7. Order'
    BY <1>1 DEF Watching, Shape, Order
  <1>8. Noticed'
    BY <1>1, <1>2 DEF Watching, Shape, Noticed
  \* No snapshot shows what is written over the input.
  <1>9. ASSUME NEW f \in watched, disk'[f] # None, snapshots[f] = disk'[f] PROVE disk'[f] = disk[f]
    <2>1. CASE disk' = disk
      BY <2>1
    <2>2. CASE disk' = [disk EXCEPT ![Input] = Overwritten(disk[Input])]
      <3>1. disk \in [Files -> Held] /\ f \in Files /\ edits \in 0 .. MaxEdits
        BY DEF Watching, Shape
      <3>2. Behind(snapshots[f], f)
        BY <1>1 DEF Watching, Order
      <3>3. ~Behind(Overwritten(disk[f]), f)
        <4>1. CASE disk[f] = None
          <5>1. Overwritten(disk[f]) = <<edits, 1>>
            BY <4>1 DEF Overwritten
          <5>2. <<edits, 1>> \in Stamps /\ <<edits, 1>> # None /\ ~(edits < edits)
            BY <3>1
          <5> QED
            BY <4>1, <5>1, <5>2 DEF Behind
        <4>2. CASE disk[f] # None
          <5>1. disk[f] \in Stamps
            BY <3>1, <4>2
          <5>2. Overwritten(disk[f]) = <<disk[f][1], 1 - disk[f][2]>>
            BY <4>2 DEF Overwritten
          <5>3. PICK a \in 0 .. MaxEdits, b \in {0, 1} : disk[f] = <<a, b>>
            BY <5>1
          <5>4. Overwritten(disk[f]) = <<a, 1 - b>> /\ <<a, 1 - b>> \in Stamps
            BY <5>2, <5>3
          <5>5. <<a, 1 - b>> # None /\ <<a, 1 - b>> # <<a, b>> /\ ~(a < a)
            BY <5>4
          <5> QED
            BY <4>2, <5>3, <5>4, <5>5 DEF Behind
        <4> QED
          BY <4>1, <4>2
      <3> QED
        BY <1>9, <2>2, <3>1, <3>2, <3>3
    <2> QED
      BY <2>1, <2>2 DEF Finish
  <1>10. Faithful'
    <2> SUFFICES ASSUME DOMAIN snapshots = Files, Shown' PROVE read = disk'
      BY <1>1, <1>4 DEF Faithful
    <2>1. watched = Files
      BY <1>1 DEF Watching, Shape
    <2>2. \A f \in Files : disk'[f] # None /\ snapshots[f] = disk'[f] /\ disk'[f] = disk[f]
      BY <1>1, <1>9, <2>1 DEF Shown
    <2>3. \A f \in Files : read[f] = disk'[f]
      BY <1>1, <2>2 DEF Watching, Faithful
    <2>4. read \in [Files -> Stamps]
      BY <1>1 DEF Watching, Shape
    <2> QED
      BY <1>3, <2>3, <2>4
  <1> QED
    BY <1>5, <1>6, <1>7, <1>8, <1>10 DEF Watching

LEMMA WaitWatching ==
  Watching /\ (Receive \/ ReceiveError \/ Absorb \/ Elapse) => Watching'
  BY DEF Receive, ReceiveError, Absorb, Elapse, Watching, Shape, Dates, Dated, Order, Behind, Noticed, Faithful, Shown, editor, targets

LEMMA EditorWatching == ASSUME NEW f \in Files, Watching, Edit(f) \/ Remove(f) PROVE Watching'
  <1>1. PICK s \in {None, <<edits + 1, 0>>} : disk' = [disk EXCEPT ![f] = s]
    BY DEF Edit, Remove
  <1>2. /\ edits' = edits + 1 /\ edits < MaxEdits /\ edits \in Nat
        /\ pending' = IF subscribed /\ pending < MaxPending THEN pending + 1 ELSE pending
        /\ UNCHANGED <<pc, subscribed, watched, snapshots, fresh, read, ran>>
    BY DEF Edit, Remove, Event, targets, Watching, Shape
  <1>3. <<edits + 1, 0>> \in (0 .. MaxEdits) \X {0, 1}
    BY <1>2
  <1>4. s \in Held
    BY <1>3
  <1>5. disk' \in [Files -> Held] /\ \A g \in Files : disk'[g] = IF g = f THEN s ELSE disk[g]
    BY <1>1, <1>4 DEF Watching, Shape
  <1>6. \A t \in Stamps : t[1] \in Nat
    OBVIOUS
  <1>7. Shape'
    BY <1>2, <1>5 DEF Watching, Shape
  <1>8. Dates'
    <2>1. \A g \in Files : Dated(disk[g])'
      BY <1>2, <1>5, <1>6 DEF Watching, Shape, Dates, Dated
    <2>2. \A g \in DOMAIN snapshots : Dated(snapshots[g])'
      BY <1>2, <1>6 DEF Watching, Shape, Dates, Dated
    <2>3. \A g \in DOMAIN fresh : Dated(fresh[g])'
      BY <1>2, <1>6 DEF Watching, Shape, Dates, Dated
    <2> QED
      BY <1>2, <2>1, <2>2, <2>3 DEF Dates
  <1>9. ASSUME NEW g \in Files, NEW t \in Held, Dated(t), Behind(t, g) PROVE Behind(t, g)'
    BY <1>2, <1>3, <1>5, <1>6, <1>9 DEF Watching, Shape, Dated, Behind
  <1>10. Order'
    BY <1>2, <1>9 DEF Watching, Shape, Dates, Order
  <1>11. Noticed'
    BY <1>2 DEF Watching, Shape, Noticed
  \* No snapshot shows a change made after it.
  <1>12. ASSUME NEW g \in DOMAIN snapshots, disk'[g] # None, snapshots[g] = disk'[g]
         PROVE  g # f /\ disk'[g] = disk[g]
    BY <1>2, <1>5, <1>6, <1>12 DEF Watching, Shape, Dates, Dated
  <1>13. Faithful'
    BY <1>2, <1>5, <1>12 DEF Watching, Shape, Faithful, Shown
  <1> QED
    BY <1>7, <1>8, <1>10, <1>11, <1>13 DEF Watching

LEMMA WatchingInductive == Watching /\ [Next]_vars => Watching'
  <1> SUFFICES ASSUME Watching, [Next]_vars PROVE Watching'
    OBVIOUS
  <1>1. CASE UNCHANGED vars
    BY <1>1 DEF vars, editor, targets, Watching, Shape, Dates, Dated, Order, Behind, Noticed, Faithful, Shown
  <1> HIDE DEF Files, Comparing
  <1> QED
    BY <1>1, StartWatching, SubscribeWatching, StatWatching, CompareWatching, ReadWatching,
       MissingWatching, FinishWatching, WaitWatching, EditorWatching DEF Next, Thread, Editor

\* Whatever changes, whenever it does, the loop never rests on an outdated run
\* when every named file was there at the start and is there now.
THEOREM NoChangeIsLost == Spec => []NoChangeLost
  <1>1. Watching => NoChangeLost
    BY DEF Watching, Shape, Noticed, Faithful, Shown, NoChangeLost, AtRest, Current
  <1> QED
    BY <1>1, InitWatching, WatchingInductive, PTL DEF Spec

----------------------------------------------------------------------------
\* The program's own events come to an end.

\* What the loop still has to do while no file changes: at most a run for snapshots under
\* way that are out of date, and one for those it has; then the way through a run,
\* or the events to be received; then the way back to waiting.
Old(s) == \E f \in DOMAIN s : s[f] # disk[f]
Outdated == pc = "start" \/ DOMAIN snapshots # watched \/ Old(snapshots)
RunsDue == (IF Old(fresh) THEN 2 ELSE 0) + (IF Outdated THEN 1 ELSE 0)
Stage == CASE pc = "start" -> 3 [] pc = "subscribe" -> 2 [] pc = "run" -> 1 [] OTHER -> 0
ToTake == IF pc = "run" THEN Cardinality(Files \ DOMAIN read) ELSE pending
ToWait ==
  CASE pc = "draining" -> errors + Cardinality(watched) + 2
    [] pc = "stat" -> errors + Cardinality(watched \ DOMAIN fresh) + 1
    [] OTHER -> errors

Work == <<RunsDue, Stage, ToTake, ToWait>>
Below(a, b) == \E n \in 1 .. 4 : a[n] < b[n] /\ \A k \in 1 .. n - 1 : a[k] = b[k]

LEMMA BelowParts ==
  ASSUME NEW a1, NEW a2, NEW a3, NEW a4, NEW b1, NEW b2, NEW b3, NEW b4,
         \/ a1 < b1
         \/ a1 = b1 /\ a2 < b2
         \/ a1 = b1 /\ a2 = b2 /\ a3 < b3
         \/ a1 = b1 /\ a2 = b2 /\ a3 = b3 /\ a4 < b4
  PROVE  Below(<<a1, a2, a3, a4>>, <<b1, b2, b3, b4>>)
  <1> DEFINE a == <<a1, a2, a3, a4>>
             b == <<b1, b2, b3, b4>>
  <1>1. /\ a[1] = a1 /\ a[2] = a2 /\ a[3] = a3 /\ a[4] = a4
        /\ b[1] = b1 /\ b[2] = b2 /\ b[3] = b3 /\ b[4] = b4
    OBVIOUS
  <1> HIDE DEF a, b
  <1>2. /\ 1 .. 1 - 1 = {} /\ 1 .. 2 - 1 = {1} /\ 1 .. 3 - 1 = {1, 2} /\ 1 .. 4 - 1 = {1, 2, 3}
        /\ 1 \in 1 .. 4 /\ 2 \in 1 .. 4 /\ 3 \in 1 .. 4 /\ 4 \in 1 .. 4
    OBVIOUS
  <1>3. Below(a, b)
    <2>1. CASE a1 < b1
      BY <1>1, <1>2, <2>1 DEF Below
    <2>2. CASE a1 = b1 /\ a2 < b2
      BY <1>1, <1>2, <2>2 DEF Below
    <2>3. CASE a1 = b1 /\ a2 = b2 /\ a3 < b3
      BY <1>1, <1>2, <2>3 DEF Below
    <2>4. CASE a1 = b1 /\ a2 = b2 /\ a3 = b3 /\ a4 < b4
      BY <1>1, <1>2, <2>4 DEF Below
    <2> QED
      BY <2>1, <2>2, <2>3, <2>4
  <1> QED
    BY <1>3 DEF a, b

\* What a step has to show.
WorkSpent ==
  \/ RunsDue' < RunsDue
  \/ RunsDue' = RunsDue /\ Stage' < Stage
  \/ RunsDue' = RunsDue /\ Stage' = Stage /\ ToTake' < ToTake
  \/ RunsDue' = RunsDue /\ Stage' = Stage /\ ToTake' = ToTake /\ ToWait' < ToWait

LEMMA WorkIsBelow == WorkSpent => Below(Work', Work)
  BY BelowParts DEF WorkSpent, Work

LEMMA FilesAreFinite == IsFiniteSet(Files) /\ \A S \in SUBSET Files : IsFiniteSet(S)
  BY FS_AddElement, FS_Subset

LEMMA OneLess ==
  ASSUME NEW S, IsFiniteSet(S), NEW x \in S
  PROVE  Cardinality(S) \in Nat /\ Cardinality(S \ {x}) = Cardinality(S) - 1
  BY FS_RemoveElement, FS_CardinalityType

LEMMA WorkIsFinite == Shape /\ errors \in Nat => Work \in Nat \X Nat \X Nat \X Nat
  <1> SUFFICES ASSUME Shape, errors \in Nat PROVE Work \in Nat \X Nat \X Nat \X Nat
    OBVIOUS
  <1>1. RunsDue \in Nat /\ Stage \in Nat
    BY DEF RunsDue, Stage
  <1>2. ToTake \in Nat
    BY FilesAreFinite, FS_CardinalityType DEF ToTake, Shape
  <1>3. ToWait \in Nat
    <2>1. watched \in SUBSET Files /\ watched \ DOMAIN fresh \in SUBSET Files
      BY DEF Shape
    <2>2. Cardinality(watched) \in Nat /\ Cardinality(watched \ DOMAIN fresh) \in Nat
      BY <2>1, FilesAreFinite, FS_CardinalityType
    <2> QED
      BY <2>2 DEF ToWait
  <1> QED
    BY <1>1, <1>2, <1>3 DEF Work

LEMMA StatSpends == ASSUME NEW f \in Files, Shape, errors \in Nat, Stat(f) PROVE WorkSpent
  <1>1. /\ pc = "stat" /\ pc' = pc /\ f \in watched \ DOMAIN fresh
        /\ DOMAIN fresh' = DOMAIN fresh \cup {f}
        /\ fresh' = [g \in DOMAIN fresh \cup {f} |-> IF g = f THEN disk[f] ELSE fresh[g]]
        /\ UNCHANGED <<disk, errors, watched, snapshots, read, pending>>
    BY DEF Stat, editor
  <1>2. Old(fresh)' = Old(fresh)
    BY <1>1 DEF Old
  <1>3. Outdated' = Outdated
    BY <1>1 DEF Outdated, Old
  <1>4. RunsDue' = RunsDue /\ Stage' = Stage /\ ToTake' = ToTake
    BY <1>1, <1>2, <1>3 DEF RunsDue, Stage, ToTake
  <1>5. ToWait' < ToWait
    <2>1. (watched \ DOMAIN fresh)' = (watched \ DOMAIN fresh) \ {f}
      BY <1>1
    <2>2. watched \ DOMAIN fresh \in SUBSET Files
      BY DEF Shape
    <2>3. /\ Cardinality(watched \ DOMAIN fresh) \in Nat
          /\ Cardinality((watched \ DOMAIN fresh)') = Cardinality(watched \ DOMAIN fresh) - 1
      BY <1>1, <2>1, <2>2, FilesAreFinite, OneLess
    <2> QED
      BY <1>1, <2>3 DEF ToWait
  <1> QED
    BY <1>4, <1>5 DEF WorkSpent

LEMMA CompareSpends == ASSUME Shape, errors \in Nat, Compare PROVE WorkSpent
  <1>1. /\ pc = "stat" /\ DOMAIN fresh = watched /\ snapshots' = fresh /\ fresh' = Nothing
        /\ pc' = IF fresh = snapshots THEN "waiting" ELSE "run"
        /\ UNCHANGED <<disk, errors, watched, read, pending>>
    BY DEF Compare, editor
  <1>2. ~Old(fresh)' /\ (Outdated' <=> Old(fresh))
    BY <1>1 DEF Old, Outdated, Nothing
  <1>3. CASE Old(fresh)
    BY <1>2, <1>3 DEF RunsDue, WorkSpent
  <1>4. CASE ~Old(fresh) /\ fresh # snapshots
    <2>1. Outdated
      <3>1. SUFFICES ASSUME ~Outdated PROVE FALSE
        OBVIOUS
      <3>2. DOMAIN snapshots = watched /\ \A f \in watched : snapshots[f] = fresh[f]
        BY <1>1, <1>4, <3>1 DEF Outdated, Old
      <3>3. snapshots \in [watched -> Held] /\ fresh \in [watched -> Held]
        BY <1>1, <3>2 DEF Shape
      <3> QED
        BY <1>4, <3>2, <3>3
    <2> QED
      BY <1>2, <1>4, <2>1 DEF RunsDue, WorkSpent
  <1>5. CASE ~Old(fresh) /\ fresh = snapshots
    <2>1. ~Outdated
      BY <1>1, <1>5 DEF Outdated
    <2>2. RunsDue' = RunsDue /\ Stage' = Stage /\ ToTake' = ToTake
      BY <1>1, <1>2, <1>5, <2>1 DEF RunsDue, Stage, ToTake
    <2>3. ToWait' < ToWait
      <3>1. watched \ DOMAIN fresh = {}
        BY <1>1
      <3>2. ToWait = errors + 0 + 1 /\ ToWait' = errors
        BY <1>1, <1>5, <3>1, FS_EmptySet DEF ToWait
      <3> QED
        BY <3>2
    <2> QED
      BY <2>2, <2>3 DEF WorkSpent
  <1> QED
    BY <1>3, <1>4, <1>5

LEMMA ReadSpends == ASSUME NEW f \in Files, Shape, Read(f) PROVE WorkSpent
  <1>1. /\ pc = "run" /\ pc' = pc /\ f \in Files \ DOMAIN read /\ DOMAIN read' = DOMAIN read \cup {f}
        /\ UNCHANGED <<disk, watched, snapshots, fresh>>
    BY DEF Read, Due, targets
  <1>2. RunsDue' = RunsDue /\ Stage' = Stage
    BY <1>1 DEF RunsDue, Outdated, Old, Stage
  <1>3. ToTake' < ToTake
    <2>1. (Files \ DOMAIN read)' = (Files \ DOMAIN read) \ {f}
      BY <1>1
    <2>2. /\ Cardinality(Files \ DOMAIN read) \in Nat
          /\ Cardinality((Files \ DOMAIN read)') = Cardinality(Files \ DOMAIN read) - 1
      <3>1. IsFiniteSet(Files \ DOMAIN read)
        BY FilesAreFinite
      <3> QED
        BY <1>1, <2>1, <3>1, OneLess
    <2> QED
      BY <1>1, <2>2 DEF ToTake
  <1> QED
    BY <1>2, <1>3 DEF WorkSpent

LEMMA RunEndSpends == ASSUME NEW f \in Files, disk' = disk, Finish \/ Missing(f) PROVE WorkSpent
  <1>1. /\ pc = "run" /\ pc' = "waiting" /\ UNCHANGED <<disk, watched, snapshots, fresh>>
    BY DEF Finish, Missing, targets
  <1>2. RunsDue' = RunsDue
    BY <1>1 DEF RunsDue, Outdated, Old
  <1>3. Stage = 1 /\ Stage' = 0
    BY <1>1 DEF Stage
  <1> QED
    BY <1>2, <1>3 DEF WorkSpent

LEMMA BeginSpends == ASSUME Shape, Start \/ Subscribe PROVE WorkSpent
  <1>1. CASE Start
    <2>1. /\ pc = "start" /\ pc' \in {"stopped", "subscribe"} /\ UNCHANGED <<disk, fresh>>
      BY <1>1 DEF Start
    <2>2. RunsDue' <= RunsDue /\ RunsDue' \in Nat /\ RunsDue \in Nat
      BY <2>1 DEF RunsDue, Outdated, Old
    <2>3. Stage = 3 /\ Stage' < 3
      BY <2>1 DEF Stage
    <2> QED
      BY <2>2, <2>3 DEF WorkSpent
  <1>2. CASE Subscribe
    <2>1. /\ pc = "subscribe" /\ pc' = "stat" /\ UNCHANGED <<disk, watched, snapshots, fresh>>
      BY <1>2 DEF Subscribe
    <2>2. RunsDue' = RunsDue
      BY <2>1 DEF RunsDue, Outdated, Old
    <2>3. Stage = 2 /\ Stage' = 0
      BY <2>1 DEF Stage
    <2> QED
      BY <2>2, <2>3 DEF WorkSpent
  <1> QED
    BY <1>1, <1>2

LEMMA WaitSpends ==
  ASSUME Shape, errors \in Nat, Receive \/ Absorb \/ Elapse \/ ReceiveError
  PROVE  WorkSpent
  <1>1. /\ pc \in {"waiting", "draining"} /\ pc' \in {"waiting", "draining", "stat"}
        /\ UNCHANGED <<disk, watched, snapshots, fresh, read>>
    BY DEF Receive, Absorb, Elapse, ReceiveError, targets
  <1>2. RunsDue' = RunsDue /\ Stage' = Stage /\ ToTake = pending /\ ToTake' = pending'
    BY <1>1 DEF RunsDue, Outdated, Old, Stage, ToTake
  <1>3. CASE Receive \/ Absorb
    <2>1. pending' < pending
      BY <1>3 DEF Receive, Absorb, Shape
    <2> QED
      BY <1>2, <2>1 DEF WorkSpent
  <1>4. CASE ReceiveError
    <2>1. pending' = pending /\ ToWait = errors /\ ToWait' = errors' /\ errors' = errors - 1
      BY <1>4 DEF ReceiveError, ToWait
    <2> QED
      BY <1>2, <2>1 DEF WorkSpent
  <1>5. CASE Elapse
    <2>1. pending' = pending /\ pc = "draining" /\ pc' = "stat" /\ errors' = errors
      BY <1>5 DEF Elapse, editor
    <2>2. watched' \ DOMAIN fresh' = watched
      BY <1>1, <2>1 DEF Shape
    <2>3. Cardinality(watched) \in Nat
      BY FilesAreFinite, FS_CardinalityType DEF Shape
    <2>4. ToWait = errors + Cardinality(watched) + 2 /\ ToWait' = errors + Cardinality(watched) + 1
      BY <2>1, <2>2 DEF ToWait
    <2> QED
      BY <1>2, <2>1, <2>3, <2>4 DEF WorkSpent
  <1> QED
    BY <1>3, <1>4, <1>5

LEMMA EditorChanges == ASSUME Watching, Editor PROVE disk' # disk
  <1>1. PICK f \in Files : Edit(f) \/ Remove(f)
    BY DEF Editor
  <1>2. disk \in [Files -> Held] /\ edits \in Nat /\ Dated(disk[f])
    BY DEF Watching, Shape, Dates
  <1>3. CASE Edit(f)
    <2>1. disk'[f] = <<edits + 1, 0>>
      BY <1>2, <1>3 DEF Edit
    <2>2. ASSUME disk[f] = <<edits + 1, 0>> PROVE FALSE
      <3>1. disk[f] # None /\ disk[f][1] = edits + 1
        <4>1. edits + 1 \in 0 .. MaxEdits
          BY <1>2, <1>3 DEF Edit
        <4> QED
          BY <2>2, <4>1
      <3> QED
        BY <1>2, <3>1 DEF Dated
    <2> QED
      BY <2>1, <2>2
  <1>4. CASE Remove(f)
    BY <1>2, <1>4 DEF Remove
  <1> QED
    BY <1>1, <1>3, <1>4

LEMMA ErrorsAreCounted == Spec => [](errors \in Nat)
  <1>1. Init => errors \in Nat
    BY DEF Init
  <1>2. errors \in Nat /\ [Next]_vars => (errors \in Nat)'
    <2> SUFFICES ASSUME errors \in Nat, [Next]_vars PROVE errors' \in Nat
      OBVIOUS
    <2>1. CASE ReceiveError
      BY <2>1 DEF ReceiveError
    <2>2. ASSUME NEW f \in Files, Stat(f) \/ Read(f) \/ Missing(f) \/ Edit(f) \/ Remove(f)
          PROVE  errors' = errors
      BY <2>2 DEF Stat, Read, Missing, Edit, Remove, editor
    <2>3. CASE Start \/ Subscribe \/ Compare \/ Finish \/ Receive \/ Absorb \/ Elapse
      BY <2>3 DEF Start, Subscribe, Compare, Finish, Receive, Absorb, Elapse, editor
    <2>4. CASE UNCHANGED vars
      BY <2>4 DEF vars, editor
    <2> HIDE DEF Files
    <2> QED
      BY <2>1, <2>2, <2>3, <2>4 DEF Next, Thread, Editor
  <1> QED
    BY <1>1, <1>2, PTL DEF Spec

\* The program's own reads and writes do not keep it running: from one change of a file to
\* the next, whoever makes it, the loop spends from a finite stock with every step, events
\* that its reads raise and errors of the event source included (run_watch).
THEOREM WatchWindsDown ==
  Spec => /\ [](Work \in Nat \X Nat \X Nat \X Nat)
          /\ [][disk' # disk \/ Below(Work', Work)]_vars
  <1>1. ASSUME Watching, errors \in Nat, [Next]_vars
        PROVE  [disk' # disk \/ Below(Work', Work)]_vars
    <2> SUFFICES ASSUME Next, disk' = disk PROVE WorkSpent
      BY <1>1, WorkIsBelow
    <2>1. Shape /\ errors \in Nat
      BY <1>1 DEF Watching
    <2>2. ~Editor
      BY <1>1, EditorChanges
    <2> HIDE DEF Files, Comparing
    <2>3. ASSUME NEW f \in Files, Stat(f) \/ Read(f) \/ Missing(f) PROVE WorkSpent
      BY <2>1, <2>3, StatSpends, ReadSpends, RunEndSpends
    <2>4. CASE Start \/ Subscribe \/ Compare
      BY <2>1, <2>4, BeginSpends, CompareSpends
    <2>5. CASE Finish
      <3>1. Input \in Files
        BY DEF Files
      <3> QED
        BY <2>5, <3>1, RunEndSpends
    <2>6. CASE Receive \/ Absorb \/ Elapse \/ ReceiveError
      BY <2>1, <2>6, WaitSpends
    <2> QED
      BY <2>2, <2>3, <2>4, <2>5, <2>6 DEF Next, Thread
  <1>2. Watching /\ errors \in Nat => Work \in Nat \X Nat \X Nat \X Nat
    BY WorkIsFinite DEF Watching
  <1> QED
    BY <1>1, <1>2, InitWatching, WatchingInductive, ErrorsAreCounted, PTL DEF Spec

----------------------------------------------------------------------------
\* Part 2: the test runner.

HIDE WatchAssumption DEF Files, Stamps, Held, Comparing

CaseRecords == [input : TestFiles, expected : TestFiles, of : TestFiles, meta : MetaRecords]

Typed ==
  /\ dir \in [inputs : SUBSET TestFiles, expected : SUBSET TestFiles, metas : [Bases -> Metas \cup {NotGiven, Bad}]]
  /\ mold \in MoldRecords /\ env \in Environments /\ env0 \in Environments
  /\ metas \in [Bases -> Metas \cup {NotGiven, Bad}] /\ unmet \subseteq dir.inputs
  /\ cases \in Seq(CaseRecords) /\ verdicts \in Seq({"passed", "failed"})
  /\ Len(verdicts) <= Len(cases)
  /\ outcome = "discovering" => verdicts = <<>>

\* Before its turn a case has run if there was something to run it on.
Ran(m) == m \in 1 .. Len(verdicts) /\ cases[m].input \in dir.inputs

\* The variables that a case has named are gone, the others as they were.
Removed ==
  \A v \in Variables :
    \/ env[v] = env0[v] /\ \A m \in 1 .. Len(verdicts) : Ran(m) => cases[m].meta.sets[v] = NotGiven
    \/ env[v] = NotGiven /\ \E m \in 1 .. Len(verdicts) : Ran(m) /\ cases[m].meta.sets[v] # NotGiven

\* The limit that case m sees when it is run alone.
Limit(m) ==
  IF cases[m].meta.sets["limit"] = NotGiven THEN env0["limit"] ELSE cases[m].meta.sets["limit"]

\* The limit is unread, or that of some case which ran.
Latched ==
  IF "limit" \in mold.reads /\ \E m \in 1 .. Len(verdicts) : Ran(m)
  THEN \E m \in 1 .. Len(verdicts) : Ran(m) /\ latched = Limit(m)
  ELSE latched = "unread"

Independent == Typed /\ Removed /\ Latched /\ CasesIndependent

\* Inputs are met in order, and the metadata of a base goes to its first.
Met == dir.inputs \ unmet

Own(f) ==
  IF dir.metas[f[1]] = NotGiven \/ f \notin First({g \in dir.inputs : g[1] = f[1]})
  THEN Plain ELSE dir.metas[f[1]]

\* The case that input f has to have, unless it is skipped or has no expected file.
Excused(f) == Own(f).skip \/ Expected(f, Own(f)) = {}
OwnCase(f) == Case(f, Own(f), CHOOSE g \in Expected(f, Own(f)) : TRUE)
HasCase(f) == \E n \in 1 .. Len(cases) : cases[n] = OwnCase(f)

Covered ==
  /\ \A g \in Met, f \in unmet : Sooner(g, f)
  /\ \A b \in Bases :
       metas[b] = IF \E g \in Met : g[1] = b THEN NotGiven ELSE dir.metas[b]
  /\ \A f \in Met : Excused(f) \/ HasCase(f)
  /\ outcome \in {"running", "done"} => unmet = {}
  /\ outcome = "done" =>
       Len(verdicts) = Len(cases) /\ \A n \in 1 .. Len(verdicts) : verdicts[n] = "passed"

----------------------------------------------------------------------------
LEMMA PlainIsMeta == Plain \in MetaRecords
  BY DEF Plain, MetaRecords, Environments

LEMMA ExpectedIsFile ==
  ASSUME Typed, NEW f \in TestFiles, NEW meta \in MetaRecords
  PROVE  Expected(f, meta) \subseteq TestFiles
  BY DEF Typed, Expected, First, MetaRecords

\* The metadata a base still has, or none.
Left(b) == IF metas[b] = NotGiven THEN Plain ELSE metas[b]

LEMMA LeftIsMeta ==
  ASSUME Typed, NEW b \in Bases, metas[b] # Bad
  PROVE  Left(b) \in MetaRecords
  BY PlainIsMeta, GivenAssumption DEF Typed, Left

LEMMA CaseIsRecord ==
  ASSUME Typed, NEW f \in TestFiles, NEW meta \in MetaRecords, Expected(f, meta) # {}
  PROVE  Case(f, meta, CHOOSE g \in Expected(f, meta) : TRUE) \in CaseRecords
  <1> DEFINE g == CHOOSE g \in Expected(f, meta) : TRUE
  <1>1. g \in TestFiles
    BY ExpectedIsFile
  <1>2. (IF meta.input = NotGiven THEN f ELSE meta.input) \in TestFiles
    BY DEF MetaRecords
  <1> HIDE DEF g
  <1>3. Case(f, meta, g) \in CaseRecords
    BY <1>1, <1>2 DEF Case, CaseRecords
  <1> QED
    BY <1>3 DEF g

----------------------------------------------------------------------------
\* A case that nobody has disturbed sees what it would see alone.
LEMMA SeesTheSame ==
  ASSUME Typed, Removed, Latched, Len(verdicts) < Len(cases),
         cases[Len(verdicts) + 1].input \in dir.inputs,
         ~Disturbed(Len(verdicts) + 1)
  PROVE  Executed(Within(env, cases[Len(verdicts) + 1]), latched)
           = Executed(Within(env0, cases[Len(verdicts) + 1]), "unread")
  <1> DEFINE n == Len(verdicts) + 1
             case == cases[n]
             here == Within(env, case)
             alone == Within(env0, case)
  <1>1. mold.reads \subseteq Variables
    BY DEF Typed, MoldRecords
  <1>2. n \in Nat /\ \A m \in 1 .. Len(verdicts) : m \in 1 .. n - 1
    BY DEF Typed
  <1>3. ASSUME NEW m \in 1 .. Len(verdicts), Ran(m)
        PROVE  /\ \A v \in mold.reads :
                    cases[m].meta.sets[v] = NotGiven \/ case.meta.sets[v] # NotGiven \/ env0[v] = NotGiven
               /\ "limit" \in mold.reads => cases[m].meta.sets["limit"] = case.meta.sets["limit"]
    BY <1>2, <1>3 DEF Disturbed, Ran
  <1> HIDE DEF n, case
  <1>4. \A v \in mold.reads : here[v] = alone[v]
    BY <1>1, <1>3 DEF Removed, Within
  <1>5. ASSUME "limit" \in mold.reads PROVE Latch(here, latched) = alone["limit"]
    <2>1. CASE latched = "unread"
      BY <2>1, <1>4, <1>5 DEF Latch
    <2>2. ASSUME NEW m \in 1 .. Len(verdicts), Ran(m), latched = Limit(m)
          PROVE  Latch(here, latched) = alone["limit"]
      BY <2>2, <1>3, <1>4, <1>5 DEF Latch, Limit, Within, Variables
    <2> QED
      BY <2>1, <2>2 DEF Latched
  <1> QED
    <2>1. \A v \in mold.reads :
            (IF v = "limit" THEN Latch(here, latched) ELSE here[v])
              = (IF v = "limit" THEN Latch(alone, "unread") ELSE alone[v])
      BY <1>4, <1>5 DEF Latch
    <2> QED
      BY <2>1, <1>1 DEF Executed, n, case

LEMMA StepRunCase == Independent /\ RunCase => Independent'
  <1> SUFFICES ASSUME Independent, RunCase PROVE Independent'
    OBVIOUS
  <1>0. PICK n \in Nat : n = Len(verdicts) + 1
    BY DEF Independent, Typed
  <1>13. PICK case : case = cases[n]
    OBVIOUS
  <1>1. /\ cases \in Seq(CaseRecords) /\ n \in 1 .. Len(cases) /\ case \in CaseRecords
        /\ outcome = "running" /\ UNCHANGED <<dir, mold, cases, outcome, env0, metas, unmet>>
    BY <1>0, <1>13 DEF Independent, Typed, RunCase
  <1>2. PICK verdict \in {"passed", "failed"} :
          /\ verdicts' = Append(verdicts, verdict)
          /\ verdict = IF case.input \notin dir.inputs THEN "failed"
                       ELSE Verdict(case, Executed(Within(env, case), latched))
    BY <1>0, <1>13 DEF RunCase, Verdict
  <1>3. /\ Len(verdicts') = n /\ verdicts'[n] = verdict
        /\ \A m \in 1 .. Len(verdicts) : verdicts'[m] = verdicts[m]
        /\ verdicts' \in Seq({"passed", "failed"})
        /\ 1 .. n = 1 .. Len(verdicts) \cup {n} /\ Len(verdicts) \in Nat
    BY <1>0, <1>2 DEF Independent, Typed
  <1>4. case.meta.sets \in Environments
    BY <1>1 DEF CaseRecords, MetaRecords
  <1>5. \A m : Ran(m)' <=> Ran(m) \/ (m = n /\ case.input \in dir.inputs)
    BY <1>1, <1>3, <1>13 DEF Ran
  <1>11. case.input \notin dir.inputs =>
           \A m : m \in 1 .. Len(verdicts') /\ Ran(m)' <=> m \in 1 .. Len(verdicts) /\ Ran(m)
    BY <1>3, <1>5 DEF Ran
  <1>12. \A m : Limit(m)' = Limit(m)
    BY <1>1 DEF Limit
  <1>6. IF case.input \in dir.inputs
        THEN env' = Cleaned(case) /\ latched' = Latch(Within(env, case), latched)
        ELSE UNCHANGED <<env, latched>>
    BY <1>0, <1>13 DEF RunCase
  <1>7. Typed'
    <2>1. env' \in Environments
      BY <1>4, <1>6 DEF Independent, Typed, Cleaned, Environments
    <2> QED
      BY <2>1, <1>1, <1>3 DEF Independent, Typed
  <1>8. Removed'
    <2> SUFFICES ASSUME NEW v \in Variables
                 PROVE (\/ env[v] = env0[v] /\ \A m \in 1 .. Len(verdicts) : Ran(m) => cases[m].meta.sets[v] = NotGiven
                        \/ env[v] = NotGiven /\ \E m \in 1 .. Len(verdicts) : Ran(m) /\ cases[m].meta.sets[v] # NotGiven)'
      BY DEF Removed
    <2>1. CASE case.input \in dir.inputs
      <3>1. env'[v] = IF case.meta.sets[v] = NotGiven THEN env[v] ELSE NotGiven
        BY <2>1, <1>6 DEF Cleaned
      <3> QED
        BY <2>1, <3>1, <1>1, <1>3, <1>5, <1>13 DEF Independent, Removed
    <2>2. CASE case.input \notin dir.inputs
      <3>1. env' = env /\ env0' = env0 /\ cases' = cases
        BY <2>2, <1>1, <1>6
      <3>2. \/ env[v] = env0[v] /\ \A m \in 1 .. Len(verdicts) : Ran(m) => cases[m].meta.sets[v] = NotGiven
            \/ env[v] = NotGiven /\ \E m \in 1 .. Len(verdicts) : Ran(m) /\ cases[m].meta.sets[v] # NotGiven
        BY DEF Independent, Removed
      <3> QED
        BY <2>2, <3>1, <3>2, <1>11
    <2> QED
      BY <2>1, <2>2
  <1>9. Latched'
    <2>1. CASE case.input \notin dir.inputs
      <3>1. latched' = latched /\ mold' = mold
        BY <2>1, <1>1, <1>6
      <3> QED
        BY <2>1, <3>1, <1>11, <1>12 DEF Independent, Latched
    <2>2. CASE case.input \in dir.inputs /\ "limit" \notin mold.reads
      <3>1. latched' = latched /\ mold' = mold
        BY <2>2, <1>1, <1>6 DEF Latch
      <3> QED
        BY <2>2, <3>1 DEF Independent, Latched
    <2>3. CASE case.input \in dir.inputs /\ "limit" \in mold.reads
      <3> SUFFICES \E m \in 1 .. Len(verdicts') : Ran(m)' /\ latched' = Limit(m)'
        BY <2>3, <1>1 DEF Latched
      <3>1. Ran(n)' /\ n \in 1 .. Len(verdicts')
        BY <2>3, <1>1, <1>3, <1>5
      <3>2. latched' = IF latched = "unread" THEN Within(env, case)["limit"] ELSE latched
        BY <2>3, <1>6 DEF Latch
      <3>3. Within(env0, case)["limit"] = Limit(n)'
        BY <1>12, <1>13 DEF Within, Variables, Limit
      <3>4. CASE env["limit"] = env0["limit"] \/ case.meta.sets["limit"] # NotGiven
        <4>1. Within(env, case)["limit"] = Within(env0, case)["limit"]
          BY <3>4 DEF Within, Variables
        <4>2. CASE \E m \in 1 .. Len(verdicts) : Ran(m)
          <5>1. PICK m \in 1 .. Len(verdicts) : Ran(m) /\ latched = Limit(m)
            BY <4>2, <2>3 DEF Independent, Latched
          <5>2. Ran(m)' /\ m \in 1 .. Len(verdicts')
            BY <5>1, <1>3, <1>5
          <5>3. \/ latched' = Limit(m)
                \/ latched' = Within(env0, case)["limit"]
            BY <5>1, <4>1, <3>2
          <5> QED
            BY <5>2, <5>3, <3>1, <3>3, <1>12
        <4>3. CASE ~ \E m \in 1 .. Len(verdicts) : Ran(m)
          <5>1. latched' = Within(env0, case)["limit"]
            BY <4>1, <4>3, <3>2 DEF Independent, Latched
          <5> QED
            BY <5>1, <3>1, <3>3
        <4> QED
          BY <4>2, <4>3
      <3>5. CASE env["limit"] # env0["limit"] /\ case.meta.sets["limit"] = NotGiven
        <4>1. /\ env["limit"] = NotGiven
              /\ \E m \in 1 .. Len(verdicts) : Ran(m)
          BY <3>5 DEF Independent, Removed, Variables
        <4>2. PICK m \in 1 .. Len(verdicts) : Ran(m) /\ latched = Limit(m)
          BY <4>1, <2>3 DEF Independent, Latched
        <4>3. latched \in {"on", "off", NotGiven}
          <5>1. cases[m].meta.sets \in Environments /\ env0 \in Environments
            <6>1. m \in 1 .. Len(cases) /\ cases \in Seq(CaseRecords)
              BY <1>1, <4>2 DEF Independent, Typed
            <6>2. cases[m] \in CaseRecords
              BY <6>1
            <6> QED
              BY <6>2 DEF Independent, Typed, CaseRecords, MetaRecords
          <5> QED
            BY <4>2, <5>1 DEF Limit, Environments, Variables
        <4>4. Within(env, case)["limit"] = NotGiven
          BY <3>5, <4>1 DEF Within, Variables
        <4>5. latched' = latched
          BY <3>2, <4>3, <4>4
        <4>6. Ran(m)' /\ m \in 1 .. Len(verdicts')
          BY <4>2, <1>3, <1>5
        <4> QED
          BY <4>2, <4>5, <4>6, <1>12
      <3> QED
        BY <3>4, <3>5
    <2> QED
      BY <2>1, <2>2, <2>3
  <1>10. CasesIndependent'
    <2>1. \A m \in 1 .. n : (Disturbed(m))' <=> Disturbed(m)
      BY <1>1 DEF Disturbed
    <2>2. \A m \in 1 .. n : Alone(cases[m])' = Alone(cases[m])
      BY <1>1 DEF Alone, Verdict, Executed, Within, Latch
    <2>3. verdict = Alone(case) \/ Disturbed(n)
      BY <1>0, <1>1, <1>2, <1>13, SeesTheSame DEF Alone, Independent
    <2> SUFFICES ASSUME NEW m \in DOMAIN verdicts'
                 PROVE (verdicts[m] = Alone(cases[m]) \/ Disturbed(m))'
      BY DEF CasesIndependent
    <2>4. m \in 1 .. n
      BY <1>3
    <2> QED
      BY <2>1, <2>2, <2>3, <2>4, <1>1, <1>3, <1>13 DEF Independent, Typed, CasesIndependent
  <1> QED
    BY <1>7, <1>8, <1>9, <1>10 DEF Independent

----------------------------------------------------------------------------
LEMMA SameFiles ==
  ASSUME UNCHANGED dir
  PROVE  \A f : Excused(f)' = Excused(f) /\ OwnCase(f)' = OwnCase(f)
  <1>1. \A f : Own(f)' = Own(f)
    BY DEF Own
  <1>2. \A f, meta : Expected(f, meta)' = Expected(f, meta)
    BY DEF Expected
  <1> QED
    BY <1>1, <1>2 DEF Excused, OwnCase, Case

LEMMA StepMeet ==
  ASSUME Independent, Covered, NEW f \in TestFiles, Meet(f)
  PROVE  Independent' /\ Covered'
  <1> DEFINE meta == Left(f[1])
             kept == meta.skip \/ Expected(f, meta) = {}
             new == Case(f, meta, CHOOSE g \in Expected(f, meta) : TRUE)
  <1>1. /\ f \in unmet /\ f \in dir.inputs /\ f[1] \in Bases /\ metas[f[1]] # Bad
        /\ \A g \in unmet \ {f} : Sooner(f, g)
        /\ outcome = "discovering" /\ verdicts = <<>>
        /\ unmet' = unmet \ {f} /\ metas' = [metas EXCEPT ![f[1]] = NotGiven]
        /\ UNCHANGED <<dir, mold, env, latched, verdicts, outcome, env0>>
    BY DEF Meet, First, Independent, Typed, TestFiles
  <1>2. meta \in MetaRecords
    BY <1>1, LeftIsMeta DEF Independent
  <1>3. /\ cases \in Seq(CaseRecords)
        /\ cases' = IF kept THEN cases ELSE Append(cases, new)
        /\ ~kept => new \in CaseRecords
    BY <1>2, CaseIsRecord DEF Meet, Independent, Typed, Left
  <1> HIDE DEF kept, new, meta
  <1>4. /\ cases' \in Seq(CaseRecords) /\ Len(cases) <= Len(cases')
        /\ Len(cases) \in Nat /\ Len(cases') \in Nat
        /\ \A n \in 1 .. Len(cases) : cases'[n] = cases[n]
        /\ ~kept => cases'[Len(cases')] = new /\ Len(cases') \in 1 .. Len(cases')
    BY <1>3
  <1>5. Independent'
    <2>1. Typed'
      BY <1>1, <1>4 DEF Independent, Typed
    <2>2. (Removed /\ Latched /\ CasesIndependent)'
      BY <1>1 DEF Independent, Removed, Latched, CasesIndependent, Ran
    <2> QED
      BY <2>1, <2>2 DEF Independent
  <1>6. meta = Own(f)
    <2>1. CASE \E g \in Met : g[1] = f[1]
      <3>1. PICK g \in Met : g[1] = f[1]
        BY <2>1
      <3>2. Sooner(g, f) /\ g \in dir.inputs /\ g \in TestFiles
        BY <3>1, <1>1 DEF Covered, Met, Independent, Typed
      <3>3. ~Sooner(f, g) /\ g # f
        <4>1. f[1] \in Nat /\ f[2] \in Nat /\ g[1] \in Nat /\ g[2] \in Nat
          BY <3>2, TestRunnerAssumption DEF TestFiles
        <4> QED
          BY <3>1, <3>2, <4>1 DEF Sooner
      <3>4. f \notin First({h \in dir.inputs : h[1] = f[1]})
        BY <3>1, <3>2, <3>3 DEF First
      <3>5. metas[f[1]] = NotGiven
        BY <2>1, <1>1 DEF Covered
      <3> QED
        BY <3>4, <3>5 DEF Own, Left, meta
    <2>2. CASE ~ \E g \in Met : g[1] = f[1]
      <3>1. \A h \in {h \in dir.inputs : h[1] = f[1]} \ {f} : Sooner(f, h)
        BY <2>2, <1>1 DEF Met
      <3>2. f \in First({h \in dir.inputs : h[1] = f[1]})
        BY <3>1, <1>1 DEF First
      <3>3. metas[f[1]] = dir.metas[f[1]]
        BY <2>2, <1>1 DEF Covered
      <3> QED
        BY <3>2, <3>3 DEF Own, Left, meta
    <2> QED
      BY <2>1, <2>2
  <1>7. Met' = Met \cup {f}
    BY <1>1 DEF Met
  <1>8. \A g : Excused(g)' = Excused(g) /\ OwnCase(g)' = OwnCase(g)
    BY <1>1, SameFiles
  <1>9. \A g : HasCase(g) => HasCase(g)'
    BY <1>4, <1>8, 1 .. Len(cases) \subseteq 1 .. Len(cases') DEF HasCase
  <1>10. Excused(f) \/ HasCase(f)'
    BY <1>4, <1>6, <1>8 DEF HasCase, Excused, OwnCase, kept, new
  <1>11. Covered'
    <2>1. \A g \in Met', h \in unmet' : Sooner(g, h)
      BY <1>1, <1>7 DEF Covered
    <2>2. \A b \in Bases : metas'[b] = IF \E g \in Met' : g[1] = b THEN NotGiven ELSE dir.metas[b]
      BY <1>1, <1>7 DEF Covered, Independent, Typed
    <2>3. \A g \in Met' : Excused(g)' \/ HasCase(g)'
      BY <1>7, <1>8, <1>9, <1>10 DEF Covered
    <2> QED
      BY <2>1, <2>2, <2>3, <1>1 DEF Covered
  <1> QED
    BY <1>5, <1>11

----------------------------------------------------------------------------
\* The other steps.
LEMMA SameRun ==
  ASSUME UNCHANGED <<dir, mold, env, latched, cases, verdicts, env0>>, Removed, Latched, CasesIndependent
  PROVE  (Removed /\ Latched /\ CasesIndependent)'
  <1>1. \A m : Ran(m)' = Ran(m) /\ Limit(m)' = Limit(m) /\ Disturbed(m)' = Disturbed(m)
    BY DEF Ran, Limit, Disturbed
  <1>2. \A m : Alone(cases[m])' = Alone(cases[m])
    BY DEF Alone, Verdict, Executed, Within, Latch
  <1>3. Removed'
    BY <1>1 DEF Removed
  <1>4. Latched'
    BY <1>1 DEF Latched
  <1>5. CasesIndependent'
    BY <1>1, <1>2 DEF CasesIndependent
  <1> QED
    BY <1>3, <1>4, <1>5

LEMMA OutcomeOnly ==
  ASSUME Independent, Covered, UNCHANGED <<dir, mold, env, latched, metas, unmet, cases, verdicts, env0>>,
         outcome' # "discovering",
         outcome' \in {"running", "done"} => unmet = {},
         outcome' = "done" => Len(verdicts) = Len(cases) /\ \A n \in 1 .. Len(verdicts) : verdicts[n] = "passed"
  PROVE  Independent' /\ Covered'
  <1>1. Typed'
    BY DEF Independent, Typed
  <1>2. (Removed /\ Latched /\ CasesIndependent)'
    BY SameRun DEF Independent
  <1>3. Met' = Met /\ \A f : Excused(f)' = Excused(f) /\ HasCase(f)' = HasCase(f)
    BY SameFiles DEF Met, HasCase
  <1> QED
    BY <1>1, <1>2, <1>3 DEF Independent, Covered

LEMMA StepRest ==
  ASSUME Independent, Covered, BadMeta \/ Load \/ FinishTests
  PROVE  Independent' /\ Covered'
  <1>1. CASE BadMeta
    BY <1>1, OutcomeOnly DEF BadMeta
  <1>2. CASE Load
    BY <1>2, OutcomeOnly DEF Load, Independent, Typed
  <1>3. CASE FinishTests
    <2>1. verdicts \in Seq({"passed", "failed"}) /\ DOMAIN verdicts = 1 .. Len(verdicts)
      BY DEF Independent, Typed
    <2>2. \A n \in 1 .. Len(verdicts) : verdicts[n] \in {"passed", "failed"}
      BY <2>1
    <2> QED
      BY <1>3, <2>1, <2>2, OutcomeOnly DEF FinishTests, Covered
  <1> QED
    BY <1>1, <1>2, <1>3

LEMMA RunCaseCovered == Covered /\ RunCase => Covered'
  <1> SUFFICES ASSUME Covered, RunCase PROVE Covered'
    OBVIOUS
  <1>1. outcome = "running" /\ UNCHANGED <<dir, metas, unmet, cases, outcome>>
    BY DEF RunCase
  <1>2. Met' = Met /\ \A f : Excused(f)' = Excused(f) /\ HasCase(f)' = HasCase(f)
    BY <1>1, SameFiles DEF Met, HasCase
  <1> QED
    BY <1>1, <1>2 DEF Covered

LEMMA Invariance == TestSpec => [](Independent /\ Covered)
  <1>1. TestInit => Independent /\ Covered
    <2> SUFFICES ASSUME TestInit PROVE Independent /\ Covered
      OBVIOUS
    <2>1. Typed
      BY GivenAssumption DEF TestInit, Typed
    <2>2. Removed /\ Latched /\ CasesIndependent
      BY DEF TestInit, Removed, Latched, CasesIndependent
    <2>3. Covered
      BY DEF TestInit, Covered, Met
    <2> QED
      BY <2>1, <2>2, <2>3 DEF Independent
  <1>2. Independent /\ Covered /\ [TestNext]_testVars => (Independent /\ Covered)'
    <2> SUFFICES ASSUME Independent, Covered, [TestNext]_testVars PROVE (Independent /\ Covered)'
      OBVIOUS
    <2>1. CASE \E f \in TestFiles : Meet(f)
      BY <2>1, StepMeet
    <2>2. CASE RunCase
      BY <2>2, StepRunCase, RunCaseCovered
    <2>3. CASE BadMeta \/ Load \/ FinishTests
      BY <2>3, StepRest
    <2>4. CASE UNCHANGED testVars
      <3>1. Independent'
        BY <2>4, SameRun DEF testVars, Independent, Typed
      <3>2. Met' = Met /\ \A f : Excused(f)' = Excused(f) /\ HasCase(f)' = HasCase(f)
        BY <2>4, SameFiles DEF testVars, Met, HasCase
      <3> QED
        BY <2>4, <3>1, <3>2 DEF testVars, Covered
    <2> QED
      BY <2>1, <2>2, <2>3, <2>4 DEF TestNext
  <1> QED
    BY <1>1, <1>2, PTL DEF TestSpec

\* The verdict on a case does not depend on the cases before it, but for the
\* variables that are removed and the limit that is read once (run_case).
THEOREM CasesAreIndependent == TestSpec => []CasesIndependent
  <1>1. Independent => CasesIndependent
    BY DEF Independent
  <1> QED
    BY <1>1, Invariance, PTL

\* A green run has run every input that has an expected file, with its own
\* metadata (discover_test_cases, run).
THEOREM GreenMeansTested == TestSpec => []GreenIsTested
  <1>1. Independent /\ Covered => GreenIsTested
    <2> SUFFICES ASSUME Independent, Covered, outcome = "done" PROVE GreenIsTested
      BY DEF GreenIsTested
    <2>1. /\ Met = dir.inputs /\ Len(verdicts) = Len(cases)
          /\ \A n \in 1 .. Len(verdicts) : verdicts[n] = "passed"
          /\ DOMAIN cases = 1 .. Len(cases)
      BY DEF Covered, Met, Independent, Typed
    <2>2. ASSUME NEW f \in dir.inputs
          PROVE  Own(f).skip \/ Expected(f, Own(f)) = {} \/
                   \E n \in DOMAIN cases : cases[n] = OwnCase(f) /\ verdicts[n] = "passed"
      BY <2>1 DEF Covered, Excused, HasCase
    <2> QED
      BY <2>1, <2>2 DEF GreenIsTested, Own, OwnCase
  <1> QED
    BY <1>1, Invariance, PTL
=============================================================================
