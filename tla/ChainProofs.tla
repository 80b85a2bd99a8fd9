---------------------------- MODULE ChainProofs ----------------------------
(***************************************************************************)
(* Theorems about Chain, for every number of static steps, every cap and   *)
(* every set of values.                                                    *)
(***************************************************************************)
EXTENDS Chain, SequenceTheorems, TLAPS

----------------------------------------------------------------------------
\* Inserting into a sequence lengthens it by one, leaves what stands before the
\* insertion point where it was and moves the rest back by one.
LEMMA InsertAtProperties ==
  ASSUME NEW s \in Seq(Step), NEW p \in 1..Len(s) + 1, NEW e \in Step
  PROVE  /\ InsertAt(s, p, e) \in Seq(Step)
         /\ Len(InsertAt(s, p, e)) = Len(s) + 1
         /\ InsertAt(s, p, e)[p] = e
         /\ \A k \in 1..p - 1 : InsertAt(s, p, e)[k] = s[k]
         /\ \A k \in p..Len(s) : InsertAt(s, p, e)[k + 1] = s[k]
  <1> DEFINE front == SubSeq(s, 1, p - 1)
             back  == SubSeq(s, p, Len(s))
  <1>1. front \in Seq(Step) /\ Len(front) = p - 1 /\ \A k \in 1..p - 1 : front[k] = s[k]
    BY SubSeqProperties
  <1>2. /\ back \in Seq(Step) /\ Len(back) = Len(s) - p + 1
        /\ \A k \in 1..Len(s) - p + 1 : back[k] = s[p + k - 1]
    BY SubSeqProperties
  <1>3. <<e>> \in Seq(Step) /\ Len(<<e>>) = 1
    OBVIOUS
  <1> HIDE DEF front, back
  <1>4. /\ front \o <<e>> \in Seq(Step) /\ Len(front \o <<e>>) = p
        /\ (front \o <<e>>)[p] = e
        /\ \A k \in 1..p - 1 : (front \o <<e>>)[k] = front[k]
    BY <1>1, <1>3, ConcatProperties
  <1> DEFINE head == front \o <<e>>
  <1>5. /\ head \o back \in Seq(Step) /\ Len(head \o back) = Len(s) + 1
        /\ (head \o back)[p] = head[p]
        /\ \A k \in 1..p - 1 : (head \o back)[k] = head[k]
        /\ \A k \in p..Len(s) : (head \o back)[k + 1] = back[k + 1 - p]
    <2> HIDE DEF head
    <2>1. head \in Seq(Step) /\ Len(head) = p /\ p \in Nat /\ Len(s) \in Nat
      BY <1>4 DEF head
    <2>2. /\ head \o back \in Seq(Step) /\ Len(head \o back) = Len(head) + Len(back)
          /\ \A k \in 1..Len(head) + Len(back) :
               (head \o back)[k] = IF k <= Len(head) THEN head[k] ELSE back[k - Len(head)]
      BY <2>1, <1>2, ConcatProperties
    <2>3. \A k \in 1..p : k \in 1..Len(head) + Len(back) /\ k <= Len(head)
      BY <2>1, <1>2
    <2>4. ASSUME NEW k \in p..Len(s)
          PROVE  (head \o back)[k + 1] = back[k + 1 - p]
      <3>1. /\ k + 1 \in 1..Len(head) + Len(back) /\ ~(k + 1 <= Len(head))
            /\ k + 1 - Len(head) = k + 1 - p
        BY <2>1, <1>2
      <3> QED
        BY <2>2, <3>1
    <2>5. \A k \in 1..p : (head \o back)[k] = head[k]
      BY <2>2, <2>3
    <2>6. Len(head \o back) = Len(s) + 1
      BY <2>1, <2>2, <1>2
    <2>7. p \in 1..p /\ \A k \in 1..p - 1 : k \in 1..p
      OBVIOUS
    <2>8. (head \o back)[p] = head[p] /\ \A k \in 1..p - 1 : (head \o back)[k] = head[k]
      BY <2>5, <2>7
    <2>9. head \o back \in Seq(Step)
      BY <2>2
    <2> QED
      BY <2>4, <2>6, <2>8, <2>9
  <1>6. InsertAt(s, p, e) = (front \o <<e>>) \o back
    BY DEF InsertAt, front, back
  <1>7. \A k \in p..Len(s) : back[k + 1 - p] = s[k]
    <2>1. \A k \in p..Len(s) : /\ k + 1 - p \in 1..Len(s) - p + 1
                               /\ p + (k + 1 - p) - 1 = k
      OBVIOUS
    <2> QED
      BY <1>2, <2>1
  <1> QED
    BY <1>1, <1>4, <1>5, <1>6, <1>7

----------------------------------------------------------------------------
\* The invariant, action by action.

LEMMA InitChain == Init => ChainInv
  <1> SUFFICES ASSUME Init PROVE ChainInv
    OBVIOUS
  <1> USE ChainAssumption DEF Init
  <1>1. TypeOK
    <2>1. steps \in Seq(Step) /\ Len(steps) = StaticSteps
      BY DEF Step, StepId
    <2>2. mutations \in [Index -> [Keys -> Entry \cup {None}]]
      BY DEF NothingQueued
    <2>3. host \in Host
      BY DEF FreshHost, Host
    <2>4. /\ i \in 1..Len(steps) /\ injected \in 0..MaxDynamicSteps
          /\ calls \in 0..MaxHostCalls /\ Len(steps) <= StaticSteps + MaxDynamicSteps
      BY <2>1
    <2>5. data \in Seq(StepId) /\ exitLog \in Seq(ExitEvent)
      OBVIOUS
    <2> QED
      BY <2>1, <2>2, <2>3, <2>4, <2>5 DEF TypeOK
  <1>2. WellKeyed
    BY DEF WellKeyed, NothingQueued, FreshHost
  <1>3. StepsCounted /\ CursorAhead /\ QueuedAhead /\ StepsInSeries
    BY DEF StepsCounted, CursorAhead, QueuedAhead, StepsInSeries
  <1>4. MutationsOnlyAhead
    BY DEF MutationsOnlyAhead
  <1> QED
    BY <1>1, <1>2, <1>3, <1>4 DEF ChainInv

\* The type of a value read from the queue is the one its key wants.
LEMMA QueuedValueType ==
  ASSUME ChainInv, NEW j \in Index, NEW key \in Keys
  PROVE  QueuedValue(mutations[j], key) \in (Settable(key) \ {Junk}) \cup {None}
  BY DEF ChainInv, TypeOK, WellKeyed, QueuedValue, Entry

LEMMA StepEnter == ASSUME ChainInv, EnterStep PROVE ChainInv'
  <1> USE ChainAssumption DEF ChainInv
  <1>0. i \in Index /\ steps[i] \in Step
    BY DEF TypeOK, Index
  <1>1. TypeOK'
    <2>1. QueuedValue(mutations[i], "output_format") \in Formats \cup {Raw, None}
      BY <1>0, QueuedValueType DEF Settable, Keys
    <2>2. QueuedValue(mutations[i], "args") \in Args \cup {None}
      BY <1>0, QueuedValueType DEF Settable, Keys
    <2>3. QueuedValue(mutations[i], "output_file") \in Files \cup {None}
      BY <1>0, QueuedValueType DEF Settable, Keys
    <2> DEFINE fmt == QueuedValue(mutations[i], "output_format")
               args == QueuedValue(mutations[i], "args")
               file == QueuedValue(mutations[i], "output_file")
               own == IF args # None THEN args ELSE steps[i].args
    <2>4. own \in Args \cup {None} /\ fmt \in Formats \cup {Raw, None}
      BY <1>0, <2>1, <2>2 DEF Step
    <2>5. host' = [exit |-> None, format |-> fmt, file |-> file, args |-> own,
                   pending |-> <<>>, queued |-> <<>>, total |-> Len(steps)]
      BY DEF EnterStep, FreshHost
    <2>6. Len(steps) \in Nat
      BY DEF TypeOK
    <2> HIDE DEF fmt, args, file, own
    <2>7. host' \in Host
      BY <2>3, <2>4, <2>5, <2>6 DEF Host, file
    <2> QED
      BY <2>7 DEF EnterStep, TypeOK, history
  <1>2. WellKeyed'
    BY DEF WellKeyed, EnterStep, FreshHost
  <1>3. (StepsCounted /\ CursorAhead /\ QueuedAhead /\ StepsInSeries)'
    BY DEF StepsCounted, CursorAhead, QueuedAhead, StepsInSeries, EnterStep, FreshHost
  <1>4. MutationsOnlyAhead'
    BY DEF MutationsOnlyAhead, EnterStep
  <1> QED
    BY <1>1, <1>2, <1>3, <1>4

\* A host call that only writes slots of the running mold, or reads.
LEMMA StepSlot ==
  ASSUME ChainInv, HostCall, host' \in Host, exitLog' \in Seq(ExitEvent),
         host'.pending = host.pending, host'.queued = host.queued,
         host'.total = host.total
  PROVE  ChainInv'
  <1> USE DEF ChainInv, HostCall
  <1>1. TypeOK'
    BY ChainAssumption DEF TypeOK
  <1>2. WellKeyed'
    BY DEF WellKeyed
  <1>3. (StepsCounted /\ CursorAhead /\ QueuedAhead /\ StepsInSeries)'
    BY DEF StepsCounted, CursorAhead, QueuedAhead, StepsInSeries
  <1>4. MutationsOnlyAhead'
    BY DEF MutationsOnlyAhead
  <1> QED
    BY <1>1, <1>2, <1>3, <1>4

LEMMA StepSetExit ==
  ASSUME ChainInv, NEW code \in Codes, SetExit(code) PROVE ChainInv'
  <1>1. i \in Index
    BY ChainAssumption DEF ChainInv, TypeOK, Index
  <1>2. host' \in Host /\ host'.pending = host.pending
        /\ host'.queued = host.queued /\ host'.total = host.total
    BY DEF ChainInv, TypeOK, SetExit, Host
  <1>3. exitLog' \in Seq(ExitEvent)
    BY <1>1 DEF ChainInv, TypeOK, SetExit, ExitEvent
  <1> QED
    BY <1>2, <1>3, StepSlot DEF SetExit

LEMMA StepSetFormat ==
  ASSUME ChainInv, NEW f \in Formats \cup {Raw}, SetFormat(f)
  PROVE  ChainInv'
  <1>1. host' \in Host /\ host'.pending = host.pending
        /\ host'.queued = host.queued /\ host'.total = host.total
    BY DEF ChainInv, TypeOK, SetFormat, Host
  <1>2. exitLog' \in Seq(ExitEvent)
    BY DEF ChainInv, TypeOK, SetFormat
  <1> QED
    BY <1>1, <1>2, StepSlot DEF SetFormat

LEMMA StepSetFile ==
  ASSUME ChainInv, NEW path \in Files, SetFile(path) PROVE ChainInv'
  <1>1. host' \in Host /\ host'.pending = host.pending
        /\ host'.queued = host.queued /\ host'.total = host.total
    BY DEF ChainInv, TypeOK, SetFile, Host
  <1>2. exitLog' \in Seq(ExitEvent)
    BY DEF ChainInv, TypeOK, SetFile
  <1> QED
    BY <1>1, <1>2, StepSlot DEF SetFile

LEMMA StepSetQueued ==
  ASSUME ChainInv, NEW j \in Index, NEW key \in Keys, NEW v \in Settable(key),
         SetQueued(j, key, v)
  PROVE  ChainInv'
  <1> DEFINE m == [idx |-> j, key |-> key, entry |-> [val |-> v, to |-> steps[j].id]]
  <1> USE DEF ChainInv
  <1>1. j \in i..Len(steps)
    BY DEF SetQueued, HostCall, QueuedAhead
  <1>2. v \in Value
    BY DEF Settable, Keys, Value
  <1>3. m \in Mutation
    <2>1. steps[j] \in Step
      BY <1>1 DEF TypeOK
    <2> QED
      BY <1>2, <2>1 DEF Mutation, Entry, Step
  <1>4. host' = [host EXCEPT !.queued = Append(host.queued, m)]
    BY DEF SetQueued
  <1>5. host.queued \in Seq(Mutation)
    BY DEF TypeOK, Host
  <1> HIDE DEF m
  <1>6. /\ host' \in Host
        /\ host'.queued = Append(host.queued, m)
        /\ host'.total = host.total
    <2>1. Append(host.queued, m) \in Seq(Mutation)
      BY <1>3, <1>5
    <2>2. host \in Host
      BY DEF TypeOK
    <2> QED
      BY <1>4, <2>1, <2>2 DEF Host
  <1>7. /\ Len(host'.queued) = Len(host.queued) + 1
        /\ \A n \in 1..Len(host'.queued) :
             host'.queued[n] = IF n <= Len(host.queued) THEN host.queued[n] ELSE m
    BY <1>3, <1>5, <1>6
  <1>8. exitLog' \in Seq(ExitEvent)
    <2>1. v = Junk \/ v \in Codes \/ key # "exit"
      BY DEF Settable
    <2>2. CASE key = "exit"
      <3> DEFINE rest == [n \in 1..Len(exitLog) |->
                            IF exitLog[n].step = j /\ ~exitLog[n].own
                            THEN [exitLog[n] EXCEPT !.code = None] ELSE exitLog[n]]
      <3>1. ASSUME NEW n \in 1..Len(exitLog) PROVE rest[n] \in ExitEvent
        <4>1. exitLog[n] \in ExitEvent
          BY DEF TypeOK
        <4> QED
          BY <4>1 DEF ExitEvent
      <3>2. rest \in Seq(ExitEvent)
        BY <3>1 DEF TypeOK
      <3>3. [step |-> j, own |-> FALSE, code |-> IF v = Junk THEN None ELSE v]
              \in ExitEvent
        BY <2>1, <2>2 DEF ExitEvent
      <3>4. exitLog' = Append(rest, [step |-> j, own |-> FALSE,
                                     code |-> IF v = Junk THEN None ELSE v])
        BY <2>2 DEF SetQueued, WithQueuedExit
      <3> HIDE DEF rest
      <3> QED
        BY <3>2, <3>3, <3>4
    <2>3. CASE key # "exit"
      BY <2>3 DEF SetQueued, TypeOK
    <2> QED
      BY <2>2, <2>3
  <1>9. TypeOK'
    <2>1. HostCall
      BY DEF SetQueued
    <2> QED
      BY <1>6, <1>8, <2>1, ChainAssumption DEF TypeOK, HostCall
  <1>10. WellKeyed'
    BY <1>7 DEF WellKeyed, SetQueued, HostCall, m
  <1>11. (StepsCounted /\ CursorAhead /\ StepsInSeries)'
    BY <1>6 DEF StepsCounted, CursorAhead, StepsInSeries, SetQueued, HostCall
  <1>12. QueuedAhead'
    BY <1>1, <1>6, <1>7 DEF QueuedAhead, SetQueued, HostCall, m
  <1>13. MutationsOnlyAhead'
    BY DEF MutationsOnlyAhead, SetQueued, HostCall
  <1> QED
    BY <1>9, <1>10, <1>11, <1>12, <1>13

LEMMA StepRequest ==
  ASSUME ChainInv, NEW op \in {"next", "append"}, NEW a \in Args \cup {None},
         RequestStep(op, a)
  PROVE  ChainInv'
  <1> DEFINE ps == [op |-> op, step |-> [id |-> StaticSteps + injected
                                              + Len(host.pending) + 1,
                                        args |-> a]]
  <1> USE DEF ChainInv
  <1>1. host.pending \in Seq(Pending)
    BY DEF TypeOK, Host
  <1>2. ps \in Pending
    <2>1. StaticSteps + injected + Len(host.pending) + 1 \in StepId
      <3>1. injected \in Nat /\ StaticSteps \in Nat
        BY ChainAssumption DEF TypeOK
      <3>2. Len(host.pending) \in Nat
        BY <1>1
      <3>3. \A x, y, z \in Nat : x + y + z + 1 \in Nat \ {0}
        OBVIOUS
      <3> QED
        BY <3>1, <3>2, <3>3 DEF StepId
    <2> QED
      BY <2>1 DEF Pending, Step
  <1>3. host' = [host EXCEPT !.pending = Append(host.pending, ps)]
    BY DEF RequestStep
  <1> HIDE DEF ps
  <1>4. host' \in Host /\ host'.queued = host.queued /\ host'.total = host.total
    <2>1. Append(host.pending, ps) \in Seq(Pending)
      BY <1>1, <1>2
    <2>2. host \in Host
      BY DEF TypeOK
    <2> QED
      BY <1>3, <2>1, <2>2 DEF Host
  <1>5. TypeOK'
    <2>1. HostCall /\ exitLog' = exitLog
      BY DEF RequestStep
    <2> QED
      BY <1>4, <2>1, ChainAssumption DEF TypeOK, HostCall
  <1>6. WellKeyed'
    BY <1>4 DEF WellKeyed, RequestStep, HostCall
  <1>7. (StepsCounted /\ CursorAhead /\ QueuedAhead /\ StepsInSeries)'
    BY <1>4 DEF StepsCounted, CursorAhead, QueuedAhead, StepsInSeries, RequestStep,
             HostCall
  <1>8. MutationsOnlyAhead'
    BY DEF MutationsOnlyAhead, RequestStep, HostCall
  <1> QED
    BY <1>5, <1>6, <1>7, <1>8

LEMMA StepFail ==
  ASSUME ChainInv, phase \in {"script", "inject"}, Fail PROVE ChainInv'
  <1> USE DEF ChainInv, Fail, history
  <1>1. TypeOK' /\ WellKeyed'
    BY DEF TypeOK, WellKeyed
  <1>2. (StepsCounted /\ CursorAhead /\ QueuedAhead)'
    BY DEF StepsCounted, CursorAhead, QueuedAhead
  <1>3. StepsInSeries'
    BY DEF StepsInSeries
  <1>4. MutationsOnlyAhead'
    BY DEF MutationsOnlyAhead
  <1> QED
    BY <1>1, <1>2, <1>3, <1>4

\* Folding mutations into the table keeps its type; an entry comes from the
\* table or from the mold.
LEMMA AbsorbProperties ==
  ASSUME ChainInv, NEW j \in Index, NEW key \in Keys
  PROVE  LET e == Absorb(mutations, host.queued)[j][key]
         IN  /\ e \in Entry \cup {None}
             /\ e # None => e.val \in Settable(key)
             /\ \/ e = mutations[j][key]
                \/ \E n \in 1..Len(host.queued) :
                     host.queued[n].idx = j /\ e = host.queued[n].entry
  <1> DEFINE For(n) == host.queued[n].idx = j /\ host.queued[n].key = key
             last == {n \in 1..Len(host.queued) :
                        For(n) /\ \A m \in n + 1..Len(host.queued) : ~For(m)}
             e == Absorb(mutations, host.queued)[j][key]
             n0 == CHOOSE n \in last : TRUE
  <1>1. e = IF last = {} THEN mutations[j][key] ELSE host.queued[n0].entry
    BY DEF Absorb
  <1>2. mutations[j][key] \in Entry \cup {None}
    BY DEF ChainInv, TypeOK
  <1>3. CASE last = {}
    BY <1>1, <1>2, <1>3 DEF ChainInv, WellKeyed
  <1>4. CASE last # {}
    <2>1. n0 \in last
      BY <1>4
    <2>2. n0 \in 1..Len(host.queued) /\ For(n0)
      BY <2>1
    <2> HIDE DEF n0
    <2>6. host.queued \in Seq(Mutation)
      BY DEF ChainInv, TypeOK, Host
    <2>3. host.queued[n0] \in Mutation
      BY <2>2, <2>6
    <2>4. host.queued[n0].entry \in Entry
      BY <2>3 DEF Mutation
    <2>5. host.queued[n0].entry.val \in Settable(key)
      BY <2>2 DEF ChainInv, WellKeyed
    <2> QED
      BY <1>1, <1>4, <2>2, <2>4, <2>5
  <1> QED
    BY <1>3, <1>4

LEMMA StepReturns == ASSUME ChainInv, MoldReturns PROVE ChainInv'
  <1> DEFINE merged == Absorb(mutations, host.queued)
             exit   == QueuedValue(merged[i], "exit")
  <1>1. i \in Index
    BY ChainAssumption DEF ChainInv, TypeOK, Index
  <1>2. merged \in [Index -> [Keys -> Entry \cup {None}]]
    <2>1. merged = [j \in Index |-> [key \in Keys |-> merged[j][key]]]
      BY SMTT(30) DEF Absorb
    <2> HIDE DEF merged
    <2>2. \A j \in Index, key \in Keys : merged[j][key] \in Entry \cup {None}
      BY AbsorbProperties DEF merged
    <2> QED
      BY <2>1, <2>2
  <1>3. mutations' = [merged EXCEPT ![i] = NothingQueued]
    BY DEF MoldReturns, Consume
  <1>4. exit \in Codes \cup {None}
    <2>1. merged[i]["exit"] # None => merged[i]["exit"].val \in Settable("exit")
      BY <1>1, AbsorbProperties DEF Keys
    <2> QED
      BY <2>1 DEF QueuedValue, Settable
  <1> HIDE DEF merged, exit
  <1>5. NothingQueued \in [Keys -> Entry \cup {None}]
    BY DEF NothingQueued
  <1>6. injected' \in 0..MaxDynamicSteps /\ insertAt' = i + 1
    BY ChainAssumption DEF MoldReturns, WithinCap, ChainInv, TypeOK, Host
  <1>7. lastExit' \in Codes \cup {None}
    BY <1>4 DEF MoldReturns, exit, merged, ChainInv, TypeOK
  <1>8. TypeOK'
    <2>1. mutations' \in [Index -> [Keys -> Entry \cup {None}]]
      BY <1>2, <1>3, <1>5
    <2>2. insertAt' \in Nat
      BY <1>6 DEF ChainInv, TypeOK
    <2> QED
      BY <1>6, <1>7, <2>1, <2>2 DEF MoldReturns, ChainInv, TypeOK, history
  <1>9. WellKeyed'
    <2>1. ASSUME NEW j \in Index, NEW key \in Keys, mutations'[j][key] # None
          PROVE  mutations'[j][key].val \in Settable(key)
      <3>1. j # i /\ mutations'[j][key] = merged[j][key]
        BY <1>1, <1>2, <1>3, <2>1 DEF NothingQueued
      <3> QED
        BY <2>1, <3>1, AbsorbProperties DEF merged
    <2> QED
      BY <2>1 DEF WellKeyed, MoldReturns, ChainInv
  <1>10. (StepsCounted /\ CursorAhead /\ QueuedAhead /\ StepsInSeries)'
    <2>1. Len(steps) = StaticSteps + injected
      BY DEF MoldReturns, ChainInv, StepsCounted
    <2>2. StepsCounted'
      BY <2>1, ChainAssumption DEF StepsCounted, MoldReturns, ChainInv, TypeOK, Host
    <2>3. CursorAhead'
      BY <1>6 DEF CursorAhead, MoldReturns, ChainInv, TypeOK
    <2>4. QueuedAhead' /\ StepsInSeries'
      BY DEF QueuedAhead, StepsInSeries, MoldReturns, ChainInv
    <2> QED
      BY <2>2, <2>3, <2>4
  <1>11. MutationsOnlyAhead'
    <2>1. ASSUME NEW j \in Index, mutations'[j] # NothingQueued
          PROVE  j <= Len(steps) /\ j > i
      <3>1. j # i /\ mutations'[j] = merged[j]
        BY <1>1, <1>2, <1>3, <2>1
      <3>2. PICK key \in Keys : merged[j][key] # None
        BY <1>2, <2>1, <3>1 DEF NothingQueued
      <3>3. \/ mutations[j][key] # None
            \/ \E n \in 1..Len(host.queued) : host.queued[n].idx = j
        BY <3>2, AbsorbProperties DEF merged
      <3>4. CASE mutations[j][key] # None
        <4>1. mutations[j] # NothingQueued
          BY <3>4 DEF NothingQueued
        <4> QED
          BY <1>1, <3>1, <4>1 DEF ChainInv, MutationsOnlyAhead, TypeOK, Index
      <3>5. CASE \E n \in 1..Len(host.queued) : host.queued[n].idx = j
        BY <3>1, <3>5 DEF ChainInv, QueuedAhead, MoldReturns, TypeOK
      <3> QED
        BY <3>3, <3>4, <3>5
    <2> QED
      BY <1>1, <2>1 DEF MutationsOnlyAhead, MoldReturns, Index
  <1> QED
    BY <1>8, <1>9, <1>10, <1>11 DEF ChainInv

LEMMA StepInject == ASSUME ChainInv, InjectStep PROVE ChainInv'
  <1> DEFINE ps == Head(host.pending)
  <1> USE DEF ChainInv
  <1>1. /\ host.pending \in Seq(Pending) /\ host.pending # <<>>
        /\ steps \in Seq(Step) /\ i \in 1..Len(steps)
        /\ insertAt \in i + 1..Len(steps) + 1
    BY DEF InjectStep, TypeOK, Host, CursorAhead
  <1>2. /\ ps \in Pending
        /\ Tail(host.pending) \in Seq(Pending)
        /\ Len(Tail(host.pending)) = Len(host.pending) - 1
    BY <1>1
  <1>3. ps.step \in Step /\ ps.op \in {"next", "append"}
    BY <1>2 DEF Pending
  <1>4. steps' = Placed(ps) /\ host' = [host EXCEPT !.pending = Tail(host.pending)]
    BY DEF InjectStep
  <1>5. insertAt' = IF ps.op = "next" THEN insertAt + 1 ELSE insertAt
    BY DEF InjectStep, CursorAfter
  <1> HIDE DEF ps
  <1>6. /\ steps' \in Seq(Step)
        /\ Len(steps') = Len(steps) + 1
        /\ \A k \in 1..i : steps'[k] = steps[k]
    <2>1. CASE ps.op = "next"
      <3>1. steps' = InsertAt(steps, insertAt, ps.step)
        BY <1>4, <2>1 DEF Placed
      <3>2. insertAt \in 1..Len(steps) + 1 /\ \A k \in 1..i : k \in 1..insertAt - 1
        BY <1>1
      <3>3. PICK e, at : e = ps.step /\ at = insertAt
        OBVIOUS
      <3>4. steps \in Seq(Step) /\ e \in Step /\ at \in 1..Len(steps) + 1
        BY <1>1, <1>3, <3>2, <3>3
      <3>5. /\ InsertAt(steps, at, e) \in Seq(Step)
            /\ Len(InsertAt(steps, at, e)) = Len(steps) + 1
            /\ InsertAt(steps, at, e)[at] = e
            /\ \A k \in 1..at - 1 : InsertAt(steps, at, e)[k] = steps[k]
            /\ \A k \in at..Len(steps) : InsertAt(steps, at, e)[k + 1] = steps[k]
        BY <3>4, InsertAtProperties
      <3> QED
        BY <3>1, <3>2, <3>3, <3>5
    <2>2. CASE ps.op = "append"
      BY <1>1, <1>3, <1>4, <2>2 DEF Placed
    <2> QED
      BY <1>3, <2>1, <2>2
  <1>7. host' \in Host /\ host'.queued = host.queued /\ host'.total = host.total
        /\ host'.pending = Tail(host.pending)
    <2>1. host \in Host
      BY DEF TypeOK
    <2> QED
      BY <1>2, <1>4, <2>1 DEF Host
  <1>8. Len(steps') + Len(host'.pending) = StaticSteps + injected
    <2>1. Len(steps) + Len(host.pending) = StaticSteps + injected
      BY DEF StepsCounted, InjectStep
    <2>2. Len(steps) \in Nat /\ Len(host.pending) \in Nat
      BY <1>1
    <2>3. Len(host'.pending) = Len(host.pending) - 1 /\ Len(steps') = Len(steps) + 1
      BY <1>2, <1>6, <1>7
    <2>4. \A p, q \in Nat : (q + 1) + (p - 1) = q + p
      OBVIOUS
    <2>5. (Len(steps) + 1) + (Len(host.pending) - 1) = Len(steps) + Len(host.pending)
      BY <2>2, <2>4
    <2> QED
      BY <2>1, <2>3, <2>5
  <1>9. TypeOK'
    <2>1. Len(host'.pending) \in Nat /\ Len(steps') \in Nat /\ Len(steps) \in Nat
      BY <1>1, <1>6, <1>7, <1>2
    <2>2. Len(steps') <= StaticSteps + MaxDynamicSteps
      BY <1>8, <2>1, ChainAssumption DEF TypeOK
    <2>3. i' \in 1..Len(steps') /\ insertAt' \in Nat
      BY <1>1, <1>5, <1>6, <2>1 DEF InjectStep
    <2>4. shifted' \in BOOLEAN
      BY DEF InjectStep, TypeOK
    <2> QED
      BY <1>6, <1>7, <2>2, <2>3, <2>4 DEF InjectStep, TypeOK
  <1>10. WellKeyed'
    BY <1>7 DEF WellKeyed, InjectStep
  <1>11. (StepsCounted /\ CursorAhead /\ QueuedAhead)'
    <2>1. StepsCounted' /\ QueuedAhead'
      BY <1>8 DEF StepsCounted, QueuedAhead, InjectStep
    <2>2. CursorAhead'
      BY <1>1, <1>5, <1>6 DEF CursorAhead, InjectStep
    <2> QED
      BY <2>1, <2>2
  <1>12. StepsInSeries'
    <2>1. phase = "inject" /\ phase' = phase /\ data' = data /\ i' = i
      BY DEF InjectStep
    <2>2. Len(data) = i - 1 /\ \A k \in 1..i - 1 : data[k] = steps[k].id
      BY <2>1 DEF StepsInSeries
    <2>3. \A k \in 1..i - 1 : steps'[k] = steps[k]
      BY <1>1, <1>6
    <2> QED
      BY <2>1, <2>2, <2>3 DEF StepsInSeries
  <1>13. MutationsOnlyAhead'
    BY <1>1, <1>6 DEF MutationsOnlyAhead, InjectStep, Index
  <1> QED
    BY <1>9, <1>10, <1>11, <1>12, <1>13

\* The data grows by the step that ran.
LEMMA DataGrows ==
  ASSUME ChainInv, phase # "done", data' = Append(data, steps[i].id)
  PROVE  /\ data' \in Seq(StepId) /\ Len(data') = i
         /\ \A k \in 1..i : data'[k] = steps[k].id
  <1>1. steps[i] \in Step /\ data \in Seq(StepId) /\ Len(data) = i - 1 /\ i \in Nat
    BY DEF ChainInv, TypeOK, StepsInSeries
  <1>2. steps[i].id \in StepId
    BY <1>1 DEF Step
  <1> QED
    BY <1>1, <1>2 DEF ChainInv, StepsInSeries

LEMMA StepNext == ASSUME ChainInv, Settled, ~IsLast(i), NextStep
                  PROVE  ChainInv'
  <1>1. /\ data' \in Seq(StepId) /\ Len(data') = i
        /\ \A k \in 1..i : data'[k] = steps[k].id
    BY DataGrows DEF NextStep, Settled
  <1>2. i \in Nat /\ i < Len(steps) /\ Len(steps) \in Nat
    BY DEF ChainInv, TypeOK, IsLast
  <1> USE DEF ChainInv, NextStep, Settled
  <1>3. lastExit' \in Codes \cup {None}
    BY DEF ExitAfter, TypeOK, Host
  <1>4. TypeOK'
    BY <1>1, <1>2, <1>3 DEF TypeOK
  <1>5. WellKeyed'
    BY DEF WellKeyed
  <1>6. (StepsCounted /\ CursorAhead /\ QueuedAhead)'
    BY DEF StepsCounted, CursorAhead, QueuedAhead, TypeOK
  <1>7. StepsInSeries'
    BY <1>1, <1>2 DEF StepsInSeries
  <1>8. MutationsOnlyAhead'
    BY <1>2 DEF MutationsOnlyAhead, Index
  <1> QED
    BY <1>4, <1>5, <1>6, <1>7, <1>8

LEMMA StepReturn == ASSUME ChainInv, Return PROVE ChainInv'
  <1>1. /\ data' \in Seq(StepId) /\ Len(data') = i
        /\ \A k \in 1..i : data'[k] = steps[k].id
    BY DataGrows DEF Return, Settled
  <1>2. i = Len(steps)
    BY DEF Return, IsLast
  <1> USE DEF ChainInv, Return, Settled, history
  <1>3. ExitAfter(host.exit) \in Codes \cup {None}
    BY DEF ExitAfter, TypeOK, Host
  <1>4. outcome' \in [exit : Codes \cup {None}, file : Files \cup {None},
                      format : Formats \cup {Raw, None}]
    <2>1. /\ host.file \in Files \cup {None}
          /\ host.format \in Formats \cup {Raw, None}
      BY DEF TypeOK, Host
    <2> QED
      BY <1>3, <2>1
  <1>5. TypeOK'
    BY <1>1, <1>3, <1>4 DEF TypeOK
  <1>6. WellKeyed'
    BY DEF WellKeyed
  <1>7. (StepsCounted /\ CursorAhead /\ QueuedAhead)'
    BY DEF StepsCounted, CursorAhead, QueuedAhead, TypeOK
  <1>8. StepsInSeries'
    BY <1>1, <1>2 DEF StepsInSeries
  <1>9. MutationsOnlyAhead'
    BY DEF MutationsOnlyAhead
  <1> QED
    BY <1>5, <1>6, <1>7, <1>8, <1>9

----------------------------------------------------------------------------
\* Where mutations go.

\* A step that moves no step, queues nothing and leaves the table alone.
LEMMA AddressesKept ==
  ASSUME QueuedAddressed, StaleOnlyAfterInsert, UNCHANGED <<steps, mutations, shifted>>,
         phase' = "script" => \/ host'.queued = <<>>
                              \/ phase = "script" /\ host'.queued = host.queued
  PROVE  (QueuedAddressed /\ StaleOnlyAfterInsert)'
  <1>1. QueuedAddressed'
    BY DEF QueuedAddressed
  <1>2. StaleOnlyAfterInsert'
    BY DEF StaleOnlyAfterInsert
  <1> QED
    BY <1>1, <1>2

LEMMA AddressesSetQueued ==
  ASSUME ChainInv, QueuedAddressed, StaleOnlyAfterInsert,
         NEW j \in Index, NEW key \in Keys, NEW v \in Settable(key), SetQueued(j, key, v)
  PROVE  (QueuedAddressed /\ StaleOnlyAfterInsert)'
  <1>1. PICK m : m = [idx |-> j, key |-> key, entry |-> [val |-> v, to |-> steps[j].id]]
    OBVIOUS
  <1>2. /\ UNCHANGED <<steps, mutations, shifted, phase>> /\ phase = "script"
        /\ host' = [host EXCEPT !.queued = Append(host.queued, m)]
    BY <1>1 DEF SetQueued, HostCall
  <1>3. host \in Host /\ host.queued \in Seq(Mutation)
    BY DEF ChainInv, TypeOK, Host
  <1>4. host'.queued = Append(host.queued, m)
    BY <1>2, <1>3 DEF Host
  <1>5. /\ Len(host'.queued) = Len(host.queued) + 1
        /\ \A n \in 1..Len(host'.queued) :
             host'.queued[n] = IF n <= Len(host.queued) THEN host.queued[n] ELSE m
    BY <1>3, <1>4
  <1>6. m.entry.to = steps[m.idx].id
    BY <1>1
  <1>7. QueuedAddressed'
    BY <1>2, <1>3, <1>5, <1>6 DEF QueuedAddressed
  <1>8. StaleOnlyAfterInsert'
    BY <1>2 DEF StaleOnlyAfterInsert
  <1> QED
    BY <1>7, <1>8

\* What the mold queued last for a step and key is for the step that stands there.
LEMMA AddressesReturns ==
  ASSUME ChainInv, QueuedAddressed, StaleOnlyAfterInsert, MoldReturns
  PROVE  (QueuedAddressed /\ StaleOnlyAfterInsert)'
  <1>1. PICK merged : merged = Absorb(mutations, host.queued)
    OBVIOUS
  <1>2. /\ mutations' = [merged EXCEPT ![i] = NothingQueued]
        /\ phase = "script" /\ phase' = "inject" /\ steps' = steps /\ shifted' = shifted
    BY <1>1 DEF MoldReturns, Consume, history
  <1>3. merged = [j \in Index |-> merged[j]]
    BY <1>1 DEF Absorb
  <1>4. ASSUME NEW j \in Index, NEW key \in Keys, mutations'[j][key] # None
        PROVE  \E k \in j..Len(steps) :
                 /\ steps[k].id = mutations'[j][key].to
                 /\ k # j => shifted
    <2>1. j # i /\ mutations'[j][key] = merged[j][key]
      BY <1>2, <1>3, <1>4 DEF NothingQueued
    <2>2. \/ merged[j][key] = mutations[j][key]
          \/ \E n \in 1..Len(host.queued) :
               host.queued[n].idx = j /\ merged[j][key] = host.queued[n].entry
      BY <1>1, AbsorbProperties
    <2>3. CASE merged[j][key] = mutations[j][key]
      BY <1>4, <2>1, <2>3 DEF StaleOnlyAfterInsert
    <2>4. ASSUME NEW n \in 1..Len(host.queued), host.queued[n].idx = j,
                 merged[j][key] = host.queued[n].entry
          PROVE  /\ j \in j..Len(steps)
                 /\ steps[j].id = mutations'[j][key].to
      <3>1. host.queued[n].entry.to = steps[j].id
        BY <1>2, <2>4 DEF QueuedAddressed
      <3>2. j \in i..Len(steps) /\ i \in Nat /\ Len(steps) \in Nat
        BY <1>2, <2>4 DEF ChainInv, QueuedAhead, TypeOK
      <3> QED
        BY <2>1, <2>4, <3>1, <3>2
    <2> QED
      BY <2>2, <2>3, <2>4
  <1>5. StaleOnlyAfterInsert'
    BY <1>2, <1>4 DEF StaleOnlyAfterInsert
  <1>6. QueuedAddressed'
    BY <1>2 DEF QueuedAddressed
  <1> QED
    BY <1>5, <1>6

\* Placing a step moves the later ones back, never forward, and by insert_next only.
LEMMA AddressesInject ==
  ASSUME ChainInv, QueuedAddressed, StaleOnlyAfterInsert, InjectStep
  PROVE  (QueuedAddressed /\ StaleOnlyAfterInsert)'
  <1>1. PICK ps : ps = Head(host.pending)
    OBVIOUS
  <1>2. /\ steps' = Placed(ps) /\ phase = "inject" /\ phase' = phase
        /\ mutations' = mutations
        /\ shifted' = (shifted \/ (ps.op = "next" /\ insertAt <= Len(steps)))
    BY <1>1 DEF InjectStep
  <1>3. /\ steps \in Seq(Step) /\ insertAt \in 1..Len(steps) + 1
        /\ Len(steps) \in Nat
    BY <1>2 DEF ChainInv, TypeOK, CursorAhead
  <1>4. ps.step \in Step /\ ps.op \in {"next", "append"}
    <2>1. host.pending \in Seq(Pending) /\ host.pending # <<>>
      BY DEF InjectStep, ChainInv, TypeOK, Host
    <2>2. ps \in Pending
      BY <1>1, <2>1
    <2> QED
      BY <2>2 DEF Pending
  <1>5. /\ Len(steps') = Len(steps) + 1
        /\ \A k \in 1..Len(steps) :
             \/ steps'[k] = steps[k]
             \/ steps'[k + 1] = steps[k] /\ shifted'
    <2>1. CASE ps.op = "next"
      <3>1. /\ Len(steps') = Len(steps) + 1
            /\ \A k \in 1..insertAt - 1 : steps'[k] = steps[k]
            /\ \A k \in insertAt..Len(steps) : steps'[k + 1] = steps[k]
        <4>1. PICK e, at : e = ps.step /\ at = insertAt
          OBVIOUS
        <4>2. steps' = InsertAt(steps, at, e)
          BY <1>2, <2>1, <4>1 DEF Placed
        <4>3. steps \in Seq(Step) /\ e \in Step /\ at \in 1..Len(steps) + 1
          BY <1>3, <1>4, <4>1
        <4>4. /\ InsertAt(steps, at, e) \in Seq(Step)
              /\ Len(InsertAt(steps, at, e)) = Len(steps) + 1
              /\ InsertAt(steps, at, e)[at] = e
              /\ \A k \in 1..at - 1 : InsertAt(steps, at, e)[k] = steps[k]
              /\ \A k \in at..Len(steps) : InsertAt(steps, at, e)[k + 1] = steps[k]
          BY <4>3, InsertAtProperties
        <4> QED
          BY <4>1, <4>2, <4>4
      <3>2. \A k \in 1..Len(steps) :
              \/ k \in 1..insertAt - 1
              \/ k \in insertAt..Len(steps) /\ insertAt <= Len(steps)
        BY <1>3
      <3> QED
        BY <1>2, <2>1, <3>1, <3>2
    <2>2. CASE ps.op = "append"
      BY <1>2, <1>3, <1>4, <2>2 DEF Placed
    <2> QED
      BY <1>4, <2>1, <2>2
  <1>6. ASSUME NEW j \in Index, NEW key \in Keys, mutations[j][key] # None
        PROVE  \E k \in j..Len(steps') :
                 /\ steps'[k].id = mutations[j][key].to
                 /\ k # j => shifted'
    <2>1. PICK k \in j..Len(steps) : /\ steps[k].id = mutations[j][key].to
                                     /\ k # j => shifted
      BY <1>6 DEF StaleOnlyAfterInsert
    <2>2. j \in Nat \ {0} /\ k \in Nat /\ k >= j /\ k <= Len(steps)
      BY <1>3, <2>1, ChainAssumption DEF Index
    <2>3. /\ k \in 1..Len(steps)
          /\ k \in j..Len(steps') /\ k + 1 \in j..Len(steps')
      BY <1>3, <1>5, <2>2
    <2>4. CASE steps'[k] = steps[k]
      <3>1. shifted => shifted'
        BY <1>2, Zenon
      <3>2. steps'[k].id = mutations[j][key].to
        BY <2>1, <2>4
      <3>4. k # j => shifted'
        BY <2>1, <3>1, Zenon
      <3>3. k \in j..Len(steps')
        BY <2>3
      <3> WITNESS k \in j..Len(steps')
      <3> QED
        BY <3>2, <3>4
    <2>5. CASE steps'[k + 1] = steps[k] /\ shifted'
      <3>1. steps'[k + 1].id = mutations[j][key].to
        BY <2>1, <2>5
      <3>3. k + 1 # j => shifted'
        BY <2>5, Zenon
      <3>2. k + 1 \in j..Len(steps')
        BY <2>3
      <3> WITNESS k + 1 \in j..Len(steps')
      <3> QED
        BY <3>1, <3>3
    <2> QED
      BY <1>5, <2>3, <2>4, <2>5
  <1>7. StaleOnlyAfterInsert'
    BY <1>2, <1>6 DEF StaleOnlyAfterInsert
  <1>8. QueuedAddressed'
    BY <1>2 DEF QueuedAddressed
  <1> QED
    BY <1>7, <1>8

LEMMA AddressesInductive ==
  ChainInv /\ QueuedAddressed /\ StaleOnlyAfterInsert /\ [Next]_vars
    => (QueuedAddressed /\ StaleOnlyAfterInsert)'
  <1> SUFFICES ASSUME ChainInv, QueuedAddressed, StaleOnlyAfterInsert, [Next]_vars
               PROVE  (QueuedAddressed /\ StaleOnlyAfterInsert)'
    OBVIOUS
  <1>1. CASE EnterStep
    <2>1. UNCHANGED <<steps, mutations, shifted>> /\ host'.queued = <<>>
      BY <1>1 DEF EnterStep, FreshHost, history
    <2> QED
      BY <2>1, AddressesKept
  <1>2. ASSUME HostCall, host'.queued = host.queued
        PROVE  (QueuedAddressed /\ StaleOnlyAfterInsert)'
    BY <1>2, AddressesKept DEF HostCall
  <1>3. host \in Host
    BY DEF ChainInv, TypeOK
  <1>4. ASSUME NEW c \in Codes, SetExit(c)
        PROVE  (QueuedAddressed /\ StaleOnlyAfterInsert)'
    BY <1>2, <1>3, <1>4 DEF SetExit, Host
  <1>5. ASSUME NEW f \in Formats \cup {Raw}, SetFormat(f)
        PROVE  (QueuedAddressed /\ StaleOnlyAfterInsert)'
    BY <1>2, <1>3, <1>5 DEF SetFormat, Host
  <1>6. ASSUME NEW p \in Files, SetFile(p)
        PROVE  (QueuedAddressed /\ StaleOnlyAfterInsert)'
    BY <1>2, <1>3, <1>6 DEF SetFile, Host
  <1>7. ASSUME NEW j \in Index, NEW key \in Keys, NEW v \in Settable(key),
               SetQueued(j, key, v)
        PROVE  (QueuedAddressed /\ StaleOnlyAfterInsert)'
    BY <1>7, AddressesSetQueued
  <1>8. ASSUME NEW op \in {"next", "append"}, NEW a \in Args \cup {None},
               RequestStep(op, a)
        PROVE  (QueuedAddressed /\ StaleOnlyAfterInsert)'
    BY <1>2, <1>3, <1>8 DEF RequestStep, Host
  <1>9. CASE MoldFails \/ CapExceeded \/ ResolveFails \/ ReparseFails
    <2>1. phase' = "failed" /\ UNCHANGED <<steps, mutations, shifted>>
      BY <1>9 DEF MoldFails, CapExceeded, ResolveFails, ReparseFails, Fail, history
    <2> QED
      BY <2>1, AddressesKept
  <1>10. CASE MoldReturns
    BY <1>10, AddressesReturns
  <1>11. CASE InjectStep
    BY <1>11, AddressesInject
  <1>12. CASE ThreadData \/ Reparse
    <2>1. phase' = "enter" /\ UNCHANGED <<steps, mutations, shifted>>
      BY <1>12 DEF ThreadData, Reparse, NextStep
    <2> QED
      BY <2>1, AddressesKept
  <1>13. CASE Return
    <2>1. phase' = "done" /\ UNCHANGED <<steps, mutations, shifted>>
      BY <1>13 DEF Return, history
    <2> QED
      BY <2>1, AddressesKept
  <1>14. CASE UNCHANGED vars
    <2>1. UNCHANGED <<steps, mutations, shifted, phase, host>>
      BY <1>14 DEF vars
    <2> QED
      BY <2>1, AddressesKept
  <1> QED
    BY <1>1, <1>4, <1>5, <1>6, <1>7, <1>8, <1>9, <1>10, <1>11, <1>12, <1>13, <1>14
    DEF Next, Ended

----------------------------------------------------------------------------
\* The theorems.

LEMMA ChainInvInductive == ChainInv /\ [Next]_vars => ChainInv'
  <1> SUFFICES ASSUME ChainInv, [Next]_vars PROVE ChainInv'
    OBVIOUS
  <1>1. CASE EnterStep
    BY <1>1, StepEnter
  <1>2. ASSUME NEW c \in Codes, SetExit(c) PROVE ChainInv'
    BY <1>2, StepSetExit
  <1>3. ASSUME NEW f \in Formats \cup {Raw}, SetFormat(f)
        PROVE  ChainInv'
    BY <1>3, StepSetFormat
  <1>4. ASSUME NEW p \in Files, SetFile(p) PROVE ChainInv'
    BY <1>4, StepSetFile
  <1>5. ASSUME NEW j \in Index, NEW key \in Keys, NEW v \in Settable(key),
               SetQueued(j, key, v)
        PROVE  ChainInv'
    BY <1>5, StepSetQueued
  <1>6. ASSUME NEW op \in {"next", "append"}, NEW a \in Args \cup {None},
               RequestStep(op, a)
        PROVE  ChainInv'
    BY <1>6, StepRequest
  <1>7. CASE MoldFails \/ CapExceeded \/ ResolveFails \/ ReparseFails
    BY <1>7, StepFail DEF MoldFails, CapExceeded, ResolveFails, ReparseFails, Settled
  <1>8. CASE MoldReturns
    BY <1>8, StepReturns
  <1>9. CASE InjectStep
    BY <1>9, StepInject
  <1>10. CASE ThreadData
    BY <1>10, StepNext DEF ThreadData
  <1>11. CASE Reparse
    BY <1>11, StepNext DEF Reparse
  <1>12. CASE Return
    BY <1>12, StepReturn
  <1>13. CASE UNCHANGED vars
    BY <1>13 DEF vars, ChainInv, TypeOK, WellKeyed, StepsCounted, CursorAhead,
             QueuedAhead, StepsInSeries, MutationsOnlyAhead
  <1> QED
    BY <1>1, <1>2, <1>3, <1>4, <1>5, <1>6, <1>7, <1>8, <1>9, <1>10, <1>11, <1>12,
       <1>13 DEF Next, Ended

\* Every reachable state of the chain satisfies the inductive invariant.
THEOREM ChainInvariant == Spec => []ChainInv
  BY InitChain, ChainInvInductive, PTL DEF Spec

\* Type correctness: no number of injecting molds takes the chain past
\* StaticSteps + MaxDynamicSteps steps (execute_chain).
THEOREM ChainTypeOK == Spec => []TypeOK
  BY ChainInvariant, PTL DEF ChainInv

\* The data handed to a step, and the value returned, went through exactly the
\* steps before it, whatever molds inject (execute_chain's loop).
THEOREM ChainSeriesOrder == Spec => []StepsInSeries
  BY ChainInvariant, PTL DEF ChainInv

\* The cap on injected steps covers the chain, placed and pending steps alike.
THEOREM ChainInjectionBounded == Spec => []InjectionBounded
  <1>1. ChainInv => InjectionBounded
    BY ChainAssumption DEF ChainInv, TypeOK, StepsCounted, InjectionBounded
  <1> QED
    BY <1>1, ChainInvariant, PTL

\* No queued mutation is left behind at an index the loop has passed.
THEOREM ChainMutationsAhead == Spec => []MutationsOnlyAhead
  BY ChainInvariant, PTL DEF ChainInv

\* A queued mutation is never delivered after the step it was meant for, and meets
\* that very step unless an insert_next pushed it back (execute_chain).
THEOREM ChainStaleOnlyAfterInsert == Spec => []StaleOnlyAfterInsert
  <1>1. Init => QueuedAddressed /\ StaleOnlyAfterInsert
    BY DEF Init, QueuedAddressed, StaleOnlyAfterInsert, NothingQueued, FreshHost
  <1> QED
    BY <1>1, ChainInvariant, AddressesInductive, PTL DEF Spec

----------------------------------------------------------------------------
\* Exit codes

\* What comes later than all the rest is what counts.
LEMMA LatestOver ==
  ASSUME NEW S, NEW T, NEW code, NEW later, Latest(S, code), Latest(T, later),
         \A m \in S, n \in T : Earlier(m, n)
  PROVE  Latest(S \cup T, IF T = {} THEN code ELSE later)
  <1>1. CASE T = {}
    <2>1. S \cup T = S
      BY <1>1
    <2> QED
      BY <1>1, <2>1
  <1>2. CASE T # {}
    <2>1. PICK n \in T : later = exitLog[n].code /\ \A m \in T \ {n} : Earlier(m, n)
      BY <1>2 DEF Latest
    <2>2. \A m \in (S \cup T) \ {n} : Earlier(m, n)
      BY <2>1
    <2> QED
      BY <1>2, <2>1, <2>2 DEF Latest
  <1> QED
    BY <1>1, <1>2

\* Whether there is a request shows in the code.
LEMMA LatestNone ==
  ASSUME NEW S \in SUBSET Asked, NEW code, Latest(S, code)
  PROVE  code = None <=> S = {}
  BY DEF Latest, Asked

LEMMA LogType ==
  ASSUME ChainInv
  PROVE  /\ exitLog \in Seq(ExitEvent) /\ Len(exitLog) \in Nat /\ i \in Index /\ i \in Nat
         /\ \A n \in 1..Len(exitLog) : exitLog[n] \in ExitEvent
         /\ \A n \in Asked : exitLog[n].step \in Nat /\ exitLog[n].own \in BOOLEAN
  <1>1. /\ exitLog \in Seq(ExitEvent) /\ i \in 1..Len(steps)
        /\ Len(steps) <= StaticSteps + MaxDynamicSteps /\ Len(steps) \in Nat
    BY DEF ChainInv, TypeOK
  <1>2. i \in Index /\ i \in Nat
    BY <1>1, ChainAssumption DEF Index
  <1>3. \A n \in 1..Len(exitLog) : exitLog[n] \in ExitEvent
    BY <1>1
  <1>4. \A j \in Index : j \in Nat
    BY ChainAssumption DEF Index
  <1>5. \A n \in Asked : exitLog[n].step \in Nat /\ exitLog[n].own \in BOOLEAN
    <2> SUFFICES ASSUME NEW n \in 1..Len(exitLog)
                 PROVE  exitLog[n].step \in Nat /\ exitLog[n].own \in BOOLEAN
      BY DEF Asked
    <2>1. exitLog[n] \in ExitEvent
      BY <1>3
    <2>2. exitLog[n].step \in Index /\ exitLog[n].own \in BOOLEAN
      BY <2>1 DEF ExitEvent
    <2> QED
      BY <2>2, <1>4
  <1>6. Len(exitLog) \in Nat
    BY <1>1
  <1> QED
    BY <1>1, <1>2, <1>3, <1>5, <1>6

\* Nothing queued leaves the table as it is, and one more mutation changes one place.
LEMMA AbsorbNothing ==
  ASSUME NEW j \in Index, NEW key \in Keys
  PROVE  Absorb(mutations, <<>>)[j][key] = mutations[j][key]
  BY DEF Absorb

LEMMA AbsorbAppend ==
  ASSUME NEW queued \in Seq(Mutation), NEW m \in Mutation, NEW j \in Index, NEW key \in Keys
  PROVE  Absorb(mutations, Append(queued, m))[j][key] =
           IF m.idx = j /\ m.key = key THEN m.entry ELSE Absorb(mutations, queued)[j][key]
  <1>1. PICK more : more = Append(queued, m)
    OBVIOUS
  <1> DEFINE ForOld(n) == queued[n].idx = j /\ queued[n].key = key
             ForNew(n) == more[n].idx = j /\ more[n].key = key
             old == {n \in 1..Len(queued) : ForOld(n) /\ \A k \in n + 1..Len(queued) : ~ForOld(k)}
             new == {n \in 1..Len(more) : ForNew(n) /\ \A k \in n + 1..Len(more) : ~ForNew(k)}
  <1>2. /\ Len(queued) \in Nat /\ Len(more) = Len(queued) + 1 /\ more[Len(queued) + 1] = m
        /\ \A n \in 1..Len(queued) : more[n] = queued[n]
    BY <1>1
  <1>3. Absorb(mutations, more)[j][key] =
          IF new = {} THEN mutations[j][key] ELSE more[CHOOSE n \in new : TRUE].entry
    BY DEF Absorb
  <1>4. Absorb(mutations, queued)[j][key] =
          IF old = {} THEN mutations[j][key] ELSE queued[CHOOSE n \in old : TRUE].entry
    BY DEF Absorb
  <1>5. CASE m.idx = j /\ m.key = key
    <2>1. new = {Len(queued) + 1}
      BY <1>2, <1>5
    <2> HIDE DEF new
    <2> QED
      BY <1>1, <1>2, <1>3, <1>5, <2>1
  <1>6. CASE ~(m.idx = j /\ m.key = key)
    <2>1. ~ForNew(Len(queued) + 1)
      BY <1>2, <1>6
    <2>2. \A n \in 1..Len(queued) : ForNew(n) <=> ForOld(n)
      BY <1>2
    <2>3. new = old
      <3> HIDE DEF ForNew, ForOld
      <3>1. ASSUME NEW n \in 1..Len(queued) PROVE n \in new <=> n \in old
        BY <1>2, <2>1, <2>2
      <3>2. Len(queued) + 1 \notin new /\ 1..Len(more) = 1..Len(queued) \cup {Len(queued) + 1}
        BY <1>2, <2>1
      <3> QED
        BY <1>2, <3>1, <3>2
    <2>4. old # {} => (CHOOSE n \in old : TRUE) \in 1..Len(queued)
      OBVIOUS
    <2> HIDE DEF old, new
    <2> QED
      BY <1>1, <1>2, <1>3, <1>4, <1>6, <2>3, <2>4
  <1> QED
    BY <1>5, <1>6

LEMMA InitExits == Init => ExitsCounted
  <1> SUFFICES ASSUME Init PROVE ExitsCounted
    OBVIOUS
  <1>1. Asked = {} /\ phase = "enter" /\ lastExit = None
    BY DEF Init, Asked
  <1>2. \A j \in Index : QueuedValue(Table[j], "exit") = None
    BY <1>1 DEF Init, Table, QueuedValue, NothingQueued, Keys
  <1> QED
    BY <1>1, <1>2 DEF ExitsCounted, Latest, QueuedFor, HadItsTurn

\* Where the log is left alone, so is all that is read from it.
LEMMA LogKept ==
  ASSUME exitLog' = exitLog
  PROVE  /\ Asked' = Asked
         /\ \A S, code : Latest(S, code)' <=> Latest(S, code)
         /\ \A j \in Index : QueuedFor(j)' = QueuedFor(j)
  <1>1. Asked' = Asked
    BY DEF Asked
  <1>2. \A S, code : Latest(S, code)' <=> Latest(S, code)
    BY DEF Latest, Earlier
  <1> QED
    BY <1>1, <1>2 DEF QueuedFor

\* A step that leaves the requests, the table and the turn alone.
LEMMA ExitsKept ==
  ASSUME ExitsCounted, phase # "failed",
         UNCHANGED <<exitLog, i, phase, lastExit, outcome>>,
         phase = "done" => steps' = steps,
         \A j \in Index : QueuedValue(Table[j], "exit")' = QueuedValue(Table[j], "exit"),
         host'.exit = host.exit
  PROVE  ExitsCounted'
  <1>1. /\ Asked' = Asked
        /\ \A S, code : Latest(S, code)' <=> Latest(S, code)
        /\ \A j \in Index : QueuedFor(j)' = QueuedFor(j)
    BY LogKept
  <1>2. OwnAsked' = OwnAsked /\ HadItsTurn' = HadItsTurn
    BY <1>1 DEF OwnAsked, HadItsTurn
  <1> QED
    BY <1>1, <1>2 DEF ExitsCounted

LEMMA ExitsEnter == ChainInv /\ ExitsCounted /\ EnterStep => ExitsCounted'
  <1> SUFFICES ASSUME ChainInv, ExitsCounted, EnterStep PROVE ExitsCounted'
    OBVIOUS
  <1>1. /\ phase = "enter" /\ phase' = "script" /\ host'.queued = <<>> /\ host'.exit = None
        /\ UNCHANGED <<exitLog, i, lastExit, mutations>>
    BY DEF EnterStep, FreshHost, history
  <1>2. /\ Asked' = Asked
        /\ \A S, code : Latest(S, code)' <=> Latest(S, code)
        /\ \A j \in Index : QueuedFor(j)' = QueuedFor(j)
    BY <1>1, LogKept
  <1>3. \A j \in Index : QueuedValue(Table[j], "exit")' = QueuedValue(Table[j], "exit")
    <2> SUFFICES ASSUME NEW j \in Index
                 PROVE  Table'[j]["exit"] = Table[j]["exit"]
      BY DEF QueuedValue
    <2>1. Table' = Absorb(mutations, <<>>) /\ Table = mutations
      BY <1>1 DEF Table, Absorb
    <2> QED
      BY <2>1, AbsorbNothing DEF Keys
  <1>4. \A n \in Asked : exitLog[n].step \in Nat /\ exitLog[n].own \in BOOLEAN
    BY LogType
  <1>5. i \in Nat
    BY LogType
  <1>6. OwnAsked' = {}
    BY <1>1, <1>2, <1>4, <1>5 DEF OwnAsked, ExitsCounted
  <1>7. HadItsTurn' = HadItsTurn
    BY <1>1, <1>2 DEF HadItsTurn
  <1>8. Latest(OwnAsked, host.exit)'
    BY <1>1, <1>6 DEF Latest
  <1> QED
    BY <1>1, <1>2, <1>3, <1>4, <1>5, <1>7, <1>8 DEF ExitsCounted

LEMMA ExitsReturns == ChainInv /\ ExitsCounted /\ MoldReturns => ExitsCounted'
  <1> SUFFICES ASSUME ChainInv, ExitsCounted, MoldReturns PROVE ExitsCounted'
    OBVIOUS
  <1>1. PICK exit : exit = QueuedValue(Table[i], "exit")
    OBVIOUS
  <1>2. /\ phase = "script" /\ phase' = "inject"
        /\ UNCHANGED <<exitLog, i, host>>
        /\ mutations' = Consume(Table, i)
        /\ lastExit' = IF exit # None THEN exit ELSE lastExit
    BY <1>1 DEF MoldReturns, history, Table
  <1>3. /\ Asked' = Asked
        /\ \A S, code : Latest(S, code)' <=> Latest(S, code)
        /\ \A j \in Index : QueuedFor(j)' = QueuedFor(j)
    BY <1>2, LogKept
  <1>4. /\ \A n \in Asked : exitLog[n].step \in Nat /\ exitLog[n].own \in BOOLEAN
        /\ i \in Index /\ i \in Nat
    BY LogType
  <1>5. \A j \in Index : j > i => QueuedValue(Table[j], "exit")' = QueuedValue(Table[j], "exit")
    <2> SUFFICES ASSUME NEW j \in Index, j > i PROVE Table'[j] = Table[j]
      BY DEF QueuedValue
    <2>1. Table' = Consume(Table, i) /\ DOMAIN Table = Index
      BY <1>2 DEF Table, Absorb
    <2> QED
      BY <1>4, <2>1 DEF Consume
  <1>6. OwnAsked' = OwnAsked
    BY <1>2, <1>3 DEF OwnAsked
  <1>7. HadItsTurn' = HadItsTurn \cup QueuedFor(i)
    BY <1>2, <1>3, <1>4 DEF HadItsTurn, QueuedFor
  <1>8. Latest(HadItsTurn, lastExit) /\ Latest(QueuedFor(i), exit)
    BY <1>1, <1>2, <1>4 DEF ExitsCounted
  <1>9. \A m \in HadItsTurn, n \in QueuedFor(i) : Earlier(m, n)
    BY <1>2 DEF HadItsTurn, QueuedFor, Earlier
  <1>10. exit = None <=> QueuedFor(i) = {}
    BY <1>8, LatestNone DEF QueuedFor
  <1>11. Latest(HadItsTurn \cup QueuedFor(i), lastExit')
    <2>1. Latest(HadItsTurn \cup QueuedFor(i), IF QueuedFor(i) = {} THEN lastExit ELSE exit)
      BY <1>8, <1>9, LatestOver
    <2> QED
      BY <1>2, <1>10, <2>1
  <1>12. Latest(HadItsTurn, lastExit)'
    BY <1>3, <1>7, <1>11
  <1> QED
    BY <1>2, <1>3, <1>4, <1>5, <1>6, <1>12 DEF ExitsCounted

\* The end of a step, whether the chain goes on or returns: its own request counts.
LEMMA OwnCounts ==
  ASSUME ChainInv, ExitsCounted, phase = "inject", exitLog' = exitLog,
         \/ phase' = "enter" /\ i' = i + 1
         \/ phase' = "done" /\ i' = i,
         lastExit' = ExitAfter(host.exit)
  PROVE  Latest(HadItsTurn, lastExit)'
  <1>1. /\ \A n \in Asked : exitLog[n].step \in Nat /\ exitLog[n].own \in BOOLEAN
        /\ i \in Nat
    BY LogType
  <1>2. Asked' = Asked /\ \A S, code : Latest(S, code)' <=> Latest(S, code)
    BY LogKept
  <1>3. HadItsTurn' = HadItsTurn \cup OwnAsked
    BY <1>1, <1>2 DEF HadItsTurn, OwnAsked
  <1>4. Latest(HadItsTurn, lastExit) /\ Latest(OwnAsked, host.exit)
    BY DEF ExitsCounted
  <1>5. \A m \in HadItsTurn, n \in OwnAsked : Earlier(m, n)
    BY DEF HadItsTurn, OwnAsked, Earlier
  <1>6. host.exit = None <=> OwnAsked = {}
    BY <1>4, LatestNone DEF OwnAsked
  <1>7. Latest(HadItsTurn \cup OwnAsked, IF OwnAsked = {} THEN lastExit ELSE host.exit)
    BY <1>4, <1>5, LatestOver
  <1>8. Latest(HadItsTurn \cup OwnAsked, lastExit')
    BY <1>6, <1>7 DEF ExitAfter
  <1> QED
    BY <1>2, <1>3, <1>8

LEMMA ExitsNext == ChainInv /\ ExitsCounted /\ Settled /\ NextStep => ExitsCounted'
  <1> SUFFICES ASSUME ChainInv, ExitsCounted, Settled, NextStep PROVE ExitsCounted'
    OBVIOUS
  <1>1. /\ phase = "inject" /\ phase' = "enter" /\ i' = i + 1
        /\ UNCHANGED <<exitLog, mutations>> /\ lastExit' = ExitAfter(host.exit)
    BY DEF Settled, NextStep
  <1>2. /\ Asked' = Asked
        /\ \A S, code : Latest(S, code)' <=> Latest(S, code)
        /\ \A j \in Index : QueuedFor(j)' = QueuedFor(j)
    BY <1>1, LogKept
  <1>3. Latest(HadItsTurn, lastExit)'
    BY <1>1, OwnCounts
  <1>4. /\ \A n \in Asked : exitLog[n].step \in Nat /\ exitLog[n].own \in BOOLEAN
        /\ i \in Nat /\ \A j \in Index : j \in Nat
    BY LogType, ChainAssumption DEF Index
  <1>5. \A j \in Index : QueuedValue(Table[j], "exit")' = QueuedValue(Table[j], "exit")
    BY <1>1 DEF Table, QueuedValue
  <1> QED
    BY <1>1, <1>2, <1>3, <1>4, <1>5 DEF ExitsCounted

LEMMA ExitsReturn == ChainInv /\ ExitsCounted /\ Return => ExitsCounted'
  <1> SUFFICES ASSUME ChainInv, ExitsCounted, Return PROVE ExitsCounted'
    OBVIOUS
  <1>1. /\ phase = "inject" /\ phase' = "done" /\ i = Len(steps)
        /\ UNCHANGED <<exitLog, mutations, i, steps>> /\ lastExit' = ExitAfter(host.exit)
        /\ outcome'.exit = lastExit'
    BY DEF Settled, Return, IsLast, history
  <1>2. /\ Asked' = Asked
        /\ \A S, code : Latest(S, code)' <=> Latest(S, code)
        /\ \A j \in Index : QueuedFor(j)' = QueuedFor(j)
    BY <1>1, LogKept
  <1>3. Latest(HadItsTurn, lastExit)'
    BY <1>1, OwnCounts
  <1>4. \A j \in Index : QueuedValue(Table[j], "exit")' = QueuedValue(Table[j], "exit")
    BY <1>1 DEF Table, QueuedValue
  <1> QED
    BY <1>1, <1>2, <1>3, <1>4 DEF ExitsCounted

LEMMA ExitsSetExit ==
  ASSUME NEW code \in Codes
  PROVE  ChainInv /\ ExitsCounted /\ SetExit(code) => ExitsCounted'
  <1> SUFFICES ASSUME ChainInv, ExitsCounted, SetExit(code) PROVE ExitsCounted'
    OBVIOUS
  <1>1. PICK new : new = Len(exitLog) + 1
    OBVIOUS
  <1>2. /\ phase = "script" /\ phase' = "script"
        /\ UNCHANGED <<i, mutations, lastExit>>
        /\ exitLog' = Append(exitLog, [step |-> i, own |-> TRUE, code |-> code])
        /\ host'.exit = code /\ host'.queued = host.queued
    BY DEF SetExit, HostCall, ChainInv, TypeOK, Host
  <1>3. /\ exitLog \in Seq(ExitEvent) /\ Len(exitLog) \in Nat /\ i \in Nat
        /\ \A n \in Asked : exitLog[n].step \in Nat /\ exitLog[n].own \in BOOLEAN
    BY LogType
  <1>4. code # None
    BY ChainAssumption
  <1>5. /\ Len(exitLog') = new /\ exitLog'[new] = [step |-> i, own |-> TRUE, code |-> code]
        /\ new \notin 1..Len(exitLog) /\ 1..new = 1..Len(exitLog) \cup {new}
        /\ \A n \in 1..Len(exitLog) : exitLog'[n] = exitLog[n] /\ n < new
    BY <1>1, <1>2, <1>3
  <1>6. /\ Asked' = Asked \cup {new}
        /\ \A n \in Asked : exitLog'[n] = exitLog[n] /\ n # new /\ n < new
        /\ exitLog'[new].step = i /\ exitLog'[new].own = TRUE /\ exitLog'[new].code = code
    BY <1>4, <1>5 DEF Asked
  <1>7. \A j \in Index : QueuedFor(j)' = QueuedFor(j)
    BY <1>6 DEF QueuedFor
  <1>8. HadItsTurn' = HadItsTurn
    <2>1. /\ HadItsTurn = {n \in Asked : exitLog[n].step < i}
          /\ HadItsTurn' = {n \in Asked' : exitLog'[n].step < i}
      BY <1>2 DEF HadItsTurn
    <2>2. ~(exitLog'[new].step < i)
      BY <1>3, <1>6
    <2> QED
      BY <1>6, <2>1, <2>2
  <1>9. OwnAsked' = OwnAsked \cup {new}
    <2>1. OwnAsked' = {n \in Asked' : exitLog'[n].own /\ exitLog'[n].step = i}
      BY <1>2 DEF OwnAsked
    <2> QED
      BY <1>6, <2>1 DEF OwnAsked
  <1>10. Latest(HadItsTurn, lastExit)'
    <2>1. Latest(HadItsTurn, lastExit)
      BY <1>2 DEF ExitsCounted
    <2>2. \A n \in HadItsTurn : exitLog'[n] = exitLog[n]
      BY <1>6 DEF HadItsTurn
    <2>3. HadItsTurn' = HadItsTurn /\ lastExit' = lastExit
      BY <1>2, <1>8
    <2> QED
      BY <2>1, <2>2, <2>3 DEF Latest, Earlier
  <1>11. Latest(OwnAsked, host.exit)'
    <2>1. \A m \in OwnAsked : exitLog'[m].step = i /\ exitLog'[m].own = TRUE /\ m < new
      <3>1. \A m \in OwnAsked : m \in Asked /\ exitLog[m].step = i /\ exitLog[m].own = TRUE
        BY <1>3 DEF OwnAsked
      <3> QED
        BY <1>6, <3>1
    <2>2. \A m \in OwnAsked : Earlier(m, new)'
      BY <1>6, <2>1 DEF Earlier
    <2>3. new \in OwnAsked' /\ \A m \in OwnAsked' \ {new} : Earlier(m, new)'
      BY <1>9, <2>2
    <2>4. host'.exit = exitLog'[new].code
      BY <1>2, <1>5
    <2> QED
      BY <2>3, <2>4 DEF Latest
  <1>12. ASSUME NEW j \in Index, j > i \/ j = i
         PROVE  Latest(QueuedFor(j), QueuedValue(Table[j], "exit"))'
    <2>1. Latest(QueuedFor(j), QueuedValue(Table[j], "exit"))
      BY <1>2, <1>12 DEF ExitsCounted
    <2>2. \A n \in QueuedFor(j) : exitLog'[n] = exitLog[n]
      BY <1>6 DEF QueuedFor
    <2>3. QueuedFor(j)' = QueuedFor(j)
      BY <1>7
    <2>4. QueuedValue(Table[j], "exit")' = QueuedValue(Table[j], "exit")
      BY <1>2 DEF Table, QueuedValue, Absorb
    <2> QED
      BY <2>1, <2>2, <2>3, <2>4 DEF Latest, Earlier
  <1>13. \A m, n \in Asked' :
            /\ ~exitLog'[m].own /\ ~exitLog'[n].own /\ exitLog'[m].step = exitLog'[n].step
            => m = n
    <2>1. \A m, n \in Asked :
            ~exitLog[m].own /\ ~exitLog[n].own /\ exitLog[m].step = exitLog[n].step => m = n
      BY <1>2 DEF ExitsCounted
    <2> QED
      BY <1>5, <1>6, <2>1
  <1>14. \A n \in Asked' : exitLog'[n].own => exitLog'[n].step <= i'
    <2>1. \A n \in Asked : exitLog[n].own => exitLog[n].step <= i
      BY <1>2 DEF ExitsCounted
    <2>2. \A n \in Asked : exitLog'[n].own => exitLog'[n].step <= i
      BY <1>6, <2>1
    <2>3. exitLog'[new].step <= i
      BY <1>3, <1>6
    <2> QED
      BY <1>2, <1>6, <2>2, <2>3
  <1> QED
    BY <1>2, <1>10, <1>11, <1>12, <1>13, <1>14 DEF ExitsCounted

\* A mutation of a future step other than of its exit code.
LEMMA ExitsSetOther ==
  ASSUME NEW j \in Index, NEW key \in Keys \ {"exit"}, NEW v \in Settable(key)
  PROVE  ChainInv /\ ExitsCounted /\ SetQueued(j, key, v) => ExitsCounted'
  <1> SUFFICES ASSUME ChainInv, ExitsCounted, SetQueued(j, key, v) PROVE ExitsCounted'
    OBVIOUS
  <1>1. PICK new : new = [idx |-> j, key |-> key,
                          entry |-> [val |-> v, to |-> steps[j].id]]
    OBVIOUS
  <1>2. /\ phase = "script" /\ phase' = "script" /\ host.queued \in Seq(Mutation)
        /\ UNCHANGED <<exitLog, i, mutations, lastExit, outcome>>
        /\ host'.exit = host.exit /\ host'.queued = Append(host.queued, new)
    BY <1>1 DEF SetQueued, HostCall, ChainInv, TypeOK, Host
  <1>3. new \in Mutation /\ new.key = key
    <2>1. steps \in Seq(Step) /\ i \in 1..Len(steps)
      BY DEF ChainInv, TypeOK
    <2>2. host.total = Len(steps) /\ j \in i..host.total
      BY DEF SetQueued, HostCall, ChainInv, QueuedAhead
    <2>3. steps[j] \in Step
      BY <2>1, <2>2
    <2>4. steps[j].id \in StepId
      BY <2>3 DEF Step
    <2>5. v \in Value
      BY DEF Settable, Value, Keys
    <2> QED
      BY <1>1, <2>4, <2>5 DEF Mutation, Entry
  <1>4. ASSUME NEW k \in Index
        PROVE  QueuedValue(Table[k], "exit")' = QueuedValue(Table[k], "exit")
    <2>1. Table' = Absorb(mutations, Append(host.queued, new)) /\ Table = Absorb(mutations, host.queued)
      BY <1>2 DEF Table, Absorb
    <2>2. Table'[k]["exit"] = Table[k]["exit"]
      BY <1>2, <1>3, <2>1, AbsorbAppend DEF Keys
    <2> QED
      BY <2>2 DEF QueuedValue
  <1> QED
    BY <1>2, <1>4, ExitsKept

\* A mutation of a future step's exit code takes the place of the one before it.
LEMMA ExitsSetQueuedExit ==
  ASSUME NEW j \in Index, NEW v \in Settable("exit")
  PROVE  ChainInv /\ ExitsCounted /\ SetQueued(j, "exit", v) => ExitsCounted'
  <1> SUFFICES ASSUME ChainInv, ExitsCounted, SetQueued(j, "exit", v) PROVE ExitsCounted'
    OBVIOUS
  <1>1. PICK new : new = Len(exitLog) + 1
    OBVIOUS
  <1>2. PICK mutation : mutation = [idx |-> j, key |-> "exit",
                                    entry |-> [val |-> v, to |-> steps[j].id]]
    OBVIOUS
  <1>3. PICK code : code = IF v = Junk THEN None ELSE v
    OBVIOUS
  <1>4. /\ phase = "script" /\ phase' = "script" /\ host.queued \in Seq(Mutation)
        /\ UNCHANGED <<i, mutations, lastExit, outcome>>
        /\ exitLog' = WithQueuedExit(j, v)
        /\ host'.exit = host.exit /\ host'.queued = Append(host.queued, mutation)
        /\ j > i
    BY <1>2 DEF SetQueued, HostCall, ChainInv, TypeOK, Host
  <1>5. /\ exitLog \in Seq(ExitEvent) /\ Len(exitLog) \in Nat /\ i \in Nat
        /\ \A n \in 1..Len(exitLog) : exitLog[n] \in ExitEvent
        /\ \A n \in Asked : exitLog[n].step \in Nat /\ exitLog[n].own \in BOOLEAN
        /\ \A k \in Index : k \in Nat
    BY LogType, ChainAssumption DEF Index
  <1>6. /\ Len(exitLog') = new
        /\ exitLog'[new] = [step |-> j, own |-> FALSE, code |-> code]
        /\ new \notin 1..Len(exitLog) /\ 1..new = 1..Len(exitLog) \cup {new}
        /\ \A n \in 1..Len(exitLog) :
             exitLog'[n] = IF exitLog[n].step = j /\ ~exitLog[n].own
                           THEN [exitLog[n] EXCEPT !.code = None] ELSE exitLog[n]
    <2>1. PICK rest : rest = [n \in 1..Len(exitLog) |->
                                IF exitLog[n].step = j /\ ~exitLog[n].own
                                THEN [exitLog[n] EXCEPT !.code = None] ELSE exitLog[n]]
      OBVIOUS
    <2>2. exitLog' = Append(rest, [step |-> j, own |-> FALSE, code |-> code])
      BY <1>3, <1>4, <2>1 DEF WithQueuedExit
    <2>3. rest \in Seq({rest[n] : n \in 1..Len(exitLog)}) /\ Len(rest) = Len(exitLog)
      BY <1>5, <2>1
    <2> QED
      BY <1>1, <1>5, <2>1, <2>2, <2>3
  <1>7. PICK gone : gone = QueuedFor(j)
    OBVIOUS
  <1>8. PICK came : came = IF code = None THEN {} ELSE {new}
    OBVIOUS
  <1>9. \A n \in 1..Len(exitLog) :
          /\ exitLog'[n].step = exitLog[n].step /\ exitLog'[n].own = exitLog[n].own
          /\ exitLog'[n].code = IF exitLog[n].step = j /\ ~exitLog[n].own
                                THEN None ELSE exitLog[n].code
    BY <1>5, <1>6 DEF ExitEvent
  <1>10. Asked' = (Asked \ gone) \cup came
    <2>1. \A n \in 1..Len(exitLog) : n \in Asked' <=> n \in Asked \ gone
      BY <1>6, <1>7, <1>9 DEF Asked, QueuedFor
    <2>2. new \in Asked' <=> code # None
      BY <1>6 DEF Asked
    <2>3. Asked \subseteq 1..Len(exitLog) /\ Asked' \subseteq 1..new
      BY <1>6 DEF Asked
    <2> QED
      BY <1>6, <1>8, <2>1, <2>2, <2>3
  <1>11. \A n \in Asked \ gone : exitLog'[n] = exitLog[n] /\ n # new
    BY <1>6, <1>7 DEF Asked, QueuedFor
  <1>12. QueuedFor(j)' = came
    BY <1>6, <1>7, <1>8, <1>10, <1>11 DEF QueuedFor
  <1>13. \A k \in Index \ {j} : QueuedFor(k)' = QueuedFor(k)
    BY <1>6, <1>7, <1>8, <1>10, <1>11 DEF QueuedFor
  <1>14. OwnAsked' = OwnAsked
    BY <1>4, <1>6, <1>7, <1>8, <1>10, <1>11 DEF OwnAsked, QueuedFor
  <1>15. HadItsTurn' = HadItsTurn
    BY <1>4, <1>5, <1>6, <1>7, <1>8, <1>10, <1>11 DEF HadItsTurn, QueuedFor
  <1>16. \A k \in Index \ {j} : QueuedFor(k) \subseteq Asked \ gone
    BY <1>7 DEF QueuedFor
  <1>17. OwnAsked \subseteq Asked \ gone /\ HadItsTurn \subseteq Asked \ gone
    BY <1>4, <1>5, <1>7 DEF OwnAsked, HadItsTurn, QueuedFor
  <1>18. ASSUME NEW S \in SUBSET (Asked \ gone), NEW c, Latest(S, c)
         PROVE  /\ S = {} => c = None
                /\ S # {} => \E n \in S : c = exitLog'[n].code /\ \A m \in S \ {n} : Earlier(m, n)'
    BY <1>11, <1>18 DEF Latest, Earlier
  <1>19. Latest(OwnAsked, host.exit)' /\ Latest(HadItsTurn, lastExit)'
    <2>1. Latest(OwnAsked, host.exit) /\ Latest(HadItsTurn, lastExit)
      BY <1>4 DEF ExitsCounted
    <2> QED
      BY <1>4, <1>14, <1>15, <1>17, <1>18, <2>1 DEF Latest
  <1>20. mutation \in Mutation /\ mutation.key = "exit" /\ mutation.idx = j /\ mutation.entry.val = v
    <2>1. steps \in Seq(Step) /\ i \in 1..Len(steps)
      BY DEF ChainInv, TypeOK
    <2>2. host.total = Len(steps) /\ j \in i..host.total
      BY DEF SetQueued, HostCall, ChainInv, QueuedAhead
    <2>3. steps[j] \in Step
      BY <2>1, <2>2
    <2>4. steps[j].id \in StepId
      BY <2>3 DEF Step
    <2>5. v \in Value
      BY DEF Settable, Value, Keys
    <2> QED
      BY <1>2, <2>4, <2>5 DEF Mutation, Entry, Keys
  <1>21. Table' = Absorb(mutations, Append(host.queued, mutation)) /\ Table = Absorb(mutations, host.queued)
    BY <1>4 DEF Table, Absorb
  <1>22. QueuedValue(Table[j], "exit")' = code
    <2>1. Table'[j]["exit"] = mutation.entry
      BY <1>4, <1>20, <1>21, AbsorbAppend DEF Keys
    <2>2. v # None /\ mutation.entry # None
      <3>1. v # None
        BY ChainAssumption DEF Settable
      <3>2. mutation.entry \in Entry
        BY <1>20 DEF Mutation
      <3> QED
        BY <3>1, <3>2, ChainAssumption
    <2> QED
      BY <1>3, <1>20, <2>1, <2>2 DEF QueuedValue
  <1>23. \A k \in Index \ {j} : QueuedValue(Table[k], "exit")' = QueuedValue(Table[k], "exit")
    <2> SUFFICES ASSUME NEW k \in Index \ {j} PROVE Table'[k]["exit"] = Table[k]["exit"]
      BY DEF QueuedValue
    <2> QED
      BY <1>4, <1>20, <1>21, AbsorbAppend DEF Keys
  <1>24. ASSUME NEW k \in Index, k > i \/ k = i
         PROVE  Latest(QueuedFor(k), QueuedValue(Table[k], "exit"))'
    <2>1. CASE k = j
      BY <1>6, <1>8, <1>12, <1>22, <2>1 DEF Latest
    <2>2. CASE k # j
      <3>1. Latest(QueuedFor(k), QueuedValue(Table[k], "exit"))
        BY <1>4, <1>24 DEF ExitsCounted
      <3>2. QueuedFor(k)' = QueuedFor(k) /\ QueuedFor(k) \subseteq Asked \ gone
        BY <1>13, <1>16, <2>2
      <3>3. QueuedValue(Table[k], "exit")' = QueuedValue(Table[k], "exit")
        BY <1>23, <2>2
      <3>4. PICK S, c : S = QueuedFor(k) /\ c = QueuedValue(Table[k], "exit")
        OBVIOUS
      <3>5. S \in SUBSET (Asked \ gone) /\ Latest(S, c)
        BY <3>1, <3>2, <3>4
      <3>6. Latest(S, c)'
        BY <1>18, <3>5 DEF Latest
      <3>7. S = QueuedFor(k)' /\ c = QueuedValue(Table[k], "exit")'
        BY <3>2, <3>3, <3>4
      <3> QED
        BY <3>6, <3>7
    <2> QED
      BY <2>1, <2>2
  <1>25. \A m, n \in Asked' :
            /\ ~exitLog'[m].own /\ ~exitLog'[n].own /\ exitLog'[m].step = exitLog'[n].step
            => m = n
    <2>1. \A m, n \in Asked :
            ~exitLog[m].own /\ ~exitLog[n].own /\ exitLog[m].step = exitLog[n].step => m = n
      BY <1>4 DEF ExitsCounted
    <2>2. \A m \in Asked \ gone : exitLog[m].own \/ exitLog[m].step # j
      BY <1>7 DEF QueuedFor
    <2> QED
      BY <1>6, <1>8, <1>10, <1>11, <2>1, <2>2
  <1>26. \A n \in Asked' : exitLog'[n].own => exitLog'[n].step <= i'
    <2>1. \A n \in Asked : exitLog[n].own => exitLog[n].step <= i
      BY <1>4 DEF ExitsCounted
    <2> QED
      BY <1>4, <1>6, <1>8, <1>10, <1>11, <2>1
  <1> QED
    BY <1>4, <1>19, <1>24, <1>25, <1>26 DEF ExitsCounted

LEMMA ExitsInductive ==
  ChainInv /\ ExitsCounted /\ [Next]_vars => ExitsCounted'
  <1> SUFFICES ASSUME ChainInv, ExitsCounted, [Next]_vars PROVE ExitsCounted'
    OBVIOUS
  <1>1. CASE EnterStep
    BY <1>1, ExitsEnter
  <1>2. ASSUME NEW c \in Codes, SetExit(c) PROVE ExitsCounted'
    BY <1>2, ExitsSetExit
  <1>3. ASSUME HostCall, exitLog' = exitLog, host'.exit = host.exit,
               host'.queued = host.queued
        PROVE  ExitsCounted'
    <2>1. phase = "script" /\ UNCHANGED <<i, phase, lastExit, outcome, mutations>>
      BY <1>3 DEF HostCall
    <2>2. \A j \in Index : QueuedValue(Table[j], "exit")' = QueuedValue(Table[j], "exit")
      BY <1>3, <2>1 DEF Table, QueuedValue, Absorb
    <2> QED
      BY <1>3, <2>1, <2>2, ExitsKept
  <1>4. ASSUME NEW f \in Formats \cup {Raw}, SetFormat(f) PROVE ExitsCounted'
    BY <1>3, <1>4 DEF SetFormat, ChainInv, TypeOK, Host
  <1>5. ASSUME NEW p \in Files, SetFile(p) PROVE ExitsCounted'
    BY <1>3, <1>5 DEF SetFile, ChainInv, TypeOK, Host
  <1>6. ASSUME NEW j \in Index, NEW key \in Keys, NEW v \in Settable(key),
               SetQueued(j, key, v)
        PROVE  ExitsCounted'
    BY <1>6, ExitsSetQueuedExit, ExitsSetOther
  <1>7. ASSUME NEW op \in {"next", "append"}, NEW a \in Args \cup {None},
               RequestStep(op, a)
        PROVE  ExitsCounted'
    BY <1>3, <1>7 DEF RequestStep, ChainInv, TypeOK, Host
  <1>8. CASE MoldFails \/ CapExceeded \/ ResolveFails \/ ReparseFails
    <2>1. phase' = "failed"
      BY <1>8 DEF MoldFails, CapExceeded, ResolveFails, ReparseFails, Fail
    <2> QED
      BY <2>1 DEF ExitsCounted
  <1>9. CASE MoldReturns
    BY <1>9, ExitsReturns
  <1>10. CASE InjectStep
    <2>1. /\ phase = "inject"
          /\ UNCHANGED <<i, phase, lastExit, outcome, mutations, exitLog>>
          /\ host'.exit = host.exit
      BY <1>10 DEF InjectStep, ChainInv, TypeOK, Host
    <2>2. \A j \in Index : QueuedValue(Table[j], "exit")' = QueuedValue(Table[j], "exit")
      BY <2>1 DEF Table, QueuedValue
    <2> QED
      BY <2>1, <2>2, ExitsKept
  <1>11. CASE ThreadData \/ Reparse
    BY <1>11, ExitsNext DEF ThreadData, Reparse
  <1>12. CASE Return
    BY <1>12, ExitsReturn
  <1>13. CASE UNCHANGED vars
    <2>1. CASE phase = "failed"
      BY <1>13, <2>1 DEF vars, ExitsCounted
    <2>2. CASE phase # "failed"
      <3>1. UNCHANGED <<exitLog, i, phase, lastExit, outcome, steps, mutations, host>>
        BY <1>13 DEF vars, history
      <3>2. \A j \in Index : QueuedValue(Table[j], "exit")' = QueuedValue(Table[j], "exit")
        BY <3>1 DEF Table, QueuedValue, Absorb
      <3> QED
        BY <2>2, <3>1, <3>2, ExitsKept
    <2> QED
      BY <2>1, <2>2
  <1> QED
    BY <1>1, <1>2, <1>4, <1>5, <1>6, <1>7, <1>8, <1>9, <1>10, <1>11, <1>12, <1>13
    DEF Next, Ended

\* When the chain ends, no request waits for a step any more.
LEMMA AllHadTheirTurn ==
  ASSUME ChainInv, ExitsCounted, phase = "done"
  PROVE  Asked = HadItsTurn
  <1>1. /\ i = Len(steps) /\ \A n \in Asked : exitLog[n].own => exitLog[n].step <= i
        /\ \A j \in Index : j > i => Latest(QueuedFor(j), QueuedValue(Table[j], "exit"))
    BY DEF ExitsCounted
  <1>2. /\ i \in Nat /\ \A n \in 1..Len(exitLog) : exitLog[n] \in ExitEvent
        /\ \A j \in Index : j \in Nat
    BY LogType, ChainAssumption DEF Index
  <1>3. \A j \in Index : j > i => QueuedFor(j) = {}
    <2> SUFFICES ASSUME NEW j \in Index, j > i PROVE QueuedFor(j) = {}
      OBVIOUS
    <2>1. mutations[j] = NothingQueued
      BY <1>1, <1>2 DEF ChainInv, MutationsOnlyAhead
    <2>2. QueuedValue(Table[j], "exit") = None
      BY <2>1 DEF Table, QueuedValue, NothingQueued, Keys
    <2>3. QueuedFor(j) \subseteq Asked
      BY DEF QueuedFor
    <2> QED
      BY <1>1, <2>2, <2>3, LatestNone
  <1>4. ASSUME NEW n \in Asked PROVE exitLog[n].step < i \/ exitLog[n].step = i
    <2>1. exitLog[n].step \in Index /\ exitLog[n].own \in BOOLEAN
      BY <1>2 DEF Asked, ExitEvent
    <2>2. CASE exitLog[n].own
      BY <1>1, <1>2, <2>1, <2>2
    <2>3. CASE ~exitLog[n].own
      <3>1. n \in QueuedFor(exitLog[n].step)
        BY <2>3 DEF QueuedFor
      <3>2. ~(exitLog[n].step > i)
        BY <1>3, <2>1, <3>1
      <3> QED
        BY <1>2, <2>1, <3>2
    <2> QED
      BY <2>2, <2>3
  <1> QED
    BY <1>4 DEF HadItsTurn

\* The exit code of a finished chain is what the last step asked for, or was asked
\* for, for which there was a request; whatever was queued, taken back or injected
\* on the way (execute_chain, the exit code of the mold over the queued one).
THEOREM ChainExitOfLatestStep == Spec => []ExitOfLatestStep
  <1>1. ChainInv /\ ExitsCounted => ExitOfLatestStep
    <2> SUFFICES ASSUME ChainInv, ExitsCounted, phase = "done"
                 PROVE  Latest(Asked, outcome.exit)
      BY DEF ExitOfLatestStep
    <2>1. Latest(HadItsTurn, lastExit) /\ outcome.exit = lastExit
      BY DEF ExitsCounted
    <2> QED
      BY <2>1, AllHadTheirTurn
  <1> QED
    BY <1>1, InitExits, ExitsInductive, ChainInvariant, PTL DEF Spec

----------------------------------------------------------------------------
\* The chain is a series queue: the initial states map to initial states, and every
\* step to a step of the queue or to none.

\* A part of the chain, as identities.
LEMMA IdsOf ==
  ASSUME ChainInv, NEW from \in 1..Len(steps) + 1, NEW to \in from - 1..Len(steps)
  PROVE  /\ Ids(from, to) \in Seq(StepId)
         /\ Len(Ids(from, to)) = to - from + 1
         /\ \A k \in 1..to - from + 1 : Ids(from, to)[k] = steps[from + k - 1].id
  <1>1. steps \in Seq(Step) /\ Len(steps) \in Nat
    BY DEF ChainInv, TypeOK
  <1>2. ASSUME NEW k \in 1..to - from + 1 PROVE steps[from + k - 1].id \in StepId
    <2>1. from + k - 1 \in 1..Len(steps)
      BY <1>1
    <2>2. steps[from + k - 1] \in Step
      BY <1>1, <2>1
    <2> QED
      BY <2>2 DEF Step
  <1>3. to - from + 1 \in Nat
    BY <1>1
  <1>4. PICK f : f = [k \in 1..to - from + 1 |-> steps[from + k - 1].id]
    OBVIOUS
  <1>5. f \in Seq(StepId) /\ Len(f) = to - from + 1
    BY <1>2, <1>3, <1>4
  <1> QED
    BY <1>4, <1>5 DEF Ids

\* A sequence with one more item in front.
LEMMA InFront ==
  ASSUME NEW S, NEW h \in S, NEW s \in Seq(S)
  PROVE  /\ <<h>> \o s \in Seq(S) /\ <<h>> \o s # <<>>
         /\ Len(<<h>> \o s) = Len(s) + 1
         /\ Head(<<h>> \o s) = h /\ Tail(<<h>> \o s) = s
         /\ \A k \in 1..Len(s) : (<<h>> \o s)[k + 1] = s[k]
         /\ (<<h>> \o s)[1] = h
  <1>1. <<h>> \in Seq(S) /\ Len(<<h>>) = 1 /\ Len(s) \in Nat
    OBVIOUS
  <1>2. PICK t : t = <<h>> \o s
    OBVIOUS
  <1>3. /\ t \in Seq(S) /\ Len(t) = 1 + Len(s)
        /\ \A k \in 1..1 + Len(s) : t[k] = IF k <= 1 THEN <<h>>[k] ELSE s[k - 1]
    BY <1>1, <1>2, ConcatProperties
  <1>4. t # <<>> /\ t[1] = h /\ \A k \in 1..Len(s) : t[k + 1] = s[k]
    BY <1>1, <1>3
  <1>5. Tail(t) \in Seq(S) /\ Len(Tail(t)) = Len(s) /\ \A k \in 1..Len(s) : Tail(t)[k] = s[k]
    BY <1>1, <1>3, <1>4, HeadTailProperties
  <1>6. Tail(t) = s
    BY <1>5, SeqEqual
  <1>7. Head(t) = h
    BY <1>3, <1>4
  <1> QED
    BY <1>1, <1>2, <1>3, <1>4, <1>6, <1>7

\* A sequence in three parts.
LEMMA InThree ==
  ASSUME NEW S, NEW s \in Seq(S), NEW a \in Seq(S), NEW b \in Seq(S), NEW c \in Seq(S),
         Len(s) = Len(a) + Len(b) + Len(c),
         \A k \in 1..Len(a) : s[k] = a[k],
         \A k \in 1..Len(b) : s[Len(a) + k] = b[k],
         \A k \in 1..Len(c) : s[Len(a) + Len(b) + k] = c[k]
  PROVE  s = a \o b \o c
  <1>1. Len(a) \in Nat /\ Len(b) \in Nat /\ Len(c) \in Nat
    OBVIOUS
  <1>2. PICK ab : ab = a \o b
    OBVIOUS
  <1>3. /\ ab \in Seq(S) /\ Len(ab) = Len(a) + Len(b)
        /\ \A k \in 1..Len(a) + Len(b) : ab[k] = IF k <= Len(a) THEN a[k] ELSE b[k - Len(a)]
    BY <1>2, ConcatProperties
  <1>4. ASSUME NEW k \in 1..Len(a) + Len(b) PROVE ab[k] = s[k]
    <2>1. CASE k <= Len(a)
      <3>1. k \in 1..Len(a)
        BY <1>1, <2>1
      <3> QED
        BY <1>3, <2>1, <3>1
    <2>2. CASE ~(k <= Len(a))
      <3>1. k - Len(a) \in 1..Len(b) /\ Len(a) + (k - Len(a)) = k
        BY <1>1, <2>2
      <3>2. s[Len(a) + (k - Len(a))] = b[k - Len(a)]
        BY <3>1
      <3> QED
        BY <1>3, <2>2, <3>1, <3>2
    <2> QED
      BY <2>1, <2>2
  <1>5. PICK all : all = ab \o c
    OBVIOUS
  <1>6. /\ all \in Seq(S) /\ Len(all) = Len(ab) + Len(c)
        /\ \A k \in 1..Len(ab) + Len(c) : all[k] = IF k <= Len(ab) THEN ab[k] ELSE c[k - Len(ab)]
    BY <1>3, <1>5, ConcatProperties
  <1>7. ASSUME NEW k \in 1..Len(s) PROVE all[k] = s[k]
    <2>1. k \in 1..Len(ab) + Len(c)
      BY <1>3
    <2>2. CASE k <= Len(ab)
      <3>1. k \in 1..Len(a) + Len(b)
        BY <1>1, <1>3, <2>2
      <3> QED
        BY <1>4, <1>6, <2>1, <2>2, <3>1
    <2>3. CASE ~(k <= Len(ab))
      <3>1. k - Len(ab) \in 1..Len(c) /\ Len(a) + Len(b) + (k - Len(ab)) = k
        BY <1>1, <1>3, <2>3
      <3>2. s[Len(a) + Len(b) + (k - Len(ab))] = c[k - Len(ab)]
        BY <3>1
      <3> QED
        BY <1>6, <2>1, <2>3, <3>1, <3>2
    <2> QED
      BY <2>2, <2>3
  <1>8. all = s
    <2>1. Len(all) = Len(s) /\ \A k \in 1..Len(all) : all[k] = s[k]
      BY <1>3, <1>6, <1>7
    <2> QED
      BY <1>6, <2>1, SeqEqual
  <1> QED
    BY <1>2, <1>5, <1>8

\* What the refinement needs beside ChainInv: identities are numbers in the order of
\* request, and the steps placed for the running mold are those behind it up to the
\* cursor, and those behind the ones it found.
InRequestOrder(from, to) ==
  /\ \A k \in from..to : steps[k].id > host.total
  /\ \A k, l \in from..to : k < l => steps[k].id < steps[l].id

Numbered ==
  /\ \A k \in 1..Len(steps) : steps[k].id <= Len(steps)
  /\ \A k, l \in 1..Len(steps) : steps[k].id = steps[l].id => k = l
  /\ phase \in {"script", "inject"} =>
       \A n \in 1..Len(host.pending) : host.pending[n].step.id = Len(steps) + n
  /\ phase = "inject" =>
       /\ host.total \in i..Len(steps)
       /\ AppendedFrom <= Len(steps) + 1
       /\ \A k \in 1..i \cup insertAt..AppendedFrom - 1 : steps[k].id <= host.total
       /\ InRequestOrder(i + 1, insertAt - 1)
       /\ InRequestOrder(AppendedFrom, Len(steps))

\* A step that leaves the chain and the requests as they are, or begins without any.
LEMMA NumberedKept ==
  ASSUME Numbered, UNCHANGED steps, phase' # "inject",
         phase' = "script" => \/ host'.pending = <<>>
                              \/ phase = "script" /\ host'.pending = host.pending
  PROVE  Numbered'
  BY DEF Numbered

LEMMA NumberedInit == Init => Numbered
  BY ChainAssumption DEF Init, Numbered

LEMMA NumberedRequest ==
  ASSUME ChainInv, Numbered, NEW op \in {"next", "append"}, NEW a \in Args \cup {None},
         RequestStep(op, a)
  PROVE  Numbered'
  <1>1. PICK ps : ps = [op |-> op, step |-> [id |-> StaticSteps + injected
                                                      + Len(host.pending) + 1,
                                             args |-> a]]
    OBVIOUS
  <1>2. /\ phase = "script" /\ phase' = "script" /\ UNCHANGED steps
        /\ host' = [host EXCEPT !.pending = Append(host.pending, ps)]
    BY <1>1 DEF RequestStep, HostCall
  <1>3. host \in Host /\ host.pending \in Seq(Pending) /\ Len(host.pending) \in Nat
    BY DEF ChainInv, TypeOK, Host
  <1>4. ps.step.id = Len(steps) + (Len(host.pending) + 1)
    <2>1. Len(steps) = StaticSteps + injected /\ Len(steps) \in Nat
      BY <1>2 DEF ChainInv, TypeOK, StepsCounted
    <2>2. ps.step.id = Len(steps) + Len(host.pending) + 1
      BY <1>1, <2>1
    <2> QED
      BY <1>3, <2>1, <2>2
  <1>5. host'.pending = Append(host.pending, ps)
    BY <1>2, <1>3 DEF Host
  <1>6. \A n \in 1..Len(host'.pending) : host'.pending[n].step.id = Len(steps) + n
    <2>1. \A n \in 1..Len(host.pending) : host.pending[n].step.id = Len(steps) + n
      BY <1>2 DEF Numbered
    <2>2. /\ Len(host'.pending) = Len(host.pending) + 1
          /\ host'.pending[Len(host.pending) + 1] = ps
          /\ \A n \in 1..Len(host.pending) : host'.pending[n] = host.pending[n]
      BY <1>3, <1>5
    <2>3. ASSUME NEW n \in 1..Len(host'.pending), n \notin 1..Len(host.pending)
          PROVE  n = Len(host.pending) + 1
      BY <1>3, <2>2, <2>3
    <2> QED
      BY <1>4, <2>1, <2>2, <2>3
  <1> QED
    BY <1>2, <1>6 DEF Numbered

LEMMA NumberedReturns == ASSUME ChainInv, Numbered, MoldReturns PROVE Numbered'
  <1>1. /\ phase = "script" /\ phase' = "inject" /\ UNCHANGED <<steps, i, host>>
        /\ insertAt' = i + 1
    BY DEF MoldReturns
  <1>2. host.total = Len(steps) /\ i \in 1..Len(steps) /\ Len(steps) \in Nat
    BY <1>1 DEF ChainInv, TypeOK, QueuedAhead
  <1>3. AppendedFrom' = Len(steps) + 1
    BY <1>1, <1>2 DEF AppendedFrom
  <1>4. \A k \in 1..i \cup (i + 1)..(Len(steps) + 1) - 1 : k \in 1..Len(steps)
    BY <1>2
  <1>5. InRequestOrder(i + 1, insertAt - 1)' /\ InRequestOrder(AppendedFrom, Len(steps))'
    BY <1>1, <1>2, <1>3 DEF InRequestOrder
  <1> QED
    BY <1>1, <1>2, <1>3, <1>4, <1>5 DEF Numbered

\* Placing a request keeps the identities numbers and the steps placed in order: the
\* next identity is above all that are known.
LEMMA NumberedInject == ASSUME ChainInv, Numbered, InjectStep PROVE Numbered'
  <1>1. /\ phase = "inject" /\ phase' = "inject" /\ i' = i /\ steps' = Placed(Head(host.pending))
        /\ insertAt' = CursorAfter(Head(host.pending))
        /\ host' = [host EXCEPT !.pending = Tail(host.pending)]
        /\ host.pending # <<>>
    BY DEF InjectStep
  <1>2. /\ host \in Host /\ host.pending \in Seq(Pending) /\ steps \in Seq(Step)
        /\ i \in 1..Len(steps) /\ insertAt \in (i + 1)..(Len(steps) + 1)
    BY <1>1 DEF ChainInv, TypeOK, Host, CursorAhead
  <1>3. PICK n, total, at, from, ps :
          /\ n = Len(steps) /\ total = host.total /\ at = insertAt /\ from = AppendedFrom
          /\ ps = Head(host.pending)
    OBVIOUS
  <1>4. /\ n \in Nat /\ i \in 1..n /\ at \in (i + 1)..(n + 1)
        /\ total \in i..n /\ from = at + total - i /\ from <= n + 1
    BY <1>1, <1>2, <1>3 DEF Numbered, AppendedFrom
  <1>5. /\ \A k \in 1..n : steps[k].id <= n
        /\ \A k, l \in 1..n : steps[k].id = steps[l].id => k = l
        /\ \A m \in 1..Len(host.pending) : host.pending[m].step.id = n + m
        /\ \A k \in 1..i \cup at..from - 1 : steps[k].id <= total
        /\ \A k \in (i + 1)..(at - 1) : steps[k].id > total
        /\ \A k, l \in (i + 1)..(at - 1) : k < l => steps[k].id < steps[l].id
        /\ \A k \in from..n : steps[k].id > total
        /\ \A k, l \in from..n : k < l => steps[k].id < steps[l].id
    BY <1>1, <1>3 DEF Numbered, InRequestOrder
  <1>6. /\ ps \in Pending /\ ps = host.pending[1] /\ Len(host.pending) \in Nat \ {0}
        /\ Tail(host.pending) \in Seq(Pending) /\ Len(Tail(host.pending)) = Len(host.pending) - 1
        /\ \A m \in 1..Len(host.pending) - 1 : Tail(host.pending)[m] = host.pending[m + 1]
    BY <1>1, <1>2, <1>3
  <1>7. ps.step \in Step /\ ps.op \in {"next", "append"} /\ ps.step.id = n + 1
    BY <1>5, <1>6 DEF Pending
  <1>8. host'.total = total /\ host'.pending = Tail(host.pending)
    BY <1>1, <1>2, <1>3 DEF Host
  <1>9. \A m \in 1..Len(host'.pending) : host'.pending[m].step.id = (n + 1) + m
    <2> SUFFICES ASSUME NEW m \in 1..Len(host.pending) - 1
                 PROVE  host.pending[m + 1].step.id = (n + 1) + m
      BY <1>6, <1>8
    <2>1. m + 1 \in 1..Len(host.pending)
      BY <1>6
    <2> QED
      BY <1>4, <1>5, <2>1
  <1>10. \A k \in 1..n : steps[k].id \in Nat
    <2> SUFFICES ASSUME NEW k \in 1..n PROVE steps[k].id \in Nat
      OBVIOUS
    <2>1. steps[k] \in Step
      BY <1>2, <1>3
    <2> QED
      BY <2>1 DEF Step, StepId
  <1>11. CASE ps.op = "next"
    <2>1. steps' = InsertAt(steps, at, ps.step) /\ insertAt' = at + 1
      BY <1>1, <1>3, <1>11 DEF Placed, CursorAfter
    <2>2. /\ Len(steps') = n + 1 /\ steps'[at] = ps.step
          /\ \A k \in 1..at - 1 : steps'[k] = steps[k]
          /\ \A k \in at..n : steps'[k + 1] = steps[k]
      <3>1. PICK e : e = ps.step
        OBVIOUS
      <3>2. at \in 1..Len(steps) + 1 /\ steps \in Seq(Step) /\ e \in Step
        BY <1>2, <1>3, <1>4, <1>7, <3>1
      <3>3. /\ InsertAt(steps, at, e) \in Seq(Step)
            /\ Len(InsertAt(steps, at, e)) = Len(steps) + 1
            /\ InsertAt(steps, at, e)[at] = e
            /\ \A k \in 1..at - 1 : InsertAt(steps, at, e)[k] = steps[k]
            /\ \A k \in at..Len(steps) : InsertAt(steps, at, e)[k + 1] = steps[k]
        BY <3>2, InsertAtProperties
      <3>4. Len(steps) = n /\ steps' = InsertAt(steps, at, e)
        BY <1>3, <2>1, <3>1
      <3> QED
        BY <3>1, <3>3, <3>4
    <2>3. AppendedFrom' = from + 1
      BY <1>1, <1>4, <1>8, <2>1, SMTT(30) DEF AppendedFrom
    <2>4. \A k \in 1..n + 1 : k \in 1..at - 1 \/ k = at \/ (k - 1 \in at..n /\ (k - 1) + 1 = k)
      BY <1>4
    <2>5. \A k \in 1..n + 1 :
            /\ k < at => k \in 1..n /\ steps'[k].id = steps[k].id
            /\ k = at => steps'[k].id = n + 1
            /\ k > at => k - 1 \in 1..n /\ steps'[k].id = steps[k - 1].id
      <3>1. \A k \in 1..n + 1 : k < at => k \in 1..n /\ steps'[k].id = steps[k].id
        BY <1>4, <2>2
      <3>2. ASSUME NEW k \in 1..n + 1, k > at
            PROVE  k - 1 \in 1..n /\ steps'[k].id = steps[k - 1].id
        <4>1. k - 1 \in at..n /\ (k - 1) + 1 = k /\ k - 1 \in 1..n
          BY <1>4, <3>2
        <4> QED
          BY <2>2, <4>1
      <3> QED
        BY <1>7, <2>2, <3>1, <3>2
    <2>6. \A k \in 1..n + 1 : steps'[k].id <= n + 1
      BY <1>4, <1>5, <1>10, <2>5
    <2>7. ASSUME NEW k \in 1..n + 1, NEW l \in 1..n + 1, steps'[k].id = steps'[l].id
          PROVE  k = l
      BY <1>4, <1>5, <1>10, <2>5, <2>7
    <2>8. \A k \in 1..i \cup (at + 1)..(from + 1) - 1 : steps'[k].id <= total
      <3>1. ASSUME NEW k \in 1..i PROVE steps'[k].id <= total
        <4>1. k \in 1..n + 1 /\ k < at
          BY <1>4
        <4>2. steps[k].id <= total
          BY <1>5
        <4> QED
          BY <2>5, <4>1, <4>2
      <3>2. ASSUME NEW k \in (at + 1)..(from + 1) - 1 PROVE steps'[k].id <= total
        <4>1. k \in 1..n + 1 /\ k > at /\ k - 1 \in at..from - 1
          BY <1>4
        <4> QED
          BY <1>5, <2>5, <4>1
      <3> QED
        BY <3>1, <3>2
    <2>9. \A k \in (i + 1)..(at + 1) - 1 : k \in 1..n + 1 /\ (k = at \/ (k < at /\ k \in (i + 1)..(at - 1)))
      BY <1>4
    <2>10. \A k \in (i + 1)..(at + 1) - 1 : steps'[k].id > total
      BY <1>4, <1>5, <2>5, <2>9
    <2>11. ASSUME NEW k \in (i + 1)..(at + 1) - 1, NEW l \in (i + 1)..(at + 1) - 1, k < l
           PROVE  steps'[k].id < steps'[l].id
      <3>1. k < at /\ k \in (i + 1)..(at - 1) /\ k \in 1..n /\ steps'[k].id = steps[k].id
        BY <1>4, <2>5, <2>9, <2>11
      <3>2. CASE l = at
        BY <1>4, <1>5, <1>10, <2>5, <2>9, <3>1, <3>2
      <3>3. CASE l # at
        BY <1>5, <2>5, <2>9, <2>11, <3>1, <3>3
      <3> QED
        BY <3>2, <3>3
    <2>12. \A k \in (from + 1)..(n + 1) : k \in 1..n + 1 /\ k > at /\ k - 1 \in from..n
      BY <1>4
    <2>13. \A k \in (from + 1)..(n + 1) : steps'[k].id > total
      BY <1>5, <2>5, <2>12
    <2>14. ASSUME NEW k \in (from + 1)..(n + 1), NEW l \in (from + 1)..(n + 1), k < l
           PROVE  steps'[k].id < steps'[l].id
      <3>1. k - 1 < l - 1
        BY <1>4, <2>14
      <3> QED
        BY <1>5, <2>5, <2>12, <3>1
    <2>15. InRequestOrder(i + 1, insertAt - 1)'
      BY <1>1, <1>8, <2>1, <2>10, <2>11 DEF InRequestOrder
    <2>16. InRequestOrder(AppendedFrom, Len(steps))'
      BY <1>8, <2>2, <2>3, <2>13, <2>14 DEF InRequestOrder
    <2>17. total \in i..n + 1 /\ from + 1 <= (n + 1) + 1
      BY <1>4
    <2> QED
      BY <1>1, <1>8, <1>9, <2>1, <2>2, <2>3, <2>6, <2>7, <2>8, <2>15, <2>16, <2>17 DEF Numbered
  <1>12. CASE ps.op = "append"
    <2>1. steps' = Append(steps, ps.step) /\ insertAt' = at
      BY <1>1, <1>3, <1>12 DEF Placed, CursorAfter
    <2>2. Len(steps') = n + 1 /\ steps'[n + 1] = ps.step /\ \A k \in 1..n : steps'[k] = steps[k]
      BY <1>2, <1>3, <1>7, <2>1
    <2>3. AppendedFrom' = from
      BY <1>1, <1>4, <1>8, <2>1 DEF AppendedFrom
    <2>4. \A k \in 1..n + 1 : \/ k \in 1..n /\ steps'[k].id = steps[k].id
                              \/ k = n + 1 /\ steps'[k].id = n + 1
      BY <1>4, <1>7, <2>2
    <2>5. \A k \in 1..n + 1 : steps'[k].id <= n + 1
      BY <1>4, <1>5, <1>10, <2>4
    <2>6. ASSUME NEW k \in 1..n + 1, NEW l \in 1..n + 1, steps'[k].id = steps'[l].id
          PROVE  k = l
      BY <1>4, <1>5, <1>10, <2>4, <2>6
    <2>7. \A k \in 1..i \cup at..from - 1 : k \in 1..n /\ steps'[k].id <= total
      <3>1. \A k \in 1..i \cup at..from - 1 : k \in 1..n
        BY <1>4
      <3> QED
        BY <1>5, <2>2, <3>1
    <2>8. \A k \in (i + 1)..(at - 1) : k \in 1..n
      BY <1>4
    <2>9. InRequestOrder(i + 1, insertAt - 1)'
      BY <1>1, <1>5, <1>8, <2>1, <2>2, <2>8 DEF InRequestOrder
    <2>10. \A k \in from..n + 1 : k \in 1..n + 1 /\ (k = n + 1 \/ k \in from..n)
      BY <1>4
    <2>11. ASSUME NEW k \in from..n + 1 PROVE steps'[k].id > total
      <3>1. CASE k = n + 1
        BY <1>4, <1>7, <2>2, <3>1
      <3>2. CASE k # n + 1
        <4>1. k \in from..n /\ steps'[k].id = steps[k].id
          BY <1>4, <2>4, <2>10, <3>2
        <4> QED
          BY <1>5, <4>1
      <3> QED
        BY <3>1, <3>2
    <2>12. ASSUME NEW k \in from..n + 1, NEW l \in from..n + 1, k < l
           PROVE  steps'[k].id < steps'[l].id
      <3>1. k \in from..n /\ k \in 1..n /\ steps'[k].id = steps[k].id
        BY <1>4, <2>2, <2>12
      <3>2. CASE l = n + 1
        BY <1>4, <1>5, <1>10, <1>7, <2>2, <3>1, <3>2
      <3>3. CASE l # n + 1
        <4>1. l \in from..n /\ steps'[l].id = steps[l].id
          BY <1>4, <2>4, <2>10, <3>3
        <4> QED
          BY <1>5, <2>12, <3>1, <4>1
      <3> QED
        BY <3>2, <3>3
    <2>13. InRequestOrder(AppendedFrom, Len(steps))'
      BY <1>8, <2>2, <2>3, <2>11, <2>12 DEF InRequestOrder
    <2>14. total \in i..n + 1 /\ from <= (n + 1) + 1
      BY <1>4
    <2> QED
      BY <1>1, <1>8, <1>9, <2>1, <2>2, <2>3, <2>5, <2>6, <2>7, <2>9, <2>13, <2>14 DEF Numbered
  <1> QED
    BY <1>7, <1>11, <1>12

LEMMA NumberedInductive == ChainInv /\ Numbered /\ [Next]_vars => Numbered'
  <1> SUFFICES ASSUME ChainInv, Numbered, [Next]_vars PROVE Numbered'
    OBVIOUS
  <1>1. CASE EnterStep
    BY <1>1, NumberedKept DEF EnterStep, FreshHost
  <1>2. ASSUME HostCall, host'.pending = host.pending PROVE Numbered'
    BY <1>2, NumberedKept DEF HostCall
  <1>3. ASSUME NEW c \in Codes, SetExit(c) PROVE Numbered'
    BY <1>2, <1>3 DEF SetExit, ChainInv, TypeOK, Host
  <1>4. ASSUME NEW f \in Formats \cup {Raw}, SetFormat(f) PROVE Numbered'
    BY <1>2, <1>4 DEF SetFormat, ChainInv, TypeOK, Host
  <1>5. ASSUME NEW p \in Files, SetFile(p) PROVE Numbered'
    BY <1>2, <1>5 DEF SetFile, ChainInv, TypeOK, Host
  <1>6. ASSUME NEW j \in Index, NEW key \in Keys, NEW v \in Settable(key),
               SetQueued(j, key, v)
        PROVE  Numbered'
    BY <1>2, <1>6 DEF SetQueued, ChainInv, TypeOK, Host
  <1>7. ASSUME NEW op \in {"next", "append"}, NEW a \in Args \cup {None},
               RequestStep(op, a)
        PROVE  Numbered'
    BY <1>7, NumberedRequest
  <1>8. CASE MoldFails \/ CapExceeded \/ ResolveFails \/ ReparseFails
    BY <1>8, NumberedKept DEF MoldFails, CapExceeded, ResolveFails, ReparseFails, Fail
  <1>9. CASE MoldReturns
    BY <1>9, NumberedReturns
  <1>10. CASE InjectStep
    BY <1>10, NumberedInject
  <1>11. CASE ThreadData \/ Reparse \/ Return
    BY <1>11, NumberedKept DEF ThreadData, Reparse, Return, NextStep
  <1>12. CASE UNCHANGED vars
    <2>1. UNCHANGED <<steps, i, phase, host, insertAt>>
      BY <1>12 DEF vars
    <2> QED
      BY <2>1 DEF Numbered, InRequestOrder, AppendedFrom
  <1> QED
    BY <1>1, <1>3, <1>4, <1>5, <1>6, <1>7, <1>8, <1>9, <1>10, <1>11, <1>12
    DEF Next, Ended

\* What is left to run while requests are being placed.
LEMMA ToDoWhilePlacing ==
  ASSUME ChainInv, Numbered, phase = "inject"
  PROVE  /\ i \in 1..Len(steps) /\ Len(steps) \in Nat /\ host.total \in i..Len(steps)
         /\ insertAt \in (i + 1)..(Len(steps) + 1)
         /\ AppendedFrom = insertAt + host.total - i /\ AppendedFrom <= Len(steps) + 1
         /\ \A k \in 1..Len(steps) : steps[k].id \in StepId
         /\ StillToDo = <<steps[i].id>> \o Ids(insertAt, AppendedFrom - 1)
         /\ Ids(insertAt, AppendedFrom - 1) \in Seq(StepId)
         /\ Len(Ids(insertAt, AppendedFrom - 1)) = host.total - i
         /\ \A k \in 1..host.total - i :
              Ids(insertAt, AppendedFrom - 1)[k] = steps[insertAt + k - 1].id
  <1>1. /\ i \in 1..Len(steps) /\ steps \in Seq(Step) /\ Len(steps) \in Nat
        /\ host.total \in i..Len(steps) /\ insertAt \in (i + 1)..(Len(steps) + 1)
        /\ AppendedFrom <= Len(steps) + 1
    BY DEF ChainInv, TypeOK, CursorAhead, Numbered
  <1>2. AppendedFrom = insertAt + host.total - i
    BY DEF AppendedFrom
  <1>3. \A k \in 1..Len(steps) : steps[k].id \in StepId
    <2> SUFFICES ASSUME NEW k \in 1..Len(steps) PROVE steps[k].id \in StepId
      OBVIOUS
    <2>1. steps[k] \in Step
      BY <1>1
    <2> QED
      BY <2>1 DEF Step
  <1>4. PICK from, to : from = insertAt /\ to = AppendedFrom - 1
    OBVIOUS
  <1>5. /\ from \in 1..Len(steps) + 1 /\ to \in from - 1..Len(steps)
        /\ to - from + 1 = host.total - i
    BY <1>1, <1>2, <1>4
  <1>6. /\ Ids(from, to) \in Seq(StepId) /\ Len(Ids(from, to)) = to - from + 1
        /\ \A k \in 1..to - from + 1 : Ids(from, to)[k] = steps[from + k - 1].id
    BY <1>5, IdsOf
  <1>7. StillToDo = <<steps[i].id>> \o Ids(insertAt, AppendedFrom - 1)
    BY DEF StillToDo
  <1> QED
    BY <1>1, <1>2, <1>3, <1>4, <1>5, <1>6, <1>7

\* When the step is done, it is the head of the queue that ran, and what was placed
\* for it stands before and behind the rest.
LEMMA HeadRuns ==
  /\ ChainInv /\ Numbered /\ Settled /\ UNCHANGED steps
  /\ data' = Append(data, steps[i].id)
  /\ phase' = IF i = Len(steps) THEN "done" ELSE "enter"
  /\ StillToDo' = Ids(i + 1, Len(steps))
  => Series!RunHead
  <1>0. SUFFICES ASSUME ChainInv, Numbered, Settled, UNCHANGED steps,
                        data' = Append(data, steps[i].id),
                        phase' = IF i = Len(steps) THEN "done" ELSE "enter",
                        StillToDo' = Ids(i + 1, Len(steps))
                 PROVE  Series!RunHead
    OBVIOUS
  <1>1. PICK n, total, at, from, m, next :
          /\ n = Len(steps) /\ total = host.total /\ at = insertAt /\ from = AppendedFrom
          /\ m = Ids(insertAt, AppendedFrom - 1) /\ next = Ids(i + 1, Len(steps))
    OBVIOUS
  <1>2. phase = "inject"
    BY <1>0 DEF Settled
  <1>3. /\ n \in Nat /\ i \in 1..n /\ total \in i..n /\ at \in (i + 1)..(n + 1)
        /\ from = at + total - i /\ from <= n + 1
        /\ \A k \in 1..n : steps[k].id \in StepId
        /\ StillToDo = <<steps[i].id>> \o m
        /\ m \in Seq(StepId) /\ Len(m) = total - i
        /\ \A k \in 1..total - i : m[k] = steps[at + k - 1].id
    BY <1>0, <1>1, <1>2, ToDoWhilePlacing
  <1>4. /\ next \in Seq(StepId) /\ Len(next) = n - i
        /\ \A k \in 1..n - i : next[k] = steps[i + k].id
    <2>1. PICK a : a = i + 1
      OBVIOUS
    <2>2. n \in Nat /\ i \in 1..n
      BY <1>3
    <2>3. a \in 1..Len(steps) + 1 /\ Len(steps) \in a - 1..Len(steps)
      BY <1>1, <2>1, <2>2
    <2>4. /\ Ids(a, Len(steps)) \in Seq(StepId) /\ Len(Ids(a, Len(steps))) = Len(steps) - a + 1
          /\ \A k \in 1..Len(steps) - a + 1 : Ids(a, Len(steps))[k] = steps[a + k - 1].id
      BY <1>0, <2>3, IdsOf
    <2>5. Len(steps) - a + 1 = n - i /\ \A k \in 1..n - i : a + k - 1 = i + k
      BY <1>1, <2>1, <2>2
    <2> QED
      BY <1>1, <2>1, <2>4, <2>5
  <1>5. /\ \A k \in 1..i \cup at..from - 1 : steps[k].id <= total
        /\ \A k \in (i + 1)..(at - 1) : steps[k].id > total
        /\ \A k, l \in (i + 1)..(at - 1) : k < l => steps[k].id < steps[l].id
        /\ \A k \in from..n : steps[k].id > total
        /\ \A k, l \in from..n : k < l => steps[k].id < steps[l].id
        /\ \A k, l \in 1..n : steps[k].id = steps[l].id => k = l
    BY <1>0, <1>1, <1>2 DEF Numbered, InRequestOrder
  <1>6. /\ RanSoFar = data /\ RanSoFar' = data' /\ Len(data) = i - 1
        /\ \A k \in 1..i - 1 : data[k] = steps[k].id
        /\ data' \in Seq(StepId) /\ Len(data') = i
    <2>1. phase # "done"
      BY <1>2
    <2>2. data' \in Seq(StepId) /\ Len(data') = i
      BY <1>0, <2>1, DataGrows
    <2> QED
      BY <1>0, <1>2, <2>2 DEF RanSoFar, ChainInv, StepsInSeries
  <1>7. PICK h, todo : h = steps[i].id /\ todo = StillToDo
    OBVIOUS
  <1>8. h \in StepId /\ todo = <<h>> \o m
    BY <1>3, <1>7
  <1>9. /\ todo # <<>> /\ Head(todo) = h /\ Tail(todo) = m
        /\ Len(todo) = Len(m) + 1 /\ todo[1] = h
        /\ \A k \in 1..Len(m) : todo[k + 1] = m[k]
    <2>1. h \in StepId /\ m \in Seq(StepId)
      BY <1>3, <1>8
    <2>2. /\ <<h>> \o m # <<>> /\ Head(<<h>> \o m) = h /\ Tail(<<h>> \o m) = m
          /\ Len(<<h>> \o m) = Len(m) + 1 /\ (<<h>> \o m)[1] = h
          /\ \A k \in 1..Len(m) : (<<h>> \o m)[k + 1] = m[k]
      BY <2>1, InFront
    <2> QED
      BY <1>8, <2>2
  <1>10. PICK first, last : first = at - i - 1 /\ last = n - from + 1
    OBVIOUS
  <1>11. /\ n \in Nat /\ i \in 1..n /\ total \in i..n /\ at \in (i + 1)..(n + 1)
         /\ from = at + total - i /\ from <= n + 1 /\ first = at - i - 1 /\ last = n - from + 1
         /\ Len(m) = total - i /\ Len(next) = n - i
    BY <1>3, <1>4, <1>10
  <1>12. /\ first \in Nat /\ last \in Nat /\ first \in 0..Len(next) /\ last \in 0..Len(next)
         /\ Len(next) = first + Len(m) + last
    BY <1>11
  <1>13. ASSUME NEW k \in 1..Len(m) PROVE next[first + k] = m[k]
    <2>1. first + k \in 1..n - i /\ i + (first + k) = at + k - 1 /\ k \in 1..total - i
      BY <1>11
    <2> QED
      BY <1>3, <1>4, <2>1
  <1>14. PICK front, back : front = SubSeq(next, 1, first)
                            /\ back = SubSeq(next, Len(next) - last + 1, Len(next))
    OBVIOUS
  <1>15. /\ Len(front) = first /\ Len(back) = last
         /\ \A k \in 1..first : front[k] = next[k]
         /\ \A k \in 1..last : back[k] = next[first + Len(m) + k]
         /\ next = front \o m \o back
    <2>1. /\ next \in Seq(StepId) /\ m \in Seq(StepId) /\ first \in Nat /\ last \in Nat
          /\ Len(next) = first + Len(m) + last /\ Len(m) \in Nat
          /\ \A k \in 1..Len(next) : next[k] \in StepId
      BY <1>3, <1>4, <1>12
    <2>2. front \in Seq(StepId) /\ Len(front) = first /\ \A k \in 1..first : front[k] = next[k]
      <3>1. \A k \in 1..first : next[k] \in StepId
        BY <2>1
      <3>2. 1 \in Int /\ first \in Int
        BY <2>1
      <3>3. /\ SubSeq(next, 1, first) \in Seq(StepId)
            /\ Len(SubSeq(next, 1, first)) = IF 1 <= first THEN first - 1 + 1 ELSE 0
            /\ \A k \in 1..first - 1 + 1 : SubSeq(next, 1, first)[k] = next[1 + k - 1]
        BY <3>1, <3>2, SubSeqProperties
      <3>4. first - 1 + 1 = first /\ (1 <= first <=> first # 0) /\ \A k \in 1..first : 1 + k - 1 = k
        BY <2>1
      <3>5. front = SubSeq(next, 1, first)
        BY <1>14
      <3> QED
        BY <3>3, <3>4, <3>5
    <2>3. /\ back \in Seq(StepId) /\ Len(back) = last
          /\ \A k \in 1..last : back[k] = next[first + Len(m) + k]
      <3>1. PICK p, q : p = first + Len(m) + 1 /\ q = first + Len(m) + last
        OBVIOUS
      <3>2. p \in Int /\ q \in Int /\ q = Len(next) /\ p = Len(next) - last + 1 /\ q - p + 1 = last
        BY <2>1, <3>1
      <3>3. \A k \in p..q : next[k] \in StepId
        BY <2>1, <3>1, <3>2
      <3>4. /\ SubSeq(next, p, q) \in Seq(StepId)
            /\ Len(SubSeq(next, p, q)) = IF p <= q THEN q - p + 1 ELSE 0
            /\ \A k \in 1..q - p + 1 : SubSeq(next, p, q)[k] = next[p + k - 1]
        <4>1. p \in Int /\ q \in Int
          BY <3>2
        <4> QED
          BY <3>3, <4>1, SubSeqProperties
      <3>5. back = SubSeq(next, p, q) /\ (p <= q <=> last # 0)
        BY <1>14, <2>1, <3>1, <3>2
      <3>6. ASSUME NEW k \in 1..last PROVE back[k] = next[first + Len(m) + k]
        <4>1. p + k - 1 = first + Len(m) + k
          BY <2>1, <3>1
        <4> QED
          BY <3>2, <3>4, <3>5, <4>1
      <3> QED
        BY <3>2, <3>4, <3>5, <3>6
    <2>4. next = front \o m \o back
      <3>1. /\ next \in Seq(StepId) /\ front \in Seq(StepId)
            /\ m \in Seq(StepId) /\ back \in Seq(StepId)
        BY <2>1, <2>2, <2>3
      <3>2. Len(next) = Len(front) + Len(m) + Len(back)
        BY <2>1, <2>2, <2>3
      <3>3. /\ \A k \in 1..Len(front) : next[k] = front[k]
            /\ \A k \in 1..Len(m) : next[Len(front) + k] = m[k]
            /\ \A k \in 1..Len(back) : next[Len(front) + Len(m) + k] = back[k]
        BY <1>13, <2>2, <2>3
      <3> QED
        BY <3>1, <3>2, <3>3, InThree, ZenonT(30)
    <2> QED
      BY <2>2, <2>3, <2>4
  <1>16. ASSUME NEW k \in 1..first
         PROVE  i + k \in (i + 1)..(at - 1) /\ i + k \in 1..n /\ front[k] = steps[i + k].id
    <2>1. i + k \in (i + 1)..(at - 1) /\ i + k \in 1..n /\ k \in 1..n - i
      BY <1>11
    <2> QED
      BY <1>4, <1>15, <2>1
  <1>17. ASSUME NEW k \in 1..last
         PROVE  /\ from + k - 1 \in from..n /\ from + k - 1 \in 1..n
                /\ back[k] = steps[from + k - 1].id
    <2>1. /\ from + k - 1 \in from..n /\ from + k - 1 \in 1..n
          /\ first + Len(m) + k \in 1..n - i /\ i + (first + Len(m) + k) = from + k - 1
      BY <1>11
    <2> QED
      BY <1>4, <1>15, <2>1
  <1>18. ASSUME NEW id \in Series!Known PROVE id \in Nat /\ id <= total
    <2>1. (\E k \in 1..Len(data) : id = data[k]) \/ (\E k \in 1..Len(todo) : id = todo[k])
      BY <1>6, <1>7 DEF Series!Known
    <2>2. ASSUME NEW k \in 1..Len(data), id = data[k] PROVE id \in Nat /\ id <= total
      <3>1. k \in 1..i - 1 /\ k \in 1..i /\ k \in 1..n
        BY <1>3, <1>6
      <3> QED
        BY <1>3, <1>5, <1>6, <2>2, <3>1 DEF StepId
    <2>3. ASSUME NEW k \in 1..Len(todo), id = todo[k] PROVE id \in Nat /\ id <= total
      <3>1. CASE k = 1
        <4>1. i \in 1..i
          BY <1>3
        <4> QED
          BY <1>3, <1>5, <1>7, <1>9, <2>3, <3>1, <4>1 DEF StepId
      <3>2. CASE k # 1
        <4>1. k - 1 \in 1..Len(m) /\ (k - 1) + 1 = k
          BY <1>3, <1>9, <3>2
        <4>2. at + (k - 1) - 1 \in at..from - 1 /\ at + (k - 1) - 1 \in 1..n
          BY <1>3, <4>1
        <4>3. id = steps[at + (k - 1) - 1].id
          BY <1>3, <1>9, <2>3, <4>1
        <4> QED
          BY <1>3, <1>5, <4>2, <4>3 DEF StepId
      <3> QED
        BY <3>1, <3>2
    <2> QED
      BY <2>1, <2>2, <2>3
  <1>19. Series!Fresh(front)
    <2>1. ASSUME NEW k \in 1..first, NEW id \in Series!Known PROVE id < front[k]
      <3>1. steps[i + k].id \in Nat /\ steps[i + k].id > total /\ front[k] = steps[i + k].id
        BY <1>3, <1>5, <1>16 DEF StepId
      <3> QED
        BY <1>3, <1>18, <3>1
    <2>2. ASSUME NEW k \in 1..first, NEW l \in 1..first, k < l PROVE front[k] < front[l]
      <3>1. i + k < i + l
        BY <1>11, <2>2
      <3>2. /\ i + k \in (i + 1)..(at - 1) /\ front[k] = steps[i + k].id
            /\ i + l \in (i + 1)..(at - 1) /\ front[l] = steps[i + l].id
        BY <1>16
      <3>3. steps[i + k].id < steps[i + l].id
        BY <1>5, <3>1, <3>2
      <3> QED
        BY <3>2, <3>3
    <2> QED
      BY <1>15, <2>1, <2>2 DEF Series!Fresh
  <1>20. Series!Fresh(back)
    <2>1. ASSUME NEW k \in 1..last, NEW id \in Series!Known PROVE id < back[k]
      <3>1. steps[from + k - 1].id \in Nat /\ steps[from + k - 1].id > total
        BY <1>3, <1>5, <1>17 DEF StepId
      <3> QED
        BY <1>3, <1>17, <1>18, <3>1
    <2>2. ASSUME NEW k \in 1..last, NEW l \in 1..last, k < l PROVE back[k] < back[l]
      <3>1. from + k - 1 < from + l - 1
        BY <1>11, <2>2
      <3> QED
        <4>1. from + k - 1 \in from..n /\ from + l - 1 \in from..n
          BY <1>17
        <4>2. steps[from + k - 1].id < steps[from + l - 1].id
          BY <1>5, <3>1, <4>1
        <4> QED
          BY <1>17, <4>2
    <2> QED
      BY <1>15, <2>1, <2>2 DEF Series!Fresh
  <1>21. ASSUME NEW k \in 1..first, NEW l \in 1..last PROVE front[k] # back[l]
    <2>1. i + k # from + l - 1
      BY <1>11
    <2> QED
      BY <1>5, <1>16, <1>17, <2>1
  <1>22. StillToDo' = next /\ Len(StillToDo') = Len(next)
    BY <1>0, <1>1
  <1>23. next = <<>> <=> i = n
    <2>1. CASE i = n
      <3>1. Len(next) = 0
        BY <1>3, <1>4, <2>1
      <3> QED
        BY <1>4, <2>1, <3>1, EmptySeq
    <2>2. CASE i # n
      <3>1. Len(next) # 0
        BY <1>3, <1>4, <2>2
      <3> QED
        BY <2>2, <3>1
    <2> QED
      BY <2>1, <2>2
  <1>24. Len(RanSoFar') + Len(StillToDo') <= StaticSteps + MaxDynamicSteps
    <2>1. Len(RanSoFar') + Len(StillToDo') = n
      <3>1. Len(RanSoFar') = i /\ Len(StillToDo') = n - i /\ n \in Nat /\ i \in Nat
        BY <1>6, <1>22, <1>11
      <3> QED
        BY <3>1
    <2> QED
      BY <1>0, <1>1, <2>1 DEF ChainInv, TypeOK
  <1>25. RanSoFar' = Append(RanSoFar, Head(StillToDo))
    BY <1>0, <1>6, <1>7, <1>9
  <1>26. \E f, l \in 0..Len(StillToDo') :
           LET before == SubSeq(StillToDo', 1, f)
               behind == SubSeq(StillToDo', Len(StillToDo') - l + 1, Len(StillToDo'))
           IN  /\ StillToDo' = before \o Tail(StillToDo) \o behind
               /\ Series!Fresh(before) /\ Series!Fresh(behind)
               /\ \A p \in 1..f, q \in 1..l : before[p] # behind[q]
    <2>1. first \in 0..Len(StillToDo') /\ last \in 0..Len(StillToDo')
      BY <1>12, <1>22
    <2>2. /\ front = SubSeq(StillToDo', 1, first)
          /\ back = SubSeq(StillToDo', Len(StillToDo') - last + 1, Len(StillToDo'))
      BY <1>14, <1>22
    <2>3. StillToDo' = front \o Tail(StillToDo) \o back
      BY <1>7, <1>9, <1>15, <1>22
    <2> QED
      BY <1>19, <1>20, <1>21, <2>1, <2>2, <2>3
  <1>27. (IF phase \in {"done", "failed"} THEN phase ELSE "running") = "running"
    BY <1>2
  <1>28. (IF phase' \in {"done", "failed"} THEN phase' ELSE "running")
           = IF StillToDo' = <<>> THEN "done" ELSE "running"
    BY <1>0, <1>1, <1>22, <1>23
  <1>29. StillToDo # <<>>
    BY <1>7, <1>9
  <1> QED
    BY <1>24, <1>25, <1>26, <1>27, <1>28, <1>29 DEF Series!RunHead

LEMMA SeriesInitially == Init => Series!SeriesInit
  <1> SUFFICES ASSUME Init PROVE Series!SeriesInit
    OBVIOUS
  <1>1. Len(steps) = StaticSteps /\ phase = "enter" /\ i = 1 /\ data = <<>>
    BY ChainAssumption DEF Init
  <1>2. StillToDo = [k \in 1..StaticSteps |-> k]
    <2>1. StillToDo = [k \in 1..StaticSteps - 1 + 1 |-> steps[1 + k - 1].id]
      BY <1>1 DEF StillToDo, Ids
    <2>2. StaticSteps - 1 + 1 = StaticSteps
      BY ChainAssumption
    <2>3. \A k \in 1..StaticSteps : steps[1 + k - 1].id = k
      <3>1. \A k \in 1..StaticSteps : 1 + k - 1 = k
        BY ChainAssumption
      <3>2. \A k \in 1..StaticSteps : steps[k].id = k
        BY DEF Init
      <3> QED
        BY <3>1, <3>2
    <2> QED
      BY <2>1, <2>2, <2>3
  <1> QED
    BY <1>1, <1>2 DEF Series!SeriesInit, RanSoFar

\* Returning, a mold leaves in the queue what was there: itself and the steps behind.
LEMMA ReturnsStutters == ChainInv /\ Numbered /\ MoldReturns => UNCHANGED Series!series
  <1>0. SUFFICES ASSUME ChainInv, Numbered, MoldReturns PROVE UNCHANGED Series!series
    OBVIOUS
  <1>1. /\ phase = "script" /\ phase' = "inject" /\ UNCHANGED <<steps, i, data, host>>
        /\ insertAt' = i + 1
    BY <1>0 DEF MoldReturns
  <1>2. /\ host.total = Len(steps) /\ i \in 1..Len(steps) /\ Len(steps) \in Nat
        /\ steps \in Seq(Step) /\ steps[i].id \in StepId
    <2>1. host.total = Len(steps) /\ i \in 1..Len(steps) /\ steps \in Seq(Step)
      BY <1>0, <1>1 DEF ChainInv, TypeOK, QueuedAhead
    <2>2. steps[i] \in Step /\ Len(steps) \in Nat
      BY <2>1
    <2> QED
      BY <2>1, <2>2 DEF Step
  <1>3. AppendedFrom' - 1 = Len(steps)
    BY <1>1, <1>2 DEF AppendedFrom
  <1>4. PICK n, next : n = Len(steps) /\ next = i + 1
    OBVIOUS
  <1>5. n \in Nat /\ i \in 1..n
    BY <1>2, <1>4
  <1>6. StillToDo' = <<steps[i].id>> \o Ids(next, n)
    <2>1. Ids(insertAt, AppendedFrom - 1)' = Ids(next, n)
      BY <1>1, <1>3, <1>4 DEF Ids
    <2> QED
      BY <1>1, <2>1 DEF StillToDo
  <1>7. StillToDo = Ids(i, n)
    BY <1>1, <1>4 DEF StillToDo
  <1>8. /\ Ids(i, n) \in Seq(StepId) /\ Len(Ids(i, n)) = n - i + 1
        /\ \A k \in 1..n - i + 1 : Ids(i, n)[k] = steps[i + k - 1].id
    <2>1. i \in 1..Len(steps) + 1 /\ n \in i - 1..Len(steps)
      BY <1>4, <1>5
    <2> QED
      BY <1>0, <2>1, IdsOf
  <1>9. /\ Ids(next, n) \in Seq(StepId) /\ Len(Ids(next, n)) = n - next + 1
        /\ \A k \in 1..n - next + 1 : Ids(next, n)[k] = steps[next + k - 1].id
    <2>1. next \in 1..Len(steps) + 1 /\ n \in next - 1..Len(steps)
      BY <1>4, <1>5
    <2> QED
      BY <1>0, <2>1, IdsOf
  <1>10. PICK old, rest, h : old = Ids(i, n) /\ rest = Ids(next, n) /\ h = steps[i].id
    OBVIOUS
  <1>11. /\ h \in StepId /\ rest \in Seq(StepId) /\ Len(rest) = n - i
         /\ \A k \in 1..n - i : rest[k] = steps[i + k].id
    <2>1. n - next + 1 = n - i /\ \A k \in 1..n - i : next + k - 1 = i + k
      BY <1>4, <1>5
    <2> QED
      BY <1>2, <1>9, <1>10, <2>1
  <1>12. /\ old \in Seq(StepId) /\ Len(old) = (n - i) + 1
         /\ \A k \in 1..(n - i) + 1 : old[k] = steps[i + k - 1].id
    BY <1>8, <1>10
  <1>13. /\ <<h>> \o rest \in Seq(StepId) /\ Len(<<h>> \o rest) = Len(rest) + 1
         /\ (<<h>> \o rest)[1] = h
         /\ \A k \in 1..Len(rest) : (<<h>> \o rest)[k + 1] = rest[k]
    BY <1>11, InFront
  <1>14. ASSUME NEW k \in 1..(n - i) + 1 PROVE old[k] = (<<h>> \o rest)[k]
    <2>1. CASE k = 1
      <3>1. i + 1 - 1 = i
        BY <1>5
      <3> QED
        BY <1>10, <1>12, <1>13, <2>1, <3>1
    <2>2. CASE k # 1
      <3>1. k - 1 \in 1..n - i /\ (k - 1) + 1 = k /\ i + (k - 1) = i + k - 1
        BY <1>5, <2>2
      <3>2. rest[k - 1] = steps[i + k - 1].id
        BY <1>11, <3>1
      <3> QED
        BY <1>11, <1>12, <1>13, <3>1, <3>2
    <2> QED
      BY <2>1, <2>2
  <1>15. old = <<h>> \o rest
    <2>1. Len(old) = Len(<<h>> \o rest) /\ \A k \in 1..Len(old) : old[k] = (<<h>> \o rest)[k]
      BY <1>11, <1>12, <1>13, <1>14
    <2> QED
      BY <1>12, <1>13, <2>1, SeqEqual
  <1>16. StillToDo' = StillToDo
    BY <1>6, <1>7, <1>10, <1>15
  <1> QED
    BY <1>1, <1>16 DEF Series!series, RanSoFar

\* Placing a request moves nothing of what was left.
LEMMA InjectStutters == ChainInv /\ Numbered /\ InjectStep => UNCHANGED Series!series
  <1>0. SUFFICES ASSUME ChainInv, Numbered, InjectStep PROVE UNCHANGED Series!series
    OBVIOUS
  <1>1. /\ phase = "inject" /\ phase' = "inject" /\ UNCHANGED <<i, data>>
        /\ steps' = Placed(Head(host.pending)) /\ insertAt' = CursorAfter(Head(host.pending))
        /\ host' = [host EXCEPT !.pending = Tail(host.pending)] /\ host.pending # <<>>
    BY <1>0 DEF InjectStep
  <1>2. PICK n, total, at, from, ps :
          /\ n = Len(steps) /\ total = host.total /\ at = insertAt /\ from = AppendedFrom
          /\ ps = Head(host.pending)
    OBVIOUS
  <1>3. /\ n \in Nat /\ i \in 1..n /\ total \in i..n /\ at \in (i + 1)..(n + 1)
        /\ from = at + total - i /\ from <= n + 1
    BY <1>0, <1>1, <1>2, ToDoWhilePlacing
  <1>4. /\ steps \in Seq(Step) /\ host \in Host /\ host.pending \in Seq(Pending)
    BY <1>0 DEF ChainInv, TypeOK, Host
  <1>5. ps \in Pending
    BY <1>1, <1>2, <1>4
  <1>6. ps.step \in Step /\ ps.op \in {"next", "append"}
    BY <1>5 DEF Pending
  <1>7. host'.total = total
    BY <1>1, <1>2, <1>4 DEF Host
  <1>8. StillToDo = <<steps[i].id>> \o [k \in 1..total - i |-> steps[at + k - 1].id]
    <2>1. (from - 1) - at + 1 = total - i
      BY <1>3
    <2> QED
      BY <1>1, <1>2, <2>1 DEF StillToDo, Ids
  <1>9. ASSUME NEW new, insertAt' = new, new \in {at, at + 1},
               steps'[i] = steps[i],
               \A k \in at..from - 1 : steps'[k + (new - at)] = steps[k]
        PROVE  StillToDo' = StillToDo
    <2>1. StillToDo' = <<steps[i].id>> \o [k \in 1..total - i |-> steps'[new + k - 1].id]
      <3>1. AppendedFrom' = new + total - i
        BY <1>1, <1>7, <1>9 DEF AppendedFrom
      <3>2. ((new + total - i) - 1) - new + 1 = total - i
        BY <1>3, <1>9
      <3> QED
        <4>1. StillToDo' = <<steps'[i].id>> \o Ids(insertAt, AppendedFrom - 1)'
          BY <1>1 DEF StillToDo
        <4>2. Ids(insertAt, AppendedFrom - 1)'
                = [k \in 1..(AppendedFrom' - 1) - insertAt' + 1 |-> steps'[insertAt' + k - 1].id]
          BY DEF Ids
        <4>3. (AppendedFrom' - 1) - insertAt' + 1 = total - i
          <5>1. insertAt' = new
            BY <1>9
          <5> QED
            BY <3>1, <3>2, <5>1
        <4> QED
          BY <1>9, <4>1, <4>2, <4>3
    <2>2. \A k \in 1..total - i : steps'[new + k - 1] = steps[at + k - 1]
      <3> SUFFICES ASSUME NEW k \in 1..total - i
                   PROVE  steps'[new + k - 1] = steps[at + k - 1]
        OBVIOUS
      <3>1. at + k - 1 \in at..from - 1 /\ (at + k - 1) + (new - at) = new + k - 1
        BY <1>3, <1>9
      <3> QED
        BY <1>9, <3>1
    <2> QED
      BY <1>8, <2>1, <2>2
  <1>10. ASSUME ps.op = "next" PROVE StillToDo' = StillToDo
    <2>1. steps' = InsertAt(steps, at, ps.step) /\ insertAt' = at + 1
      BY <1>1, <1>2, <1>10 DEF Placed, CursorAfter
    <2>2. at \in 1..Len(steps) + 1
      BY <1>2, <1>3
    <2>3. /\ \A k \in 1..at - 1 : InsertAt(steps, at, ps.step)[k] = steps[k]
          /\ \A k \in at..Len(steps) : InsertAt(steps, at, ps.step)[k + 1] = steps[k]
      <3>1. steps \in Seq(Step) /\ ps.step \in Step
        BY <1>4, <1>6
      <3> QED
        <4>1. /\ Len(InsertAt(steps, at, ps.step)) = Len(steps) + 1
              /\ InsertAt(steps, at, ps.step)[at] = ps.step
              /\ \A k \in 1..at - 1 : InsertAt(steps, at, ps.step)[k] = steps[k]
              /\ \A k \in at..Len(steps) : InsertAt(steps, at, ps.step)[k + 1] = steps[k]
          BY <2>2, <3>1, InsertAtProperties
        <4> QED
          BY <4>1
    <2>4. i \in 1..at - 1 /\ (at + 1) - at = 1 /\ \A k \in at..from - 1 : k \in at..n
      BY <1>3
    <2>5. steps'[i] = steps[i] /\ \A k \in at..from - 1 : steps'[k + ((at + 1) - at)] = steps[k]
      BY <1>2, <2>1, <2>3, <2>4
    <2> QED
      BY <1>9, <2>1, <2>5
  <1>11. ASSUME ps.op = "append" PROVE StillToDo' = StillToDo
    <2>1. steps' = Append(steps, ps.step) /\ insertAt' = at
      BY <1>1, <1>2, <1>11 DEF Placed, CursorAfter
    <2>2. \A k \in 1..n : steps'[k] = steps[k]
      BY <1>2, <1>4, <1>6, <2>1
    <2>3. i \in 1..n /\ \A k \in at..from - 1 : k \in 1..n /\ k + (at - at) = k
      BY <1>3
    <2>4. steps'[i] = steps[i] /\ \A k \in at..from - 1 : steps'[k + (at - at)] = steps[k]
      BY <2>2, <2>3
    <2> QED
      BY <1>9, <2>1, <2>4
  <1>12. StillToDo' = StillToDo
    BY <1>6, <1>10, <1>11
  <1> QED
    BY <1>1, <1>12 DEF Series!series, RanSoFar

LEMMA SeriesStep ==
  ChainInv /\ Numbered /\ [Next]_vars => [Series!RunHead \/ Series!Abort]_(Series!series)
  <1>0. SUFFICES ASSUME ChainInv, Numbered, [Next]_vars
                 PROVE  \/ Series!RunHead \/ Series!Abort \/ UNCHANGED Series!series
    OBVIOUS
  <1>1. ASSUME UNCHANGED <<steps, i, data>>, phase \in {"enter", "script"},
               phase' \in {"enter", "script"}
        PROVE  UNCHANGED Series!series
    BY <1>1 DEF Series!series, RanSoFar, StillToDo, Ids
  <1>2. CASE EnterStep
    BY <1>1, <1>2 DEF EnterStep
  <1>3. CASE HostCall
    BY <1>1, <1>3 DEF HostCall
  <1>4. CASE MoldFails \/ CapExceeded \/ ResolveFails \/ ReparseFails
    <2>1. phase' = "failed" /\ phase \in {"script", "inject"}
      BY <1>4 DEF MoldFails, CapExceeded, ResolveFails, ReparseFails, Fail, Settled
    <2> QED
      BY <2>1 DEF Series!Abort, RanSoFar, StillToDo
  <1>5. CASE MoldReturns
    BY <1>0, <1>5, ReturnsStutters
  <1>6. CASE InjectStep
    BY <1>0, <1>6, InjectStutters
  <1>7. CASE ThreadData \/ Reparse
    <2>1. /\ Settled /\ ~IsLast(i) /\ phase' = "enter" /\ i' = i + 1 /\ UNCHANGED steps
          /\ data' = Append(data, steps[i].id)
      BY <1>7 DEF ThreadData, Reparse, NextStep
    <2>2. StillToDo' = Ids(i + 1, Len(steps))
      BY <2>1 DEF StillToDo, Ids
    <2>3. phase' = IF i = Len(steps) THEN "done" ELSE "enter"
      BY <2>1 DEF IsLast
    <2> QED
      BY <1>0, <2>1, <2>2, <2>3, HeadRuns
  <1>8. CASE Return
    <2>1. /\ Settled /\ i = Len(steps) /\ phase' = "done" /\ UNCHANGED steps
          /\ data' = Append(data, steps[i].id)
      BY <1>8 DEF Return, IsLast
    <2>2. i \in 1..Len(steps) /\ Len(steps) \in Nat
      BY <1>0 DEF ChainInv, TypeOK
    <2>3. Ids(i + 1, Len(steps)) = <<>>
      <3>1. PICK a : a = i + 1
        OBVIOUS
      <3>2. a \in 1..Len(steps) + 1 /\ Len(steps) \in a - 1..Len(steps) /\ Len(steps) - a + 1 = 0
        BY <2>1, <2>2, <3>1
      <3>3. Ids(a, Len(steps)) \in Seq(StepId) /\ Len(Ids(a, Len(steps))) = Len(steps) - a + 1
        BY <1>0, <3>2, IdsOf
      <3> QED
        BY <3>1, <3>2, <3>3, EmptySeq
    <2>4. StillToDo' = Ids(i + 1, Len(steps))
      BY <2>1, <2>3 DEF StillToDo
    <2>5. phase' = IF i = Len(steps) THEN "done" ELSE "enter"
      BY <2>1
    <2> QED
      BY <1>0, <2>1, <2>4, <2>5, HeadRuns
  <1>9. CASE UNCHANGED vars
    BY <1>9 DEF vars, Series!series, RanSoFar, StillToDo, Ids, AppendedFrom
  <1> QED
    BY <1>0, <1>2, <1>3, <1>4, <1>5, <1>6, <1>7, <1>8, <1>9
    DEF Next, Ended, SetExit, SetFormat, SetFile, SetQueued, RequestStep

\* The loop over absolute indices, with its cursor and its one list that grows while
\* it is walked, is a queue of steps worked off in order: what a mold asks to have
\* next comes next, what it appends comes last, and when the chain fails nothing of
\* it is seen (execute_chain).
THEOREM ChainImplementsSeries == Spec => ImplementsSeries
  <1>1. Spec => []Numbered
    BY NumberedInit, NumberedInductive, ChainInvariant, PTL DEF Spec
  <1>2. ChainInv /\ Numbered /\ [Next]_vars => [Series!RunHead \/ Series!Abort]_(Series!series)
    BY SeriesStep
  <1> QED
    BY <1>1, <1>2, SeriesInitially, ChainInvariant, PTL
    DEF Spec, ImplementsSeries, Series!SeriesSpec

----------------------------------------------------------------------------
\* The chain has only so many turns.

\* Three turns for each step that may still come, one for each request that may still
\* be made or waits to be placed, and those that the current step has left.
TurnsOfStep == CASE phase = "enter" -> 3 [] phase = "script" -> 2 [] phase = "inject" -> 1
Waiting == IF phase = "inject" THEN Len(host.pending) ELSE 0

TurnsLeft ==
  IF phase \in {"done", "failed"} THEN 0
  ELSE 3 * (StaticSteps + MaxDynamicSteps - i) + (MaxDynamicSteps - injected) + Waiting + TurnsOfStep

TurnTaken == TurnsLeft' < TurnsLeft
HostCallMade == phase = "script" /\ phase' = "script" /\ i' = i /\ TurnsLeft' = TurnsLeft

LEMMA TurnsAreCounted == ChainInv => TurnsLeft \in 0 .. 4 * (StaticSteps + MaxDynamicSteps)
  <1> SUFFICES ASSUME ChainInv PROVE TurnsLeft \in 0 .. 4 * (StaticSteps + MaxDynamicSteps)
    OBVIOUS
  <1>1. /\ StaticSteps \in Nat /\ MaxDynamicSteps \in Nat /\ injected \in 0 .. MaxDynamicSteps
        /\ i \in 1 .. Len(steps) /\ Len(steps) \in Nat /\ Len(steps) <= StaticSteps + MaxDynamicSteps
        /\ phase \in {"enter", "script", "inject", "done", "failed"}
        /\ Len(host.pending) \in Nat
        /\ phase = "inject" => Len(steps) + Len(host.pending) = StaticSteps + injected
    BY ChainAssumption DEF ChainInv, TypeOK, StepsCounted, Host
  <1>2. i \in 1 .. StaticSteps + MaxDynamicSteps
    BY <1>1
  <1>3. CASE phase \in {"done", "failed"}
    BY <1>1, <1>3 DEF TurnsLeft
  <1>4. CASE phase = "enter" \/ phase = "script"
    <2>1. Waiting = 0 /\ TurnsOfStep \in {2, 3}
      BY <1>4 DEF Waiting, TurnsOfStep
    <2> QED
      BY <1>1, <1>2, <1>4, <2>1 DEF TurnsLeft
  <1>5. CASE phase = "inject"
    <2>1. Waiting \in Nat /\ Len(steps) + Waiting = StaticSteps + injected /\ TurnsOfStep = 1
      BY <1>1, <1>5 DEF Waiting, TurnsOfStep
    <2>2. phase \notin {"done", "failed"}
      BY <1>5
    <2>3. (MaxDynamicSteps - injected) + Waiting \in 0 .. StaticSteps + MaxDynamicSteps - i
      BY <1>1, <2>1
    <2> QED
      BY <1>1, <1>2, <2>1, <2>2, <2>3 DEF TurnsLeft
  <1> QED
    BY <1>1, <1>3, <1>4, <1>5

LEMMA TurnsPass == ChainInv /\ [Next]_vars => [TurnTaken \/ HostCallMade]_vars
  <1> SUFFICES ASSUME ChainInv, Next PROVE TurnTaken \/ HostCallMade \/ UNCHANGED vars
    OBVIOUS
  <1>0. /\ StaticSteps \in Nat /\ MaxDynamicSteps \in Nat /\ injected \in 0 .. MaxDynamicSteps
        /\ i \in 1 .. Len(steps) /\ Len(steps) \in Nat /\ Len(steps) <= StaticSteps + MaxDynamicSteps
        /\ phase \in {"enter", "script", "inject", "done", "failed"}
        /\ host.pending \in Seq(Pending) /\ Len(host.pending) \in Nat
        /\ phase = "inject" => Len(steps) + Len(host.pending) = StaticSteps + injected
    BY ChainAssumption DEF ChainInv, TypeOK, StepsCounted, Host
  <1>1. i \in Int /\ 3 * (StaticSteps + MaxDynamicSteps - i) \in Nat
    BY <1>0
  <1>2. CASE EnterStep
    <2>1. phase = "enter" /\ phase' = "script" /\ i' = i /\ injected' = injected
      BY <1>2 DEF EnterStep
    <2>2. /\ Waiting = 0 /\ Waiting' = 0 /\ TurnsOfStep = 3 /\ TurnsOfStep' = 2
      BY <2>1 DEF Waiting, TurnsOfStep
    <2> QED
      BY <1>0, <1>1, <2>1, <2>2 DEF TurnTaken, TurnsLeft
  <1>3. ASSUME HostCall PROVE HostCallMade
    <2>1. phase = "script" /\ phase' = "script" /\ i' = i /\ injected' = injected
      BY <1>3 DEF HostCall
    <2>2. Waiting = 0 /\ Waiting' = 0 /\ TurnsOfStep' = TurnsOfStep
      BY <2>1 DEF Waiting, TurnsOfStep
    <2> QED
      BY <2>1, <2>2 DEF HostCallMade, TurnsLeft
  <1>4. ASSUME phase \in {"enter", "script", "inject"} PROVE TurnsLeft \in Nat \ {0}
    <2>1. Waiting \in Nat /\ TurnsOfStep \in {1, 2, 3}
      BY <1>0, <1>4 DEF Waiting, TurnsOfStep
    <2>2. phase \notin {"done", "failed"}
      BY <1>4
    <2> QED
      BY <1>0, <1>1, <2>1, <2>2 DEF TurnsLeft
  <1>5. CASE MoldFails \/ CapExceeded \/ ResolveFails \/ ReparseFails \/ Return
    <2>1. phase \in {"script", "inject"} /\ phase' \in {"done", "failed"}
      BY <1>5 DEF MoldFails, CapExceeded, ResolveFails, ReparseFails, Return, Settled, Fail
    <2>2. TurnsLeft' = 0
      BY <2>1 DEF TurnsLeft
    <2> QED
      BY <1>4, <2>1, <2>2 DEF TurnTaken
  <1>6. CASE MoldReturns
    <2>1. /\ phase = "script" /\ phase' = "inject" /\ i' = i /\ host' = host
          /\ injected' = injected + Len(host.pending)
      BY <1>6 DEF MoldReturns
    <2>2. Waiting = 0 /\ Waiting' = Len(host.pending) /\ TurnsOfStep = 2 /\ TurnsOfStep' = 1
      BY <2>1 DEF Waiting, TurnsOfStep
    <2> QED
      BY <1>0, <1>1, <2>1, <2>2 DEF TurnTaken, TurnsLeft
  <1>7. CASE InjectStep
    <2>1. /\ phase = "inject" /\ phase' = "inject" /\ i' = i /\ injected' = injected
          /\ host.pending # <<>> /\ host' = [host EXCEPT !.pending = Tail(@)]
      BY <1>7 DEF InjectStep
    <2>2. Len(host'.pending) = Len(host.pending) - 1
      <3>1. host \in Host
        BY DEF ChainInv, TypeOK
      <3>2. host'.pending = Tail(host.pending)
        BY <2>1, <3>1 DEF Host
      <3> QED
        BY <1>0, <2>1, <3>2
    <2>3. Waiting = Len(host.pending) /\ Waiting' = Len(host.pending) - 1 /\ TurnsOfStep' = TurnsOfStep /\ TurnsOfStep = 1
      BY <2>1, <2>2 DEF Waiting, TurnsOfStep
    <2>4. /\ phase \notin {"done", "failed"} /\ phase' \notin {"done", "failed"}
          /\ i' = i /\ injected' = injected /\ Waiting' = Waiting - 1 /\ TurnsOfStep' = TurnsOfStep
          /\ Waiting \in Nat /\ TurnsOfStep \in Nat
      BY <1>0, <2>1, <2>3
    <2> QED
      BY <1>0, <1>1, <2>4 DEF TurnTaken, TurnsLeft
  <1>8. CASE ThreadData \/ Reparse
    <2>1. /\ phase = "inject" /\ phase' = "enter" /\ i' = i + 1 /\ injected' = injected
          /\ host.pending = <<>>
      BY <1>8 DEF ThreadData, Reparse, Settled, NextStep
    <2>2. Waiting = 0 /\ Waiting' = 0 /\ TurnsOfStep = 1 /\ TurnsOfStep' = 3
      BY <2>1 DEF Waiting, TurnsOfStep
    <2> QED
      BY <1>0, <1>1, <2>1, <2>2 DEF TurnTaken, TurnsLeft
  <1>9. CASE Ended
    BY <1>9 DEF Ended
  <1> QED
    BY <1>2, <1>3, <1>5, <1>6, <1>7, <1>8, <1>9
    DEF Next, SetExit, SetFormat, SetFile, SetQueued, RequestStep

\* However its molds inject steps, beside the host calls of running molds a chain takes no
\* more than four turns for each step, static or injected (the loop and the cap of
\* execute_chain).
THEOREM ChainIsBounded ==
  Spec => /\ [](TurnsLeft \in 0 .. 4 * (StaticSteps + MaxDynamicSteps))
          /\ [][TurnTaken \/ HostCallMade]_vars
  BY TurnsAreCounted, TurnsPass, ChainInvariant, PTL DEF Spec
=============================================================================
