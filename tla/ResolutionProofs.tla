--------------------------- MODULE ResolutionProofs ---------------------------
(***************************************************************************)
(* Theorems about Resolution, for any registries, entries and holdings.    *)
(***************************************************************************)
EXTENDS Resolution, TLAPS

\* What a command has learnt: nothing but misses on the way, and whatever it ended
\* with comes from a place of its scope.
Searched ==
  /\ cfg \in Configs /\ holds \in [Places -> Holdings] /\ asked \subseteq Scope(cmd)
  /\ cmd.kind = "run" => \A e \in asked : Answer(holds[e]) # "found"
  /\ outcome = "found" => \A m \in found :
       /\ m.place \in Scope(cmd) /\ Answer(holds[m.place]) = "found"
       /\ \A f \in Scope(cmd) : Ahead("run", f, m.place) => f \in asked
  /\ outcome \in {"not found", "unresolved", "missed", "unconfigured"} /\ cmd.kind = "run" =>
       asked = Scope(cmd) /\ outcome = Verdict
  /\ outcome \in {"found", "unresolved", "missed", "unconfigured"} => cmd.kind = "run"
  /\ cmd.kind # "run" => \A m \in found :
       /\ m.place \in Scope(cmd)
       /\ m.script \in Listable(holds[m.place]) \cup Match(holds[m.place])

----------------------------------------------------------------------------
LEMMA ScopeIsPlaces == \A k : Scope(k) \subseteq Sources \cup Entries /\ Scope(k) \subseteq Places
  BY DEF Scope, Named, Sources, Entries, Places

\* No place comes before one that comes before it.
LEMMA AheadIsAsymmetric ==
  ASSUME cfg \in Configs, NEW e \in Places, NEW f \in Places, Ahead("run", e, f)
  PROVE  ~Ahead("run", f, e)
  <1>1. CASE e.kind # f.kind
    BY <1>1 DEF Ahead, Places, EntryPlaces, SourcePlaces
  <1>2. CASE e.kind = "entry" /\ f.kind = "entry"
    <2>1. e.n \in Nat /\ f.n \in Nat
      BY <1>2, EntriesAssumption DEF Places, EntryPlaces, SourcePlaces
    <2> QED
      BY <1>2, <2>1 DEF Ahead
  <1>3. CASE e.kind = "source" /\ f.kind = "source"
    <2>1. e.n \in Names /\ f.n \in Names
      BY <1>3 DEF Places, EntryPlaces, SourcePlaces
    <2>2. \A n \in Names : n \in Nat /\ (cfg.rank[n] # Unranked => cfg.rank[n] \in Nat)
      <3>1. \A n \in Names : cfg.rank[n] \in 0 .. MaxRank \cup {Unranked}
        BY DEF Configs, Ranks
      <3>2. MaxRank \in Nat /\ Names \subseteq Nat
        BY SourcesAssumption
      <3>3. \A r \in 0 .. MaxRank : r \in Nat
        BY <3>2
      <3> QED
        BY <3>1, <3>2, <3>3
    <2> QED
      BY <1>3, <2>1, <2>2 DEF Ahead, Before
  <1> QED
    BY <1>1, <1>2, <1>3 DEF Places, EntryPlaces, SourcePlaces

\* What comes before the next place has been asked.
LEMMA TurnIsNext ==
  ASSUME Searched, NEW e \in Places, cmd.kind = "run", Turn(e), NEW f \in Scope(cmd), Ahead("run", f, e)
  PROVE  f \in asked
  <1>1. f \in Places /\ cfg \in Configs
    BY ScopeIsPlaces DEF Searched
  <1>2. ~Ahead("run", e, f)
    BY <1>1, AheadIsAsymmetric
  <1>3. f # e
    BY <1>1, <1>2
  <1> QED
    BY <1>2, <1>3 DEF Turn

\* A registry that does not answer with the mold is passed over rightly, and only
\* one that keeps silent about it gives no evidence.
LEMMA Answers ==
  ASSUME NEW h \in Holdings
  PROVE  /\ Answer(h) \in {"found", "absent", "unqueryable"}
         /\ Answer(h) # "found" => PassedOver(h)
         /\ Answer(h) = "found" => h.files # {} \/ h.state = "nocatalog"
         /\ Answer(h) = "absent" => Asks(h)
         /\ Answer(h) = "unqueryable" => ~Asks(h)
  BY DEF Holdings, Answer, PassedOver, Asks

\* What is listed or shown is what would run.
LEMMA Described ==
  ASSUME NEW h \in Holdings, NEW s \in Listable(h) \cup Match(h)
  PROVE  /\ Answer(h) = "found" \/ h.state = "pathless"
         /\ h.state = "ready" => s = Script(h.files) \/ "flat" \in h.files
  <1>1. CASE h.state = "ready"
    <2>1. h.files # {} /\ h.files \subseteq Layouts
      BY <1>1 DEF Listable, Match, Scanned, Holdings
    <2>2. s = Script(h.files) \/ "flat" \in h.files
      BY <1>1, <2>1 DEF Listable, Match, Scanned, Script, Layouts
    <2> QED
      BY <1>1, <2>1, <2>2 DEF Answer
  <1>2. CASE h.state # "ready"
    <2>1. h.state \in {"listed", "pathless"}
      BY <1>2 DEF Listable, Match
    <2> QED
      BY <1>2, <2>1 DEF Answer
  <1> QED
    BY <1>1, <1>2

----------------------------------------------------------------------------
LEMMA InitSearched == Init => Searched
  <1> SUFFICES ASSUME Init PROVE Searched
    OBVIOUS
  <1>1. PICK h \in [Sources \cup Entries -> Given] :
          holds = [e \in Places |-> IF e \in DOMAIN h THEN h[e] ELSE Nothing]
    BY DEF Init
  <1>2. Nothing \in Holdings
    BY DEF Nothing, Holdings
  <1>3. holds \in [Places -> Holdings]
    BY <1>1, <1>2, GivenAssumption
  <1> QED
    BY <1>3 DEF Init, Searched

\* The steps leave what they ask as it is.
LEMMA SameWorld ==
  ASSUME UNCHANGED world
  PROVE  /\ Scope(cmd)' = Scope(cmd)
         /\ \A k, e, f : Ahead(k, e, f)' = Ahead(k, e, f)
  BY DEF world, Scope, Named, Sources, Entries, Ahead, Before

LEMMA StepSearched == Searched /\ [Next]_vars => Searched'
  <1> SUFFICES ASSUME Searched, [Next]_vars PROVE Searched'
    OBVIOUS
  <1>1. UNCHANGED world
    BY DEF Next, Unknown, GiveUp, Show, List, Ask, Miss, Hit, ShowOne, ListOne, vars, world
  <1> USE <1>1, SameWorld DEF world
  <1>2. CASE UNCHANGED vars
    BY <1>2 DEF vars, Searched, Verdict, Silent
  <1>3. CASE Unknown
    BY <1>3 DEF Unknown, Searched
  <1>4. ASSUME NEW e \in Places, Miss(e) PROVE Searched'
    BY <1>4 DEF Miss, Turn, Searched
  <1>5. ASSUME NEW e \in Places, Hit(e) PROVE Searched'
    <2>1. /\ cmd.kind = "run" /\ Turn(e) /\ Answer(holds[e]) = "found" /\ outcome' = "found"
          /\ UNCHANGED asked /\ \A m \in found' : m.place = e
      BY <1>5 DEF Hit, At
    <2>2. \A f \in Scope(cmd) : Ahead("run", f, e) => f \in asked
      BY <2>1, TurnIsNext
    <2>3. e \in Scope(cmd)
      BY <2>1 DEF Turn
    <2> QED
      BY <2>1, <2>2, <2>3 DEF Searched
  <1>6. CASE GiveUp
    <2>1. Verdict' = Verdict
      BY <1>6 DEF GiveUp, Verdict, Silent
    <2>2. outcome' # "found"
      BY <1>6 DEF GiveUp, Verdict
    <2> QED
      BY <1>6, <2>1, <2>2 DEF GiveUp, Searched
  <1>7. ASSUME NEW e \in Places, ShowOne(e) PROVE Searched'
    <2>1. e \in Scope(cmd) /\ cmd.kind = "show" /\ outcome = "asking" /\ outcome' \in {"asking", "failed"}
      BY <1>7 DEF ShowOne, Turn
    <2>2. \A m \in found' : m \in found \/ (m.place = e /\ m.script \in Match(holds[e]))
      BY <1>7 DEF ShowOne, At
    <2>3. asked' \subseteq asked \cup {e}
      BY <1>7 DEF ShowOne
    <2> QED
      BY <2>1, <2>2, <2>3 DEF Searched
  <1>8. CASE Show
    BY <1>8 DEF Show, Searched
  <1>9. ASSUME NEW e \in Places, ListOne(e) PROVE Searched'
    <2>1. /\ e \in Scope(cmd) /\ cmd.kind \in {"lines", "text"} /\ outcome = "asking"
          /\ outcome' \in {"asking", "failed"}
      BY <1>9 DEF ListOne, Turn
    <2>2. \A m \in found' : m \in found \/ (m.place = e /\ m.script \in Listable(holds[e]))
      BY <1>9 DEF ListOne, At
    <2>3. asked' \subseteq asked \cup {e}
      BY <1>9 DEF ListOne
    <2> QED
      BY <2>1, <2>2, <2>3 DEF Searched
  <1>10. CASE List
    BY <1>10 DEF List, Searched
  <1> QED
    BY <1>2, <1>3, <1>4, <1>5, <1>6, <1>7, <1>8, <1>9, <1>10 DEF Next, Ask

LEMMA AlwaysSearched == Spec => []Searched
  BY InitSearched, StepSearched, PTL DEF Spec

\* The search ends at the first registry seen to have the mold, and gives up only
\* where every registry was rightly passed over (resolve).
THEOREM EndsAtNearestCarrier == Spec => []NearestCarrier
  <1>1. Searched => NearestCarrier
    <2> SUFFICES ASSUME Searched PROVE NearestCarrier
      OBVIOUS
    <2>1. \A e \in Scope(cmd) : holds[e] \in Holdings
      BY ScopeIsPlaces DEF Searched
    <2>2. ASSUME outcome = "found", NEW m \in found
          PROVE  /\ holds[m.place].files # {} \/ holds[m.place].state = "nocatalog"
                 /\ \A f \in Scope(cmd) : Ahead("run", f, m.place) => PassedOver(holds[f])
      <3>1. m.place \in Scope(cmd) /\ Answer(holds[m.place]) = "found"
        BY <2>2 DEF Searched
      <3>2. cmd.kind = "run"
        BY <2>2 DEF Searched
      <3> QED
        BY <2>1, <2>2, <3>1, <3>2, Answers DEF Searched
    <2>3. ASSUME outcome \in {"not found", "unresolved", "missed"}, cmd.kind = "run", NEW f \in Scope(cmd)
          PROVE  PassedOver(holds[f])
      BY <2>1, <2>3, Answers DEF Searched
    <2> QED
      BY <2>2, <2>3 DEF NearestCarrier
  <1> QED
    BY <1>1, AlwaysSearched, PTL

\* "Not found" rests on an answer, and "none could be queried" on there being
\* none (unresolved_error).
THEOREM SilenceProvesNothing == Spec => []SilenceIsNoEvidence
  <1>1. Searched => SilenceIsNoEvidence
    <2> SUFFICES ASSUME Searched PROVE SilenceIsNoEvidence
      OBVIOUS
    <2>1. \A e \in Scope(cmd) : holds[e] \in Holdings
      BY ScopeIsPlaces DEF Searched
    <2>2. ASSUME outcome = "not found", cmd.kind = "run" PROVE \E e \in Scope(cmd) : Asks(holds[e])
      <3>1. asked = Scope(cmd) /\ Silent # asked
        BY <2>2 DEF Searched, Verdict
      <3>2. PICK e \in Scope(cmd) : Answer(holds[e]) # "unqueryable" /\ Answer(holds[e]) # "found"
        BY <2>2, <3>1 DEF Silent, Searched
      <3> QED
        BY <2>1, <3>2, Answers
    <2>3. ASSUME outcome = "unresolved" PROVE Scope(cmd) # {} /\ \A e \in Scope(cmd) : ~Asks(holds[e])
      <3>1. asked = Scope(cmd) /\ Silent = asked /\ asked # {}
        BY <2>3 DEF Searched, Verdict
      <3> QED
        BY <2>1, <3>1, Answers DEF Silent
    <2>4. outcome = "unconfigured" => Scope(cmd) = {}
      BY DEF Searched, Verdict
    <2> QED
      BY <2>2, <2>3, <2>4 DEF SilenceIsNoEvidence
  <1> QED
    BY <1>1, AlwaysSearched, PTL

\* What a listing names, and what `mold show` shows, is what runs, but for the
\* exceptions of ShownRuns (collect_mold_matches, resolve).
THEOREM WhatIsShownRuns == Spec => []ShownRuns
  <1>1. Searched => ShownRuns
    <2> SUFFICES ASSUME Searched, cmd.kind # "run", NEW m \in found, NameAt(m.place) # None,
                        NEW e \in Scope(ToRun(NameAt(m.place)))
                 PROVE  IF e # m.place THEN e.kind = "entry"
                        ELSE /\ Answer(holds[e]) = "found" \/ holds[e].state = "pathless"
                             /\ holds[e].state = "ready" =>
                                  m.script = Script(holds[e].files) \/ "flat" \in holds[e].files
      BY DEF ShownRuns
    <2>1. /\ m.place \in Sources \cup Entries /\ m.place \in Places
          /\ m.script \in Listable(holds[m.place]) \cup Match(holds[m.place])
      BY ScopeIsPlaces DEF Searched
    <2>2. holds[m.place] \in Holdings
      BY <2>1 DEF Searched
    <2>3. CASE e = m.place
      BY <2>1, <2>2, <2>3, Described
    <2>4. CASE e # m.place
      <3> DEFINE name == NameAt(m.place)
      <3>1. CASE Named(name) # {}
        BY <2>4, <3>1 DEF Scope, ToRun, Named, EntryPlaces
      <3>2. CASE Named(name) = {}
        <4>1. m.place \in Sources
          BY <2>1, <3>2 DEF Named, Entries, NameAt, EntryPlaces
        <4>2. name = m.place.n
          BY <4>1 DEF NameAt, Sources, SourcePlaces
        <4>3. e \in Sources /\ e.n = m.place.n
          BY <3>2, <4>2 DEF Scope, ToRun
        <4>4. e = m.place
          BY <4>1, <4>3 DEF Sources, SourcePlaces
        <4> QED
          BY <2>4, <4>4
      <3> QED
        BY <3>1, <3>2
    <2> QED
      BY <2>3, <2>4
  <1> QED
    BY <1>1, AlwaysSearched, PTL
=============================================================================
