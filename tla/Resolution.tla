------------------------------ MODULE Resolution ------------------------------
(***************************************************************************)
(* Which registry answers for one mold: `-m @mold` and `-m @registry/mold` *)
(* (registry/resolve.rs), `fimod mold show`, and `fimod mold list` with    *)
(* its two kinds of output (registry/molds.rs).  A command asks registries *)
(* one at a time; what a registry holds does not change under it (the      *)
(* caches behind a remote one are CatalogCache and MoldCache).             *)
(***************************************************************************)
EXTENDS SourcesFile, Sequences, FiniteSets

CONSTANTS
  MaxEntries,  \* bound: entries of FIMOD_REGISTRY
  MaxPlaces,   \* bound: entries and configured registries together
  Given        \* what registries may hold, of Holdings

ASSUME EntriesAssumption == MaxEntries \in Nat /\ MaxPlaces \in Nat

VARIABLES
  cfg,       \* sources.toml
  entries,   \* FIMOD_REGISTRY: per entry its name, None for an anonymous one
  holds,     \* what the registry at each place holds
  cmd,
  asked,     \* the places asked in vain, or listed
  found,     \* scripts found, each with its place
  outcome

vars == <<cfg, entries, holds, cmd, asked, found, outcome>>
world == <<cfg, entries, holds, cmd>>

EntryPlaces == [kind : {"entry"}, n : 1 .. MaxEntries]
SourcePlaces == [kind : {"source"}, n : Names]
Places == EntryPlaces \cup SourcePlaces

\* The files a mold may be kept in, below a local registry's directory:
\* mold.py, mold/mold.py, mold/__main__.py.
Layouts == {"flat", "named", "main"}

\* `state` of a local registry: ready, without the directory, without a path.  Of
\* a remote one: unreachable, or with a catalog.toml that is missing, or that
\* leaves the mold out, lists it without a path, or lists it.  Where nobody sees
\* it, a script may still be served.
Holdings ==
  [state : {"ready"}, files : SUBSET Layouts]
  \cup [state : {"nodir", "unset", "unlisted", "pathless"}, files : {{}}]
  \cup [state : {"down", "nocatalog"}, files : {{}, {"flat"}}]
  \cup [state : {"listed"}, files : {{"flat"}}]

Nothing == [state |-> "unlisted", files |-> {}]

ASSUME GivenAssumption == Given \subseteq Holdings

\* find_script
Script(files) ==
  IF "flat" \in files THEN "flat" ELSE IF "named" \in files THEN "named" ELSE "main"

\* scan_local_molds: the flat file or the directory, whichever read_dir meets first.
Scanned(files) ==
  (files \cap {"flat"})
  \cup (IF "named" \in files THEN {"named"} ELSE files \cap {"main"})

\* resolve_source.  A remote registry without a catalog has every mold.
Answer(h) ==
  CASE h.state = "ready" -> IF h.files = {} THEN "absent" ELSE "found"
    [] h.state \in {"nocatalog", "listed"} -> "found"
    [] h.state = "unlisted" -> "absent"
    [] h.state \in {"nodir", "unset", "down", "pathless"} -> "unqueryable"

Commands ==
  [kind : {"run", "show", "lines", "text"}, registry : Names \cup {None}]

Named(r) == {e \in EntryPlaces : e.n \in DOMAIN entries /\ entries[e.n] = r}

Sources == {e \in SourcePlaces : e.n \in cfg.sources}
Entries == {e \in EntryPlaces : e.n \in DOMAIN entries}

\* Mutant: the configured registry of that name hides the entry.
ScopeByConfig(k) ==
  IF k.registry = None THEN Sources \cup (IF k.kind = "show" THEN {} ELSE Entries)
  ELSE LET own == {e \in Sources : e.n = k.registry}
       IN  IF k.kind = "run" /\ own = {}
           THEN {e \in Named(k.registry) : \A f \in Named(k.registry) : e.n <= f.n}
           ELSE own

\* The places a command asks.  Only @registry/mold looks for the name of an
\* entry, and asks the first of that name; `mold show` knows no entries.
Scope(k) ==
  IF k.registry = None THEN Sources \cup (IF k.kind = "show" THEN {} ELSE Entries)
  ELSE IF k.kind = "run" /\ Named(k.registry) # {}
  THEN {e \in Named(k.registry) : \A f \in Named(k.registry) : e.n <= f.n}
  ELSE {e \in Sources : e.n = k.registry}

\* The order they are asked in.  The listings put the entries last; by rank go
\* the text listing and the search for a mold to run.
Ahead(kind, e, f) ==
  IF e.kind # f.kind THEN (e.kind = "entry") <=> (kind = "run")
  ELSE IF e.kind = "source" /\ kind \in {"run", "text"} THEN Before(cfg, e.n, f.n)
  ELSE e.n < f.n

\* Mutant: registries are asked by name, whatever their rank.
TurnByName(e) ==
  /\ outcome = "asking" /\ e \in Scope(cmd) \ asked
  /\ \A f \in Scope(cmd) \ asked :
       IF e.kind = f.kind THEN e.n <= f.n ELSE Ahead(cmd.kind, e, f)

\* The loops of the commands: e is the next to be asked.
Turn(e) ==
  /\ outcome = "asking" /\ e \in Scope(cmd) \ asked
  /\ \A f \in Scope(cmd) \ asked : f # e => Ahead(cmd.kind, e, f)

At(e, scripts) == {[place |-> e, script |-> s] : s \in scripts}

----------------------------------------------------------------------------
Init ==
  /\ cfg \in {c \in Configs :
       /\ c.default = None /\ Distinct(c)
       /\ \A n \in Names \ c.sources : c.rank[n] = Unranked}
  /\ entries \in UNION {[1 .. n -> Names \cup {None}] : n \in 0 .. MaxEntries}
  /\ Cardinality(Sources) + Cardinality(Entries) <= MaxPlaces
  /\ \E h \in [Sources \cup Entries -> Given] :
       holds = [e \in Places |-> IF e \in DOMAIN h THEN h[e] ELSE Nothing]
  /\ cmd \in Commands
  /\ asked = {} /\ found = {} /\ outcome = "asking"

\* A registry that neither file nor variable knows.
Unknown ==
  /\ outcome = "asking" /\ cmd.registry # None /\ Scope(cmd) = {}
  /\ cmd.kind = "text" => Sources \cup Entries # {}
  /\ outcome' = "unknown"
  /\ UNCHANGED <<world, asked, found>>

----------------------------------------------------------------------------
\* -m @mold, -m @registry/mold

Miss(e) ==
  /\ cmd.kind = "run" /\ Turn(e) /\ Answer(holds[e]) # "found"
  /\ asked' = asked \cup {e}
  /\ UNCHANGED <<world, found, outcome>>

Hit(e) ==
  /\ cmd.kind = "run" /\ Turn(e) /\ Answer(holds[e]) = "found"
  /\ found' = At(e, {IF holds[e].state = "ready" THEN Script(holds[e].files) ELSE "flat"})
  /\ outcome' = "found"
  /\ UNCHANGED <<world, asked>>

Silent == {e \in asked : Answer(holds[e]) = "unqueryable"}

\* Mutant: one silent registry is enough.
VerdictIfAnySilent ==
  IF asked = {} THEN "unconfigured" ELSE IF Silent # {} THEN "unresolved" ELSE "not found"

\* The error of a bare @mold; with a registry it is the one of that registry.
Verdict ==
  IF cmd.registry # None THEN "missed"
  ELSE IF asked = {} THEN "unconfigured"
  ELSE IF Silent = asked THEN "unresolved" ELSE "not found"

GiveUp ==
  /\ cmd.kind = "run" /\ outcome = "asking" /\ Scope(cmd) = asked
  /\ cmd.registry # None => asked # {}
  /\ outcome' = Verdict
  /\ UNCHANGED <<world, asked, found>>

----------------------------------------------------------------------------
\* fimod mold show

\* find_script, or the catalog's entry.
Match(h) ==
  IF h.state = "ready" /\ h.files # {} THEN {Script(h.files)}
  ELSE IF h.state \in {"listed", "pathless"} THEN {"flat"} ELSE {}

ShowOne(e) ==
  /\ cmd.kind = "show" /\ Turn(e)
  /\ IF holds[e].state = "unset" THEN outcome' = "failed" /\ UNCHANGED <<asked, found>>
     ELSE /\ asked' = asked \cup {e} /\ found' = found \cup At(e, Match(holds[e]))
          /\ UNCHANGED outcome
  /\ UNCHANGED world

Show ==
  /\ cmd.kind = "show" /\ outcome = "asking" /\ Scope(cmd) = asked
  /\ cmd.registry # None => asked # {}
  /\ outcome' = IF found = {} THEN "not found" ELSE "shown"
  /\ UNCHANGED <<world, asked, found>>

----------------------------------------------------------------------------
\* fimod mold list, completion

\* What there is to list of a registry: one of these scripts, or nothing.
Listable(h) == IF h.state = "ready" THEN Scanned(h.files) ELSE Match(h)

\* The text listing ends at the first registry it cannot list; the others leave it out.
ListOne(e) ==
  /\ cmd.kind \in {"lines", "text"} /\ Turn(e)
  /\ IF cmd.kind = "text" /\ holds[e].state \in {"unset", "down", "nocatalog"}
     THEN outcome' = "failed" /\ UNCHANGED <<asked, found>>
     ELSE /\ asked' = asked \cup {e} /\ UNCHANGED outcome
          /\ IF Listable(holds[e]) = {} THEN UNCHANGED found
             ELSE \E s \in Listable(holds[e]) : found' = found \cup At(e, {s})
  /\ UNCHANGED world

\* Without any registry the text listing says so, whichever was asked for.
List ==
  /\ cmd.kind \in {"lines", "text"} /\ outcome = "asking" /\ Scope(cmd) = asked
  /\ \/ cmd.registry = None \/ asked # {}
     \/ cmd.kind = "text" /\ Sources \cup Entries = {}
  /\ outcome' = "listed"
  /\ UNCHANGED <<world, asked, found>>

Ask(e) == Miss(e) \/ Hit(e) \/ ShowOne(e) \/ ListOne(e)

Next == Unknown \/ GiveUp \/ Show \/ List \/ \E e \in Places : Ask(e)

Spec == Init /\ [][Next]_vars

----------------------------------------------------------------------------
\* Properties

\* A registry that has the mold, but that cannot be seen to have it, is passed
\* over; so is one that has it not.
PassedOver(h) == (h.files = {} /\ h.state # "pathless") \/ h.state \in {"down", "pathless"}

\* The search for @mold ends at the first registry that is seen to have the mold:
\* whatever comes before has it not, or could not be asked; and where the search
\* ends without it, no registry had it that could be asked.  What it ends at does
\* have the mold, but for a registry without a catalog, which is taken to have
\* every mold (resolve, resolve_source, resolve_via_catalog).
NearestCarrier ==
  /\ outcome = "found" => \A m \in found :
       /\ holds[m.place].files # {} \/ holds[m.place].state = "nocatalog"
       /\ \A f \in Scope(cmd) : Ahead("run", f, m.place) => PassedOver(holds[f])
  /\ outcome \in {"not found", "unresolved", "missed"} /\ cmd.kind = "run" =>
       \A f \in Scope(cmd) : PassedOver(holds[f])

Asks(h) == h.state \in {"ready", "unlisted"}

\* "Not found" is said only where some registry answered that it has not the mold,
\* and that none could be queried only where none answered; a registry that keeps
\* silent is never taken for an answer (unresolved_error).
SilenceIsNoEvidence ==
  /\ outcome = "not found" /\ cmd.kind = "run" => \E e \in Scope(cmd) : Asks(holds[e])
  /\ outcome = "unresolved" => Scope(cmd) # {} /\ \A e \in Scope(cmd) : ~Asks(holds[e])
  /\ outcome = "unconfigured" => Scope(cmd) = {}

NameAt(e) == IF e.kind = "entry" THEN entries[e.n] ELSE e.n
ToRun(r) == [kind |-> "run", registry |-> r]

\* What `mold list` prints as @registry/mold, and what `mold show registry/mold`
\* shows, runs under that name, from the registry it was found in: unless an entry of
\* FIMOD_REGISTRY takes the name, the entry listed is anonymous, or the catalog gives no
\* path.  And it is the script that was described, unless the mold is kept in two
\* layouts (collect_molds_from_source, scan_local_molds and collect_mold_matches
\* against resolve and find_script).
ShownRuns ==
  cmd.kind # "run" => \A m \in found : NameAt(m.place) # None =>
    \A e \in Scope(ToRun(NameAt(m.place))) :
      IF e # m.place THEN e.kind = "entry"
      ELSE /\ Answer(holds[e]) = "found" \/ holds[e].state = "pathless"
           /\ holds[e].state = "ready" =>
                m.script = Script(holds[e].files) \/ "flat" \in holds[e].files
=============================================================================
