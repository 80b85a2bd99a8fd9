-------------------------------- MODULE Setup --------------------------------
(***************************************************************************)
(* `fimod setup registry | sandbox | all defaults` and `setup sandbox set` *)
(* (cmd/setup.rs), one command after the other on one configuration        *)
(* directory.  A registry setup is several load-change-save rounds, and    *)
(* the process may die between any two; what happens inside such a round,  *)
(* and between processes, is the module RegistryConfig.                    *)
(***************************************************************************)
EXTENDS SourcesFile, Policy, Sequences, FiniteSets

CONSTANTS
  Powered, PoweredRank,     \* POWERED_NAME and its priority
  AltPowered, AltExamples,  \* the names taken where these are taken
  Permitted,                \* the patterns of the permissive preset
  Absent,                   \* no sandbox.toml
  HandWritten,              \* what sandbox.toml may hold at first
  Given, Edits,             \* what commands are given: options with their environment, and new values
  Named, Located, FirstRanks,  \* names, URLs and ranks that the first sources.toml has
  MaxSources, MaxTasks      \* bounds: registries at first, commands begun

Urls == {"powered", "examples", "other"}
Canonical == {"powered", "examples"}

ASSUME SetupAssumption ==
  /\ {Powered, AltPowered, AltExamples} \subseteq Names
  /\ LET five == <<Powered, AltPowered, Examples, AltExamples, Official>>
     IN \A i, j \in 1 .. 5 : i # j => five[i] # five[j]
  /\ PoweredRank \in Ranks /\ PoweredRank < ExamplesRank /\ Permitted \subseteq Patterns
  /\ HandWritten \subseteq Files \cup {Absent} /\ Absent \notin Files
  /\ None \notin Urls \cup {"registered", "declined"}
  /\ MaxSources \in Nat /\ MaxTasks \in Nat
  /\ Named \subseteq Names /\ Located \subseteq Urls /\ FirstRanks \subseteq Ranks

VARIABLES
  disk,     \* sources.toml: [conf : Configs, url : [Names -> Urls \cup {None}]]
  sandbox,  \* sandbox.toml, or Absent
  stage, task,  \* the step of the running command, and the command
  snapshot, \* what registry_defaults has loaded
  todo,     \* registries still to remove or to install
  fresh,    \* the sandbox file to be written
  started,  \* commands begun
  entry,    \* the two files when the command began
  outcome,  \* how the registries of this command have ended
  settled,  \* after a complete installation, until something is cut short: what it left
  crowded,  \* whether a registry has got a rank that another one holds
  given     \* the first sources.toml

setupVars == <<disk, sandbox, stage, task, snapshot, todo, fresh, started, entry, outcome, settled, crowded, given>>
registry == <<disk, snapshot, todo, outcome, settled, crowded>>
policy == <<sandbox, fresh>>

----------------------------------------------------------------------------
\* What a command is given.  `specific` is FIMOD_SETUP_REGISTRY or _SANDBOX.
Options ==
  [yes : BOOLEAN, force : BOOLEAN, specific : {"yes", "no", None}, all : {"yes", "no", None}]

ASSUME GivenAssumption == Given \subseteq Options /\ Edits \subseteq Files

Tasks ==
  [kind : {"registry", "all"}, opts : Given, preset : {"recommended"}, edit : {None}]
  \cup [kind : {"sandbox"}, opts : Given, preset : Presets, edit : {None}]
  \cup [kind : {"set"}, opts : {None}, preset : {None}, edit : Edits]

\* setup_pref and apply_pref: the answers that may be had.  At the prompt the
\* user may say either; without a terminal the answer is no.
Answers(o) ==
  IF o.yes THEN {TRUE}
  ELSE IF o.specific # None THEN {o.specific = "yes"}
  ELSE IF o.all # None THEN {o.all = "yes"}
  ELSE BOOLEAN

Has(d, u) == \E n \in d.conf.sources : d.url[n] = u

\* One load-change-save round each: registry::add, remove and set_priority.
Loaded(d) == [d EXCEPT !.conf = Migrated(@)]
Added(d, n, u) == [conf |-> AddTo(Migrated(d.conf), n), url |-> [d.url EXCEPT ![n] = u]]
Removed(d, n) == [conf |-> RemoveFrom(Migrated(d.conf), n), url |-> [d.url EXCEPT ![n] = None]]
Ranked(d, n, r) == [d EXCEPT !.conf = SetPriority(Migrated(@), n, r, FALSE)]
AddRefused(d, n, u) == n \in d.conf.sources \/ Has(d, u)

\* Mutant: whatever is called official is taken for the examples.
RenamesByName(d) == Official \in d.conf.sources /\ Examples \notin d.conf.sources

Renames(d) == d.url[Official] = "examples" /\ Examples \notin d.conf.sources
Renamed(d) ==
  [conf |-> RenameOfficial(d.conf),
   url |-> [d.url EXCEPT ![Official] = None, ![Examples] = d.url[Official]]]

\* The name, URL and rank of each, and what is missing, in the order of installation.
\* (That the loop asks again whether the URL is there changes nothing: the rename keeps URLs.)
PoweredEntry == [name |-> Powered, alt |-> AltPowered, url |-> "powered", rank |-> PoweredRank]
ExamplesEntry == [name |-> Examples, alt |-> AltExamples, url |-> "examples", rank |-> ExamplesRank]

Missing(d) ==
  (IF Has(d, "powered") THEN <<>> ELSE <<PoweredEntry>>)
    \o (IF Has(d, "examples") THEN <<>> ELSE <<ExamplesEntry>>)

Target(d, e) == IF e.name \in d.conf.sources THEN e.alt ELSE e.name

\* The rank that the renamed one gets is that of another.
RankTaken(d) == Holders(d.conf, Examples, ExamplesRank) \ {Official} # {}

Doomed(d) == {n \in d.conf.sources : d.url[n] \in Canonical}

----------------------------------------------------------------------------
\* A sources.toml with these registries, at these URLs and ranks.
With(url, rank) ==
  [conf |-> [Empty EXCEPT !.sources = DOMAIN url,
                          !.rank = [n \in Names |-> IF n \in DOMAIN url THEN rank[n] ELSE Unranked]],
   url |-> [n \in Names |-> IF n \in DOMAIN url THEN url[n] ELSE None]]

SetupInit ==
  /\ \E S \in SUBSET Named : \E url \in [S -> Located], rank \in [S -> FirstRanks \cup {Unranked}] :
       /\ Cardinality(S) <= MaxSources /\ disk = With(url, rank) /\ Distinct(disk.conf)
  /\ sandbox \in HandWritten
  /\ stage = "idle" /\ task = None /\ snapshot = None /\ todo = <<>> /\ fresh = Absent /\ started = 0
  /\ entry = None
  /\ outcome = None /\ settled = {} /\ crowded = FALSE /\ given = disk

StartTask ==
  /\ stage = "idle" /\ started < MaxTasks
  /\ \E c \in Tasks :
       /\ task' = c
       /\ stage' = IF c.kind = "set" THEN "edit"
                   ELSE IF c.kind = "sandbox" THEN "policy" ELSE "load"
  /\ started' = started + 1
  /\ entry' = [disk |-> disk, sandbox |-> sandbox]
  /\ outcome' = None
  /\ UNCHANGED <<disk, snapshot, todo, settled, crowded, policy, given>>

\* What a command holds goes with it.
Exit ==
  /\ stage' = "idle" /\ task' = None /\ snapshot' = None /\ todo' = <<>> /\ fresh' = Absent
  /\ entry' = None /\ UNCHANGED <<started, given>>

Goto(step) == stage' = step /\ UNCHANGED <<task, entry, started, given>>

\* registry_defaults; a file of an older version is migrated by being loaded.
LoadRegistries ==
  /\ stage = "load"
  /\ snapshot' = Loaded(disk)
  /\ disk' = IF disk.conf.default = None THEN disk ELSE Loaded(disk)
  /\ Goto(IF task.opts.force /\ Doomed(snapshot') # {} THEN "remove" ELSE "detect")
  /\ UNCHANGED <<todo, outcome, settled, crowded, policy>>

\* Mutant: after the removals, what was loaded before them still counts.
RemoveOneKeepCfg ==
  /\ stage = "remove"
  /\ \E n \in Doomed(disk) :
       /\ \A m \in Doomed(disk) : n <= m
       /\ disk' = Removed(disk, n)
  /\ Goto(IF Doomed(disk') = {} THEN "detect" ELSE "remove")
  /\ UNCHANGED <<snapshot, todo, outcome, settled, crowded, policy>>

\* registry::remove, of the entries that were found, by name
RemoveOne ==
  /\ stage = "remove"
  /\ \E n \in Doomed(disk) :
       /\ \A m \in Doomed(disk) : n <= m
       /\ disk' = Removed(disk, n)
  /\ IF Doomed(disk') = {} THEN snapshot' = Loaded(disk') /\ Goto("detect")
                           ELSE UNCHANGED snapshot /\ Goto("remove")
  /\ UNCHANGED <<todo, outcome, settled, crowded, policy>>

\* `all` goes on with the sandbox, however the registries have ended, but for an error.
Proceed ==
  IF task.kind = "all" THEN Goto("policy") /\ UNCHANGED <<snapshot, todo, fresh>> ELSE Exit

\* Both URLs are there, whoever put them there.
AlreadyConfigured ==
  /\ stage = "detect" /\ ~Renames(snapshot) /\ Missing(snapshot) = <<>>
  /\ outcome' = "registered"
  /\ Proceed
  /\ UNCHANGED <<disk, settled, crowded, sandbox>>

DeclineRegistries ==
  /\ stage = "detect" /\ (Renames(snapshot) \/ Missing(snapshot) # <<>>)
  /\ FALSE \in Answers(task.opts)
  /\ outcome' = "declined" /\ settled' = {}
  /\ Proceed
  /\ UNCHANGED <<disk, crowded, sandbox>>

\* The answer is yes, and the legacy name is changed in a save of its own.
Consent ==
  /\ stage = "detect" /\ (Renames(snapshot) \/ Missing(snapshot) # <<>>)
  /\ TRUE \in Answers(task.opts)
  /\ todo' = Missing(snapshot) /\ Goto("add")
  /\ IF Renames(snapshot) THEN disk' = Renamed(snapshot) /\ snapshot' = Renamed(snapshot)
                          ELSE UNCHANGED <<disk, snapshot>>
  /\ crowded' = (crowded \/ (Renames(snapshot) /\ RankTaken(snapshot)))
  /\ UNCHANGED <<outcome, settled, policy>>

\* registry::add of the next entry, under the name that is free in what was loaded.
Install ==
  /\ stage = "add" /\ todo # <<>>
  /\ ~AddRefused(disk, Target(snapshot, Head(todo)), Head(todo).url)
  /\ disk' = Added(disk, Target(snapshot, Head(todo)), Head(todo).url)
  /\ Goto("rank")
  /\ UNCHANGED <<snapshot, todo, outcome, settled, crowded, policy>>

\* The other name is taken as well: an error, which leaves what is installed.
RefuseInstall ==
  /\ stage = "add" /\ todo # <<>>
  /\ AddRefused(disk, Target(snapshot, Head(todo)), Head(todo).url)
  /\ settled' = {}
  /\ Exit
  /\ UNCHANGED <<disk, outcome, crowded, sandbox>>

\* registry::set_priority of the entry just added, without a cascade
Rank ==
  /\ stage = "rank"
  /\ disk' = Ranked(disk, Target(snapshot, Head(todo)), Head(todo).rank)
  /\ crowded' = (crowded \/ Wraps(disk.conf, Target(snapshot, Head(todo)), Head(todo).rank, FALSE))
  /\ todo' = Tail(todo) /\ Goto("add")
  /\ UNCHANGED <<snapshot, outcome, settled, policy>>

Installed ==
  /\ stage = "add" /\ todo = <<>>
  /\ outcome' = "registered"
  /\ settled' = {[disk |-> disk, force |-> task.opts.force]}
  /\ Proceed
  /\ UNCHANGED <<disk, crowded, sandbox>>

----------------------------------------------------------------------------
Overwrites == sandbox = Absent \/ task.opts.force

\* sandbox_defaults without --force where there is a file: done, or refused; or the
\* answer is no.
KeepPolicy ==
  /\ stage = "policy"
  /\ Overwrites => FALSE \in Answers(task.opts)
  /\ Exit
  /\ UNCHANGED <<disk, outcome, settled, crowded, sandbox>>

ChoosePreset ==
  /\ stage = "policy" /\ Overwrites /\ TRUE \in Answers(task.opts)
  /\ fresh' = Preset(task.preset, Permitted)
  /\ Goto("truncate")
  /\ UNCHANGED <<registry, sandbox>>

\* sandbox_set: the base is what is there, or the recommended preset.  A base that
\* does not load, a value that does not parse and no value at all are refused.
Base == IF sandbox = Absent THEN Preset("recommended", Permitted) ELSE FromTable(sandbox)
EditRefused == task.edit = Truncated \/ Base.limit = 0 \/ task.edit.limit = 0

RefuseEdit ==
  /\ stage = "edit" /\ EditRefused
  /\ Exit
  /\ UNCHANGED <<disk, outcome, settled, crowded, sandbox>>

Edit ==
  /\ stage = "edit" /\ ~EditRefused
  /\ fresh' = Edited(Base, task.edit)
  /\ Goto("truncate")
  /\ UNCHANGED <<registry, sandbox>>

\* fs::write
TruncatePolicy ==
  /\ stage = "truncate"
  /\ sandbox' = Truncated /\ Goto("write")
  /\ UNCHANGED <<registry, fresh>>

WritePolicy ==
  /\ stage = "write"
  /\ sandbox' = fresh
  /\ Exit
  /\ UNCHANGED <<disk, outcome, settled, crowded>>

\* The process is killed, or the terminal or the disk fails it.
CutShort ==
  /\ stage # "idle"
  /\ settled' = {}
  /\ Exit
  /\ UNCHANGED <<disk, outcome, crowded, sandbox>>

SetupNext ==
  \/ StartTask \/ LoadRegistries \/ RemoveOne \/ AlreadyConfigured \/ DeclineRegistries
  \/ Consent \/ Install \/ RefuseInstall \/ Rank \/ Installed
  \/ KeepPolicy \/ ChoosePreset \/ RefuseEdit \/ Edit \/ TruncatePolicy \/ WritePolicy \/ CutShort

SetupSpec == SetupInit /\ [][SetupNext]_setupVars
----------------------------------------------------------------------------
\* Properties

\* A setup that reports success leaves both community registries configured: after
\* removals by --force, the renaming of `official` and commands cut short at any
\* point before (setup.rs:207-330).
Registered == outcome = "registered" => \A u \in Canonical : Has(disk, u)

\* Setup never removes, renames or relocates a registry of the user's own, and
\* leaves their search order as it was, wherever it stops, until two registries share a
\* rank: `official` gets rank 99 whoever has it, and the last u32 wraps around
\* (setup.rs:215-231, :288-296, registry/config.rs:429).
UserRegistriesKept ==
  LET own == {n \in given.conf.sources : given.url[n] = "other"}
  IN /\ \A n \in own : disk.url[n] = "other"
     /\ crowded \/ \A a, b \in own : Before(given.conf, a, b) <=> Before(disk.conf, a, b)

\* "Idempotent; safe to re-run": an installation repeated with the same --force, or
\* without it, ends in the sources.toml it began with (setup.rs:242, :298-327), but
\* where two registries share a rank, of which each time another may make way.
Repeatable ==
  [][\A s \in settled :
       /\ outcome = None /\ outcome' = "registered" /\ (task.opts.force => s.force)
       /\ ~crowded
       => disk' = s.disk]_setupVars

Grants(p) == p.env \cup (IF p.clock = "yes" THEN {"clock"} ELSE {})

Asked ==
  IF task.kind = "registry" THEN {}
  ELSE Grants(IF task.kind = "set" THEN LoadFile(task.edit) ELSE Preset(task.preset, Permitted))

\* No command, done or cut short, permits a run what the policy in force before it
\* did not and the command does not name; but `set` without a file starts from the
\* recommended preset, which allows the clock (setup.rs:386-390, sandbox.rs:82-113).
NoUnaskedGrant ==
  [][sandbox' # sandbox =>
       Grants(InForce(sandbox', Absent)) \subseteq
         Grants(InForce(entry.sandbox, Absent)) \cup Asked
           \cup (IF task.kind = "set" /\ entry.sandbox = Absent THEN {"clock"} ELSE {})]_setupVars

\* `set` leaves what it is not told as it was in force: the defaults that setup.rs
\* writes out for absent fields are those that sandbox.rs reads into them
\* (setup.rs:95-101, sandbox.rs:128-150).
SetKeepsTheRest ==
  [][stage = "write" /\ sandbox' = fresh /\ task.kind = "set" /\ entry.sandbox # Absent
       => \A field \in DOMAIN Truncated :
            task.edit[field] = Unset =>
              InForce(sandbox', Absent)[field] = InForce(entry.sandbox, Absent)[field]]_setupVars
=============================================================================
