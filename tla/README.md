# fimod in TLA+

fimod is a command-line data shaper: it reads an input (a file, stdin or a URL),
passes the parsed value through a chain of *molds* (Python scripts run by the embedded
Monty interpreter in a sandbox), and writes the result in some format. Around
that pipeline it keeps registries of molds, two caches of what it fetched from
them, caches of compiled objects, and a watch mode.

This directory holds TLA+ models of the parts in which something can go wrong
that a test would hardly reach, the TLC configurations that check them, and
proofs of the most important properties for every value of the constants.
All paths below are relative to the crate's `src/` unless they begin with `docs/`.

Contents: 1 Inventory, 2 Modules, 3 Runs, 4 Fairness, 5 Proofs, 6 What the code does
differently from its documentation, 7 Not modelled, 8 Plan.

## 1. Inventory

| Part | State it keeps | Operations | Hard because | Correct when |
|---|---|---|---|---|
| Mold chain (`pipeline.rs` `execute_chain`, `engine.rs` pipeline API, `exit_control.rs`, `format_control.rs`, `gatekeeper.rs`) | the list of steps, the loop index, queued mutations by step index, the exit code, the running mold's context | run a mold, `step(i).set`, `insert_next`, `append`, `set_exit`, `set_*_format`, `set_output_file`; inject, re-parse, return | the list grows while it is walked; requests refer to indices of an older list; one slot serves several functions | every step runs once, in order; a request meets the step it was meant for; the number of steps is bounded |
| Execution budgets (`engine.rs`, `pipeline.rs`) | chain start, remaining suspensions, injected count | start a mold with what is left, charge, count | three limits of different scope | no limit is exceeded and a limited chain ends |
| Caches of compiled objects (`lru_cache.rs`; `regex.rs`, `template.rs`, `http.rs`) | a map and a queue of keys behind a mutex | get, insert, evict | a regex is compiled outside the lock; templates are found by a hash | map and queue agree; a caller gets what its own source compiles to |
| Catalog cache (`registry/catalog.rs`) | `catalog.toml`, `etag` | conditional fetch, touch, store, clear | two files, no atomic write, several processes | no older body is vouched for by a newer ETag |
| Mold cache (`mold.rs`) | script, `.cache-hash`, companions; or one file with an age | hit, fetch, install, fetch companions, clear | several files renamed one by one; processes die and overtake | no load is older than the catalog it went by; `--no-cache` reaches the origin |
| Watch mode (`watch.rs`) | snapshots, event queue | receive, drain, compare, run | files change at any moment; the program raises events itself | no change is lost; it comes to rest |
| Registry configuration (`registry/config.rs`) | `sources.toml` | add, remove, set-priority, migrate | read-modify-write without a lock; rank arithmetic | ranks are unique; only the named registries move |
| Mold resolution and listing (`registry/resolve.rs`, `registry/molds.rs`) | none | search, list, show over env and file registries | a silent registry is not an absent mold; run, list and show each search with code of their own | the nearest registry that has the mold answers; honest errors; what is listed runs |
| Setup (`cmd/setup.rs`) | `sources.toml`, `sandbox.toml` | registry, sandbox and all defaults, sandbox set | several saves in one command, a prompt between them | success means configured; the user's own registries stay; nothing is permitted unasked |
| Shape, batch and output (`cmd/shape.rs`, `pipeline.rs`) | output files | one input, batch, slurp, stream, in place, raw, `--check` | non-atomic writes; an exit code in mid-batch; outputs that are inputs | inputs survive; a run that ends well has delivered every input |
| Sandbox policy (`sandbox.rs`) | a policy | load, merge with defaults | two readers of one file with defaults of their own | never more than the policy allows |
| Test runner (`test_runner.rs`) | the process environment, the latched regex limit | discover, run cases | cases share one process | cases are independent; green means tested |
| REPL (`cmd/monty.rs`) | session and pending text | feed | interrupts and end of input in a block | snippets are independent |
| Pure helpers (`format.rs`, `convert.rs`, `dotpath.rs`, `iter_helpers.rs`, `hash.rs`, `env_helpers.rs`, ...) | none | conversions | corner cases | agreement with a reference definition |

How they interact. `main.rs` dispatches to `cmd/*`. `shape` resolves its molds
through the resolver (configuration, then catalog cache, then mold cache) and hands the
scripts to the chain; the chain calls Monty, which calls back into the engine
(the `pipeline` API and the helpers); a mold that injects a step sends the chain back
to the resolver in the middle of a run. Watch mode calls `shape` again and again
in one process, which is also where the caches of compiled objects pay off.
Processes share nothing but files: `sources.toml` and the cache directory.

`PROJECT.json` lists every part with its status (`components`) and each hazard
at its line, with the property that would catch it (`hazards`).

## 2. Modules

| Module | Models |
|---|---|
| `ChainSeries` | what a chain promises (`docs/guides/dynamic-molds.md`): a queue of steps worked off in order |
| `Chain` | `execute_chain` and the pipeline API, action by action |
| `ChainBudget` | duration, suspensions and the injection cap over a chain |
| `LruCache`, `CompileCache` | the LRU cache as operators; its three users and their locking |
| `RemoteMold` | what the two caches of remote content share: processes, the origin, a load's locals |
| `CatalogCache`, `MoldCache` | `fetch_catalog`; `load_url_with_cache` |
| `RemoteLoad` | both composed, with the origin, the clock, `cache clear` and crashes |
| `Watch` | `run_watch`, the event source and an editor |
| `SourcesFile` | `sources.toml` as a value, and each registry command as an operator on it |
| `RegistryConfig` | processes that run those commands over one file |
| `Invocation` | a `fimod shape` command line: when it is refused, its inputs, outputs and formats |
| `Shape` | one run of it, from the command line to the files it leaves |
| `Policy` | a sandbox policy file: what a run takes from it, what the setup commands make of it |
| `Setup` | the setup commands, save by save, over `SourcesFile` and `Policy` |
| `Resolution` | `-m @mold`, `mold show` and `mold list` over `SourcesFile` and `FIMOD_REGISTRY` |
| `TestRunner` | `fimod mold test` |
| `IterHelpers`, `DotPath`, `Helpers` | the `it_*` and `dp_*` helpers as operators (a loop or a descent is a recursive function of the items or segments done), and the questions asked of them |
| `MC*` | the instances for TLC |
| `ChainProofs`, `RemoteLoadProofs`, `ResolutionProofs` | theorems about the module they are named for |
| `BuiltinProofs` | theorems about what molds call: `CompileCache` and `Helpers` |
| `RunProofs`, `ConfigurationProofs`, `DevelopmentProofs` | theorems about `Shape` and `ChainBudget`; about `RegistryConfig`, `Setup` and `Policy`; about `Watch` and `TestRunner` |
| `Iteration` | induction for proofs about loops |

How state and actions correspond to the code:

- **Chain.** `steps`, `i`, `mutations`, `injected` and `lastExit` are the locals of
  `execute_chain`; `host` is the mold's `MoldContext`. `EnterStep` is the loop head
  (options with queued mutations overlaid); each host call is an action
  (`SetExit`, `SetFormat`, `SetFile`, `SetQueued`, `RequestStep`); `MoldReturns`
  absorbs what it left; `InjectStep` resolves and places one request; `ThreadData`, `Reparse` and
  `Return` end a step. A mold is any sequence of host calls. A value is the list of steps it has passed
  through. Indices count from 1. `exitLog` and `shifted` are
  history and guard nothing. The mapping onto `ChainSeries` lets a step of the queue happen
  when the loop goes on or ends: until then what is left to run is what was left when the
  mold returned, which lies between the insertions and the appended steps (`StillToDo`).
- **ChainBudget.** Time is a tick of the interpreter or of the host;
  `feed` is the `max_duration` given to Monty for one mold, `remaining` its
  `SuspensionBudget`.
- **CompileCache.** `Miss`/`Store` are the two critical sections of `compile_regex`;
  the other two caches compile in one. `recency` is history: for each key, the keys used
  since its last use.
- **RemoteLoad.** Every read, truncation, write, rename and removal of a file that processes share, and every
  request, is an action of its own. Only what nobody else can notice is left in one step: a process's work on its own temporaries and
  on directories belongs to the rename it is for, and a look at whether a file is there to the look at its age, or to the removal, that follows it. `pc` is the point in `fetch_catalog` and `load_url_with_cache`, and `load` holds what the process
  has in hand there: a catalog body (`reply`), a script (`content`), a companion (`side`), each of which may
  be outdated by the time it is stored. `Broken` is a file between truncation and the end of its writing, or left so by a
  write that failed or a death, or a mixture of two overlapping writes; `RenewFails`, `BodyRefused`, `WriteFails` and `TagFails`
  are the failures that `fetch_catalog` ignores. A clear (`BeginClear`) is a process that removes file by file.
  A version of the mold stands for its content, its hash and its catalog's ETag.
  `End` is the end of a run or the death of a process anywhere. `contested`, `refused`, `disturbed` and
  `lapsed` are history, one for each circumstance in which a property
  does not hold (see the comments at the properties); they guard nothing.
- **Watch.** The thread's program counter, the snapshots taken file by file, what
  a run reads one file at a time. A file's content is a stamp; the editor writes, removes
  and recreates between any two steps. Events merge above `MaxPending`.
- **RegistryConfig.** `Load`, `Apply`, `Truncate` and `Write` are
  `load_config`, the command, and the two halves of `fs::write`. `Die` is a crash or a
  failed write. `intended` is what the commands would have made of the file one
  after the other.

- **Shape.** `pc` names the point in `run_shape_pipeline`, `run_pipeline_core` and
  `write_stream_output_file`; `Truncate` and `FinishWrite` are the two halves of
  `fs::write`, `MakeTemp`, `Fill` and `Install` the streamed alternative. Files hold the list of names
  they were made from. `GiveUp` is every failure before an output is touched; `Die` is
  possible anywhere. `log`, `disk0` and `faulty` are history.
- **Setup.** One action per load-change-save round of `registry_defaults`
  (what happens inside a round, and between processes, is `RegistryConfig`), the prompt
  in between, and the two halves of writing `sandbox.toml`. `settled`, `crowded`, `entry` and `given` are
  history.
- **Resolution.** A command asks one place at a time (`Turn`); `holds` is what the registry there
  has and whether it can be seen (`Holdings`). `Answer` is `resolve_source`, `Match` and
  `Listable` are what show and list make of the same registry.
- **TestRunner.** `Meet` is the body of the discovery loop for one input, `RunCase`
  is `run_case` as a whole: nothing else runs meanwhile. Of the environment two variables
  matter: one that every execution reads and one that the first regex of the process latches.
- **Helpers.** There is no state: an instance asks one question and holds the
  answers of all helpers to it, so that they can be compared.

A definition that stands immediately before another with the same parameters,
and whose comment calls it a deviation or a mutant, is a plausible bug in that code. It is used
nowhere but in `PROJECT.json` (`mutants`), which says which property notices it.

## 3. Runs

| Run | Instance | Shows |
|---|---|---|
| `chain` (`MCChain.cfg`) | 2 static steps, at most 2 injected, 4 host calls | data pass through each step once and in order (`StepsInSeries`); the cap holds at every moment of injection (`InjectionBounded`); no mutation is left behind (`MutationsOnlyAhead`) or moved but by `insert_next` (`StaleOnlyAfterInsert`); which exit code wins (`ExitOfLatestStep`); `Chain` refines `ChainSeries` (`ImplementsSeries`); `TypeOK` |
| `chain_budget` | 2 static steps, 2 injected, durations 0, 1, 3 or none, quotas 0 (none), 1, 2 | `ComputeWithinBudget`, `QuotaExact`, and the chain ends (`ChainEnds`) |
| `compile_cache` | capacity 2, two callers, five sources of which two collide and one is invalid | `CacheWellFormed`, `Lossless`, `EvictsLeastRecent` |
| `remote_load` | two processes, two versions, all four cache modes | a catalog the origin was asked about is no older than the load (`ValidatedIsCurrent`), except a 304 that two loads asked for at once, that a clear interfered with, or whose body could not be replaced; no cache means no cache (`UncachedIsCurrent`); a script is no older than its catalog unless two loads stored at once (`NeverOlderThanCatalog`); a hit has its companion unless that is on its way, was lost or cleared, or two loads stored at once (`HitIsComplete`) |
| `watch` | two molds and an input, three changes, one error of the event source | `NoChangeLost`, `ComesToRest` |
| `registry_config` | two processes, three registries, ranks 0 to 2, every well-formed initial file | `RanksDistinct`, `NothingLost`, `OrderKept`; `Cascade` is what the code's loop computes (`CascadeIsTheLoop`) |
| `shape` | six disks, with a symbolic link, a directory and files under five names, and the command lines that tell the paths apart | a streamed output is always whole (`StreamedWhole`); inputs survive (`InputsSurvive`); `--check` begins no output and changes no file, but for raw output and the directory of a batch (`CheckWritesNothing`); a run that ends well delivered its inputs (`DoneMeansWritten`); the buffered and the streamed path agree on formats (`OneOutputFormat`) |
| `setup` | up to two registries of five names, two commands of any kind, answers and environment of four kinds | success means both community registries (`Registered`); the user's own stay, in their order (`UserRegistriesKept`); a repeated setup changes nothing (`Repeatable`); no command permits what it was not asked for (`NoUnaskedGrant`) or changes the rest of a policy (`SetKeepsTheRest`) |
| `resolution` | two names, up to two entries of `FIMOD_REGISTRY`, nine things a registry may hold | `NearestCarrier`, `SilenceIsNoEvidence`, `ShownRuns` |
| `test_runner` | two bases with two extensions, six kinds of metadata, none and a broken one, five molds, nine environments | a case has the verdict it has alone (`CasesIndependent`); a green run has run what there is to run (`GreenIsTested`) |
| `helpers` | arrays of at most four of eleven values; trees of depth 2, paths of at most three segments | the helpers agree where several answer one question (`IterHelpersAgree`, `PathHelpersAgree`) |
| `chain_stale_handle` | 2 static steps, 1 injected | the counterexample to what the documentation says of `step(i)`, see 6 |

Why the bounds are enough:

- *Chain.* Two static and two injected steps give an injected step that injects, a
  step behind and one ahead of an insertion, and the cap reached and exceeded. Four host calls
  are enough for a queued mutation, an insertion that moves its target, and an exit
  code of each kind. One value per kind of data suffices, as no definition compares
  values except exit codes, of which there are two (symmetric).
- *ChainBudget.* Duration 0, one that ends within the first mold and one that reaches a second mold;
  `Horizon` lies above the largest duration, so saturation is never what a
  guard sees.
- *CompileCache.* Capacity 2 is the smallest at which "least recent" is not "the only
  one"; five sources overflow it.
- *RemoteLoad.* Two versions are one publication in the middle of a load; two processes are the least
  that overtake each other (symmetric). No constraint cuts the run short. Its view (`Relevant`) leaves out of a state what no
  property tells apart from there on, such as what is in a mold cache that is disturbed for good. The proofs remove both
  bounds and use no view.
- *Watch.* Three changes allow a change, its reversal to a missing file and one more within one
  turn of the loop. The proof removes the bound on changes and molds. `MaxPending` 2
  tells none, the event being waited for, and more; events carry no content.
- *RegistryConfig.* Three registries and three ranks give a full cascade with a
  wrap, a gap, and a swap with a bystander. `MaxRank` stands for `u32::MAX`: the
  wrap happens at the last rank and nowhere else. Two commands are one overlap; every
  well-formed file is an initial file, so a longer history without a mishap begins anew there. The proofs
  remove every bound.
- *Shape.* Two inputs are a loop with a next input; the lists of inputs include one file twice, one
  under two names, two of one base name, and one that is an earlier one's output. An output is absent,
  a file, a link or a directory. Two exit codes tell 0 from another.
- *Setup.* Two registries at first let both canonical names or URLs be taken, by the user or by an earlier
  setup; the second command sees whatever the first left where it was cut short
  (`MaxSources`, `MaxTasks`). The ranks of the first file are one before, one at and one behind
  those of the community registries (`FirstRanks`). One process at a time, and no torn
  `sources.toml`: those are `RegistryConfig`. `default` is absent at first. The two files
  are independent, so the instance combines their initial contents only where one says nothing (`MCInit`).
- *Resolution.* Three places are one before, one at and one behind the place of the mold, of
  both kinds (`MaxPlaces`, `MaxEntries`). What registries hold does not change during a command.
  The proofs remove every bound.
- *TestRunner.* Four inputs are up to two of one base, of which the second has no
  metadata, and a case before and behind another. The proofs remove every bound.
- *Helpers.* Four items hold a tie, a value apart and one before and behind; eleven
  values are one or two of each JSON type, a missing field, and those that are only
  written alike. Paths of three segments pass through two containers into a third; the trees of
  an instance are closed under taking a part. The proofs remove every bound.

Deadlock is checked for the chain, the budget, the caches and the remote load. In `Watch`,
`RegistryConfig` and `Setup` the bounds on changes and commands end the run, and a watch that refuses
a missing input stops; `Shape`, `Resolution`, `TestRunner` and `Helpers` are commands that end.

## 4. Fairness

Only two properties need it.

- `ChainEnds` assumes that the interpreter and the host make progress
  (`WF_vars(HostStep)`, `WF_vars(RunStep)`): one thread runs both, and neither waits for anything.
  A mold need not return: without a duration limit the property asks for that.
- `ComesToRest` assumes that the watching thread takes its steps
  (`WF_vars(Thread)`): a run ends and the quiet window is a fixed deadline. The
  editor owes nothing; it is bounded by `MaxEdits`, so that "once the editor is
  done" means something.

Everything else is safety.

## 5. Proofs

`tlapm` checks every theorem to the last leaf, from the assumptions named in
the modules that declare the constants. Most say of which type a constant is, or that a value that
stands for nothing is no proper value (`ChainAssumption`, `BudgetAssumption`, `CapacityAssumption`,
`CompileAssumption`, `RemoteAssumption`, `WatchAssumption`, `SourcesAssumption`, `CommandsAssumption`,
`PolicyAssumption`, `EntriesAssumption`, `TestRunnerAssumption`, `InvocationAssumption`, `PathAssumption`, and
`GivenAssumption` for inputs). `SourcesAssumption` also says that a file names finitely many registries, of which there is
an order (`config.rs` keeps them in a `BTreeMap`), `WatchAssumption` that a command line names finitely many molds, and `HelpersAssumption` that `null` is a tree and every part of a tree is one.
Two say more than that. `SetupAssumption`: the five names the setup commands know are five, and the rank of
`powered` comes before that of the examples. `ShapeAssumption`: command lines are well formed, each file holds something of its
own, a link leads to a file in one step, and the output directory of a batch is not itself a link.

Each argument is an inductive invariant; types are part of it. Except where noted, no property is
inductive by itself.

- **ChainProofs**: `TypeOK`, `StepsInSeries`, `InjectionBounded`,
  `MutationsOnlyAhead`, `StaleOnlyAfterInsert`, `ExitOfLatestStep` and the refinement
  `ImplementsSeries`, for every cap and number of steps.
  `ChainInv` adds that every injected step is either placed or pending
  (`StepsCounted`: otherwise a placement could exceed the cap), that the cursor lies
  between the current step and the end (`CursorAhead`: otherwise an insertion could
  displace a step that has run), that a running mold's requests are for steps of its
  snapshot (`QueuedAhead`), and that values sit under keys of their type
  (`WellKeyed`). The lemmas are one per action; `InsertAtProperties` and
  `AbsorbProperties` say what placing and absorbing do. `StaleOnlyAfterInsert` follows
  with `QueuedAddressed`: nothing moves while a mold runs, so its handles still point
  where they did when it returns, and placing moves a step by one or not at all.
  `ExitOfLatestStep` needs `ExitsCounted`: of the requests on record, those whose step has had
  its turn are accounted for in the exit code so far, and the others are still queued, or taken back,
  under an index that lies ahead.
  The refinement needs `Numbered`: steps carry numbers in the order of their request, so that whatever is placed
  is new to the queue and in order, and while requests are placed, those inserted lie between the
  current step and the cursor and those appended behind everything the mold found. Then returning from a mold
  and placing a step are stutters, going on and ending are `RunHead`, and every failure is `Abort`.
  `ChainIsBounded` is what can be said of its end without fairness: `TurnsLeft` counts the turns that placed, pending and
  still permitted steps have before them, at most four for each, every step of the loop but a host call uses one up, and
  none comes back.
- **BuiltinProofs**, of `CompileCache`: `CacheWellFormed`, `Lossless` and `EvictsLeastRecent`, for any capacity, callers
  and hash function. First the queue: promoting, evicting and inserting keep each key
  queued exactly once (a queue without repetition is no longer than its map). Then
  `CacheInv`: what is stored under a key is a valid source, and, except for templates, the
  key itself. For templates the comparison with the stored source does the rest. For the order of
  eviction, `PromoteMoves` says where a promotion moves each key, and `UsedLastRanked` that a queue whose last
  key is the one just used is in the order of use if its rest was: a hit, a new key and a new key in
  a full cache are three cases of it, and after a collision the second promotion moves nothing (`TouchedTwice`).
  Of `Helpers`: `IterHelpersAgree` and `PathHelpersAgree`, for arrays, paths and trees of any size. Each helper is first
  given as what one turn of its loop makes of the turn before (`GroupLoop`, `UniqueLoop`, `WalkLoop`, `RewrittenLoop`, ...);
  what holds of every turn then follows by induction on their number (see `Iteration`). For arrays: `AheadIsOrder`, that the
  order asked for is one, so the best item so far comes before all others seen (`ExtremumIsFirst`) and is the one that
  nothing precedes in the sorted array (`SortedFirst`); the groups after some items partition these and match the
  counts key by key (`TurnGroups`, `TurnMatches`); and of each set of items alike the first is kept (`TurnFirsts`).
  For paths: what is written in one container is read there and changes nothing beside it (`WrittenIsRead`,
  `WrittenBeside`), which carries down the path to the new value (`SetIsGot`) and, from where two paths part, to whatever
  lies on the other (`WhereTheyPart`, `SetBeside`); a tree with a part replaced differs if and only if the part does
  (`ReplacedByItself`, `ReplacedByAnother`), which carries the effect of a deletion up to the root (`DeleteChanges`).
- **RunProofs**: of `Shape`, `StreamedWhole`, `InputsSurvive`, `CheckWritesNothing`,
  `DoneMeansWritten` and `OneOutputFormat`, for every command line, disk and mold; of `ChainBudget`,
  `ComputeWithinBudget` and `QuotaExact`. `RunInv` says of every file that it is as the last write to it left it, or
  has never been written (`Kept`), and that the newest write to a file is whole unless it is going on
  (`NewestWhole`); of the loop, that what is held came from the input at hand (`HeldFrom`) and that the inputs before it are
  delivered (`Delivered`); and, for batches in place, where an input may be another one's output, that a file holds what it held at first and as many
  results as it was visited, or is being written (`InPlaceHeld`).
  `Budgets` relates what a mold still has to what has been used: `computed + feed <= duration` and
  `served + remaining = quota`, with the clock never behind the interpreter.
  `MoldsAreBounded`: with or without limits no more molds are run than were named and may be injected. `LimitedChainWindsDown`:
  under a duration limit every step but the host's waiting spends some of `BudgetLeft`, a natural number made of the molds left,
  the interpreter time left and the phase of the mold, which is the part of `ChainEnds` that needs no fairness.
- **RemoteLoadProofs**: `UncachedIsCurrent`, `NeverOlderThanCatalog`, `ValidatedIsCurrent` and `HitIsComplete`, for
  any number of processes and versions. `Loads` says
  what each local of a load may be at each point of it, in particular that a body or script that came in a response is no
  older than the load; `Ordered`, that as long as
  nothing is disturbed one process stores at a time and the recorded hash is never
  newer than the script beside it. That is where "the script before its hash" is used. `Vouched` says the same of
  the catalog and its ETag, of which the body is written first: uncontested and with no refused body about, the tag is never newer
  than the body it will vouch for, and `Confirmed` says for each point of a request what makes it so: which file is
  truncated, what the tag asked for is, what the body in hand is. `Accompanied` says that, undisturbed, a companion in hand
  is at least as new as the hash, and one in place as the hash and as any load about
  to open the script, except between the renames or once it has lapsed.
- **DevelopmentProofs**, of `Watch`: `NoChangeLost`, for any molds and number of changes. `Watching`
  says that whatever the snapshots do not show is still to be announced (`Noticed`),
  that a snapshot shows a file as it is or as it was before a change (`Order`,
  `Dates`), and that what is as the snapshots show it is what the run has read
  (`Faithful`). This rests on the order subscribe, snapshot, run.
  `WatchWindsDown`: as long as no file changes, every step of the loop spends some of `Work`, four natural numbers in
  lexicographic order. A comparison of snapshots under way that are out of date may cost two runs, and outdated snapshots one, but
  no run makes a further run due; a run has so many files to read, and after it so many events to be received.
  Of `TestRunner`: `CasesIndependent` and `GreenIsTested`, for any bases, extensions,
  metadata, molds and environments. `Removed` says of each variable that it is as it was at
  the start, and no case that ran has named it, or that it is gone; `Latched`, that the limit
  is that of some case that ran. From these two a case sees what it sees alone (`SeesTheSame`).
  `Covered` says that a base has its metadata exactly as long as none of its inputs has been met,
  which makes "the first that is met" and "the first of its base" the same input.
- **ConfigurationProofs**, for any number of processes, registries, ranks and commands:
  - `RegistryConfig`: `TypeOK`, `RanksDistinct`, `NothingLost` and `OrderKept`. Cascading moves an unbroken run of ranks up by one
    (`CascadeDistinct`, `CascadeOrder`), a swap exchanges two (`SwapDistinct`, `SwapOrder`). That this closed form is what the
    code's loop computes, whatever the ranks and wherever they wrap, is `CascadeIsTheLoop`, by induction on the turns of the loop. `RankedFiles` says that the
    file and everything any process has loaded are sound alike, so
    overwriting one with the other is harmless. `Serial` says what the running command has loaded and
    made of it, step by step, in terms of `intended`, as long as there is only one.
  - `Setup`: `Registered`, `UserRegistriesKept` and `Repeatable`. `SetupInv` says that no entry still to be
    installed is missing from the list, and that the one being ranked is there without a rank.
    For `Repeatable`, `Relaid` says what a forced installation has put back so far, and `SettledStays` that
    whatever differs from the file it began with is still on its list; that an entry added and ranked
    again moves nobody is `CascadeFree` and `CascadeBelow`.
  - `Policy`: `NoUnaskedGrant` and `SetKeepsTheRest`. `PolicyInv` says that the file is, between two commands or saves,
    what it was when the command began, and while it is written, an empty one.
- **ResolutionProofs**: `NearestCarrier`, `SilenceIsNoEvidence` and `ShownRuns`, for any registries,
  entries, ranks and holdings. `Searched` says that everything asked so far was a miss and that what comes
  before the place of a hit was asked; this needs the order to be asymmetric
  (`AheadIsAsymmetric`), ties and unranked registries included.

`Iteration` carries the inductions over data. The library's induction theorems take a property as an operator, which no
prover here can instantiate; its `WFMin`, which says that a set has a least element, takes none. So a property of numbers is
given as the set of those that have it (`LeastNumber`), one turn of a loop as a function on the states it passes
through, and `EveryTurn` says that what holds at the start and is kept by each turn holds after every turn. This is why the
loops of `SourcesFile`, `IterHelpers` and `DotPath` are written as recursive functions of the number of turns.

Every invariant and action property of the runs, and the refinement, is stated by a theorem, but for the one that is violated
(`MutationMeetsItsTarget`). Only model-checked are the liveness properties `ChainEnds` and `ComesToRest`: fairness is out of the
prover's reach. `ChainIsBounded`, `MoldsAreBounded` and `LimitedChainWindsDown` prove what lies beneath `ChainEnds`, and
`WatchWindsDown` what lies beneath `ComesToRest`; that the remaining steps are taken, and that the end is where it should be, is
what TLC adds.

## 6. What the code does differently from its documentation

One is a run that fails: `MutationMeetsItsTarget`. A mutation queued for `step(2)` by
a mold that then calls `insert_next` is applied to the inserted step (`findings` quotes the lines).

The others were met while modelling. The modules have the code's behaviour, and properties
except it where they must.

*Chain.* `set_output_format` re-parses the data when its step turns out not to be the last one
(`format_control.rs:83`, `pipeline.rs:310`). `set('input_format')` on the current step is queued and
dropped (`engine.rs:790`, `pipeline.rs:265`; `docs/guides/mold-scripting.md:408`).

*Remote caches.* A 304 for a cached catalog that is gone is not asked for again: the empty body
is used and stored (`registry/catalog.rs:249`). Where a new body cannot be written, its ETag is stored all the same
(`registry/catalog.rs:256-258`): 304s then confirm the old body until the origin publishes again (`refused`). A copy that was cut
short, by a death or by a rewriting that failed (`registry/catalog.rs:244`), keeps its ETag: it counts as fresh first and is
confirmed by 304s after that, and no load finds the mold in it. Both last until the next publication, `cache clear` or `--no-cache`, where
`docs/guides/cli-reference.md:501` promises conditional requests. The companions are fetched after the hash that makes later loads hits
(`mold.rs:445`): one that is lost is not tried again while the hash stays (`lapsed`). A companion is renamed into place
some time after it was fetched (`mold.rs:578-580`), by then perhaps over a newer one that another load has installed, and a hit
on the newer hash opens the older companion (`disturbed`).

*Registries.* Registries without a rank are searched by name, not in
the order of the file (`registry/config.rs:171`; `docs/guides/cli-reference.md:330`). A remote registry
without a `catalog.toml` answers for every name and hides the registries behind it. An entry of
`FIMOD_REGISTRY` shadows a configured registry of its name, though both are listed; an anonymous
entry is listed under a name that does not resolve. `mold show` goes by name, without rank and without
`FIMOD_REGISTRY`, and shows entries without a path, which `-m` refuses. The text listing stops at the first
registry it cannot list, the other output leaves it out. A mold kept in two layouts
may be described from one and run from the other.

*Setup.* `setup registry defaults --force` removes the community registries before its prompt
(`cmd/setup.rs:220`; `docs/guides/cli-reference.md:258`). A death between adding and ranking leaves a
registry unranked, and a repeated setup does not rank it. Without a file, `sandbox set` starts
from the recommended preset. A registry called `official` is renamed at rank 99, whoever holds that rank
(`cmd/setup.rs:288`): the two then share it, and an installation that makes way afterwards may change which of the
user's own comes first (`crowded`).

*Shape.* A batch ends at the first input whose mold sets an exit code, 0 included
(`cmd/shape.rs:594`). With `--output-format raw` inputs are passed through before `--slurp` is
looked at (`cmd/shape.rs:110`). Raw output is written in spite of `--check` (`pipeline.rs:1301`, `cmd/shape.rs:110`;
`docs/guides/cli-reference.md:30`), and a batch makes the directory of its outputs (`cmd/shape.rs:541`). A batch
overwrites an output of its own where two inputs share a name (`cmd/shape.rs:557`).

*Watch.* A mold that is missing when watch mode starts is never watched (`watch.rs:233`;
`docs/guides/cli-reference.md:846`). The quiet window is a single fixed one, where the guide describes two levels.

*Test runner.* The second input of a base has none of its metadata. Metadata that names an input file
where the base has none is never used. A directory without cases is green, and its mold is not even loaded.
The variables of a case are removed, not put back, and `FIMOD_REGEX_BACKTRACK_LIMIT` is read once
per process (`test_runner.rs:214`, `regex.rs:12`).

*Paths.* `dp_set` with an index below the first item writes the first item. A number in a path is a key of an object for
`dp_get`, but `dp_set` replaces the object by an array and `dp_delete` does nothing (`dotpath.rs`).

## 7. Not modelled

*REPL.* Whether a snippet is complete is Monty's decision; around it there is one loop whose state is the
pending text and the session.

*Formats, regex and template semantics, hashing, directives and argument parsing*: functions of
their input without state, most of them a library's. Typed arguments and the widths of exit codes
belong here too.

*The memory limit*: one counter in the allocator. *HTTP redirects and headers, the interpreter itself,
catalog generation, clap declarations, installers, release scripts.*

Left out of the modules that there are: the locations of registries in `RegistryConfig` (and the refusal to register
one twice; `Setup` has them); tokens in `Resolution`; `max_suspensions`, the choice between several policy files
and glob matching in `Policy`; formats and arguments of a case in `TestRunner`; `it_keys`, `it_values` and
`it_flatten` in `IterHelpers`; text layout everywhere. In `Watch` the clock's granularity is left out: every
change is seen to differ. In the caches nothing is said of file permissions beyond a write that fails,
nor of where in a catalog a cut falls (a copy that still has the mold's entry, or the entry without its hash, would be used).

## 8. Plan

Done, in this order: chain, budgets, compiled caches, remote caches, watch, registry configuration; shape, setup
with the sandbox policy, resolution and listing, the test runner, the helpers.

Next, most important first:

1. An abstract `Output` (each output is the old or the new content) that the streaming path of `Shape`
   refines and `fs::write` does not.
2. `Repl`: the continuation modes against interrupts and end of input.
3. The effective policy file, and `parse_size` and `parse_duration` with their bounds, in `Policy`.
4. The CSV columns and the narrowing of exit codes as functions, against reference definitions.

Proof to add: that the streaming path refines `Output`, once there is one.
