------------------------------ MODULE TestRunner ------------------------------
(***************************************************************************)
(* `fimod mold test`: which cases the files of a directory make, and what  *)
(* the cases do to one another through the process they share              *)
(* (test_runner.rs).  Of the environment two variables matter to a mold:   *)
(* FIMOD_LEGACY_BUILTINS, which every execution reads (engine.rs), and     *)
(* FIMOD_REGEX_BACKTRACK_LIMIT, which the first regex of the process reads *)
(* for all later ones (regex.rs).                                          *)
(***************************************************************************)
EXTENDS Integers, Sequences, FiniteSets

CONSTANTS
  Bases,  \* names of cases, in the order of their files
  Exts,   \* extensions, in that order
  Metas,  \* what a *.run-test.toml may say
  TestMolds,
  NotGiven,
  Bad     \* metadata that is not TOML

ASSUME TestRunnerAssumption == Bases \subseteq Nat /\ Exts \subseteq Nat

VARIABLES
  dir,       \* the files: inputs, expected, and metas by base
  mold,
  env,       \* the variables of the process
  latched,   \* the backtrack limit in use: a value, or "unread"
  metas,     \* the metadata no input has taken yet
  unmet,     \* inputs still to be looked at
  cases,
  verdicts,
  outcome,
  env0       \* history: the environment at the start

testVars == <<dir, mold, env, latched, metas, unmet, cases, verdicts, outcome, env0>>

Variables == {"legacy", "limit"}
TestFiles == Bases \X Exts
Environments == [Variables -> {"on", "off", NotGiven}]

\* CaseMeta: a file to read instead (a pair that is not there for one that is missing),
\* the exit code, and the variables of the case with their values (NotGiven: not named).
MetaRecords == [input : TestFiles \cup {NotGiven}, expected : TestFiles \cup {NotGiven}, exit : {0, 1}, skip : BOOLEAN,
          sets : Environments]

\* The variables a mold depends on, and what becomes of it when one of them is
\* on and when none is: an error, exit code 1, or output that the expected file
\* holds, or does not hold.
MoldRecords == [reads : SUBSET Variables, on : [BOOLEAN -> {"error", "exit", "same", "other"}]]

Plain == [input |-> NotGiven, expected |-> NotGiven, exit |-> 0, skip |-> FALSE, sets |-> [v \in Variables |-> NotGiven]]

ASSUME GivenAssumption == Metas \subseteq MetaRecords /\ TestMolds \subseteq MoldRecords

Sooner(f, g) == f[1] < g[1] \/ (f[1] = g[1] /\ f[2] < g[2])
First(files) == {f \in files : \A g \in files \ {f} : Sooner(f, g)}

\* The expected file of input f: the one named, else the one of its extension, else
\* the first of its base; a set, empty where there is none.
Expected(f, meta) ==
  IF meta.expected # NotGiven THEN {meta.expected}
  ELSE IF f \in dir.expected THEN {f} ELSE First({g \in dir.expected : g[1] = f[1]})

----------------------------------------------------------------------------
\* fimod mold test

TestInit ==
  /\ dir \in [inputs : SUBSET TestFiles, expected : SUBSET TestFiles, metas : [Bases -> Metas \cup {NotGiven, Bad}]]
  /\ mold \in TestMolds
  /\ env \in Environments
  /\ env0 = env
  /\ latched = "unread" /\ metas = dir.metas /\ unmet = dir.inputs
  /\ cases = <<>> /\ verdicts = <<>> /\ outcome = "discovering"

BadMeta ==
  /\ outcome = "discovering" /\ \E b \in Bases : dir.metas[b] = Bad
  /\ outcome' = "error"
  /\ UNCHANGED <<dir, mold, env, latched, metas, unmet, cases, verdicts, env0>>

Case(f, meta, expected) ==
  [input |-> IF meta.input = NotGiven THEN f ELSE meta.input, expected |-> expected, of |-> f, meta |-> meta]

\* Mutant: the loop ends where it should go on.
MeetAndStop(f) ==
  /\ outcome = "discovering" /\ \A b \in Bases : metas[b] # Bad
  /\ f \in First(unmet)
  /\ LET meta == IF metas[f[1]] = NotGiven THEN Plain ELSE metas[f[1]]
         none == meta.skip \/ Expected(f, meta) = {}
     IN  /\ unmet' = IF meta.skip THEN {} ELSE unmet \ {f}
         /\ cases' = IF none THEN cases
                     ELSE Append(cases, Case(f, meta, CHOOSE g \in Expected(f, meta) : TRUE))
  /\ metas' = [metas EXCEPT ![f[1]] = NotGiven]
  /\ UNCHANGED <<dir, mold, env, latched, verdicts, outcome, env0>>

\* The metadata of a base goes to its first input, a skipped one or one without
\* an expected file included; later inputs of the base have none.
Meet(f) ==
  /\ outcome = "discovering" /\ \A b \in Bases : metas[b] # Bad
  /\ f \in First(unmet)
  /\ unmet' = unmet \ {f}
  /\ LET meta == IF metas[f[1]] = NotGiven THEN Plain ELSE metas[f[1]]
     IN  cases' = IF meta.skip \/ Expected(f, meta) = {} THEN cases
                  ELSE Append(cases, Case(f, meta, CHOOSE g \in Expected(f, meta) : TRUE))
  /\ metas' = [metas EXCEPT ![f[1]] = NotGiven]
  /\ UNCHANGED <<dir, mold, env, latched, verdicts, outcome, env0>>

\* Without cases the mold is not even loaded; loading it may fail.
Load ==
  /\ outcome = "discovering" /\ unmet = {} /\ \A b \in Bases : metas[b] # Bad
  /\ IF cases = <<>> THEN outcome' = "done" ELSE outcome' \in {"running", "error"}
  /\ UNCHANGED <<dir, mold, env, latched, metas, unmet, cases, verdicts, env0>>

----------------------------------------------------------------------------
\* run_case

\* The environment with the variables of the case in it.
Within(e, case) ==
  [v \in Variables |-> IF case.meta.sets[v] = NotGiven THEN e[v] ELSE case.meta.sets[v]]

\* The limit a regex is given, `l` being the limit latched so far.
Latch(e, l) == IF "limit" \in mold.reads /\ l = "unread" THEN e["limit"] ELSE l

Executed(e, l) ==
  LET seen == [v \in Variables |-> IF v = "limit" THEN Latch(e, l) ELSE e[v]]
  IN  mold.on[\E v \in mold.reads : seen[v] = "on"]

\* The exit code is compared before the expected file is read.
Verdict(case, result) ==
  IF /\ result # "error" /\ (IF result = "exit" THEN 1 ELSE 0) = case.meta.exit
     /\ case.expected \in dir.expected /\ result # "other"
  THEN "passed" ELSE "failed"

\* Mutant: an error of the mold returns before the variables are removed.
CleanedOnSuccess(case) ==
  IF Executed(Within(env, case), latched) = "error" THEN Within(env, case)
  ELSE [v \in Variables |-> IF case.meta.sets[v] = NotGiven THEN env[v] ELSE NotGiven]

\* Whatever the mold did, the variables of the case are removed, not put back.
Cleaned(case) ==
  [v \in Variables |-> IF case.meta.sets[v] = NotGiven THEN env[v] ELSE NotGiven]

RunCase ==
  /\ outcome = "running" /\ Len(verdicts) < Len(cases)
  /\ LET case == cases[Len(verdicts) + 1]
     IN  IF case.input \notin dir.inputs
         THEN verdicts' = Append(verdicts, "failed") /\ UNCHANGED <<env, latched>>
         ELSE /\ verdicts' = Append(verdicts, Verdict(case, Executed(Within(env, case), latched)))
              /\ latched' = Latch(Within(env, case), latched)
              /\ env' = Cleaned(case)
  /\ UNCHANGED <<dir, mold, metas, unmet, cases, outcome, env0>>

FinishTests ==
  /\ outcome = "running" /\ Len(verdicts) = Len(cases)
  /\ outcome' = IF \E n \in DOMAIN verdicts : verdicts[n] = "failed" THEN "exit 1" ELSE "done"
  /\ UNCHANGED <<dir, mold, env, latched, metas, unmet, cases, verdicts, env0>>

TestNext == BadMeta \/ Load \/ RunCase \/ FinishTests \/ \E f \in TestFiles : Meet(f)

TestSpec == TestInit /\ [][TestNext]_testVars

----------------------------------------------------------------------------
\* Properties

\* The verdict on a case run alone, in a fresh process.
Alone(case) ==
  IF case.input \notin dir.inputs THEN "failed"
  ELSE Verdict(case, Executed(Within(env0, case), "unread"))

\* An earlier case has named the variable of the process that this one relies on, and
\* taken it away; or case and predecessors are not of one mind on the limit that
\* the first of them latched.
Disturbed(n) ==
  \E m \in 1 .. n - 1 :
    LET earlier == cases[m].meta.sets own == cases[n].meta.sets
    IN  cases[m].input \in dir.inputs /\
          (\/ \E v \in mold.reads : earlier[v] # NotGiven /\ own[v] = NotGiven /\ env0[v] # NotGiven
           \/ "limit" \in mold.reads /\ earlier["limit"] # own["limit"])

\* The verdict on a case is the one it has when it is run alone, whatever ran before it,
\* errors and missing files included: but for a variable that the process had itself
\* and an earlier case named, and for the backtrack limit, which is read once
\* (run_case: set_var, remove_var; backtrack_limit).
CasesIndependent ==
  \A n \in DOMAIN verdicts : verdicts[n] = Alone(cases[n]) \/ Disturbed(n)

\* What a green run stands for: every input that has an expected file, and that its
\* metadata does not skip, was run and passed; the metadata of every base with an
\* input counted, with the exit code it asks for; and only a directory without such an
\* input is green without running anything (discover_test_cases, run).
GreenIsTested ==
  outcome = "done" =>
    /\ Len(verdicts) = Len(cases)
    /\ \A f \in dir.inputs :
         LET meta == dir.metas[f[1]]
             own == IF meta = NotGiven \/ f \notin First({g \in dir.inputs : g[1] = f[1]}) THEN Plain ELSE meta
         IN  own.skip \/ Expected(f, own) = {} \/
               \E n \in DOMAIN cases : cases[n] = Case(f, own, CHOOSE g \in Expected(f, own) : TRUE) /\ verdicts[n] = "passed"
=============================================================================
