-------------------------------- MODULE Policy --------------------------------
(***************************************************************************)
(* A sandbox policy file (sandbox.toml): what a run takes from it          *)
(* (sandbox.rs), and what the setup commands read from it and write to it  *)
(* (cmd/setup.rs).  The two read it with code of their own.                *)
(*                                                                         *)
(* `limit` stands for max_duration and max_memory, which are treated       *)
(* alike; a value is named by its order.                                   *)
(***************************************************************************)
EXTENDS Naturals

CONSTANTS
  Patterns,  \* globs of allow_env
  Unset      \* the field is not in the file

Bools == {"yes", "no"}

\* 30s < 10m < 30m < unlimited; 0 is what neither parse_duration nor parse_size accepts.
Limits == 0 .. 4
Hard == 2

ASSUME PolicyAssumption == Unset \notin Limits /\ Unset \notin Bools /\ \A E \in SUBSET Patterns : Unset # E

Files ==
  [clock : Bools \cup {Unset}, limit : Limits \cup {Unset}, env : (SUBSET Patterns) \cup {Unset}]

\* A file that fs::write has truncated: TOML without the table.
Truncated == [clock |-> Unset, limit |-> Unset, env |-> Unset]

ZeroAuthorization == [clock |-> "no", limit |-> Hard, env |-> {}]

Or(value, default) == IF value = Unset THEN default ELSE value

\* load_file
LoadFile(f) ==
  [clock |-> Or(f.clock, "no"), limit |-> Or(f.limit, Hard), env |-> Or(f.env, {})]

Loads(f) == f.limit # 0

\* SandboxPolicy::resolve, where no other file is named; Absent is no file, and
\* where the file is refused no mold runs.
InForce(f, Absent) ==
  IF f = Absent THEN ZeroAuthorization
  ELSE IF Loads(f) THEN LoadFile(f) ELSE [clock |-> "no", limit |-> 0, env |-> {}]

----------------------------------------------------------------------------
\* cmd/setup.rs

Presets == {"recommended", "strict", "permissive"}

Preset(p, permitted) ==
  [recommended |-> [clock |-> "yes", limit |-> Hard, env |-> {}],
   strict |-> [clock |-> "no", limit |-> 1, env |-> {}],
   permissive |-> [clock |-> "yes", limit |-> 3, env |-> permitted]][p]

\* Mutant: what the file leaves out is as the recommended preset has it.
FromTableByPreset(f) ==
  [clock |-> Or(f.clock, "yes"), limit |-> Or(f.limit, Hard), env |-> Or(f.env, {})]

FromTable(f) ==
  [clock |-> Or(f.clock, "no"), limit |-> Or(f.limit, Hard), env |-> Or(f.env, {})]

\* Mutant: patterns that are not given are taken away.
EditedAnew(f, e) ==
  [clock |-> Or(e.clock, f.clock), limit |-> Or(e.limit, f.limit), env |-> Or(e.env, {})]

\* What `set` is asked for; Unset fields are not.
Edited(f, e) ==
  [clock |-> Or(e.clock, f.clock), limit |-> Or(e.limit, f.limit), env |-> Or(e.env, f.env)]
=============================================================================
