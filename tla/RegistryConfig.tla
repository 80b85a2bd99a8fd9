---------------------------- MODULE RegistryConfig ----------------------------
(***************************************************************************)
(* fimod processes that change sources.toml: each command loads the whole  *)
(* file, and fs::write truncates it before it writes it again.  Other      *)
(* processes, or the death of this one, come between any two of these.     *)
(***************************************************************************)
EXTENDS SourcesFile

CONSTANTS
  Procs,
  MaxCommands  \* bound: commands begun

ASSUME CommandsAssumption == MaxCommands \in Nat

VARIABLES
  file,     \* what sources.toml holds
  begun,    \* commands begun
  pc, cmd, cfg,  \* per process: its step, its command, what it has loaded
  intended, \* what the file would hold had each command been a single step
  mishaps   \* what happened that the properties except

vars == <<file, begun, pc, cmd, cfg, intended, mishaps>>

Commands ==
  [kind : {"rank", "cascade"}, name : Names, rank : Ranks]
  \cup [kind : {"add", "remove", "clear"}, name : Names, rank : {None}]
  \cup [kind : {"rename", "list"}, name : {None}, rank : {None}]

\* A failing command changes nothing; neither does clearing no rank.
Refused(c, k) ==
  \/ k.kind = "list"
  \/ k.kind = "add" /\ k.name \in c.sources
  \/ k.kind \in {"remove", "clear", "rank", "cascade"} /\ k.name \notin c.sources
  \/ k.kind = "clear" /\ c.rank[k.name] = Unranked
  \/ k.kind = "rename" /\ (Official \notin c.sources \/ Examples \in c.sources)

Result(c, k) ==
  CASE k.kind = "add" -> AddTo(c, k.name)
    [] k.kind = "remove" -> RemoveFrom(c, k.name)
    [] k.kind = "clear" -> ClearIn(c, k.name)
    [] k.kind = "rank" -> SetPriority(c, k.name, k.rank, FALSE)
    [] k.kind = "cascade" -> SetPriority(c, k.name, k.rank, TRUE)
    [] k.kind = "rename" -> RenameOfficial(c)
    [] k.kind = "list" -> c

\* What makes two registries share a rank.
Crowding(c, k) ==
  (IF k.kind \in {"rank", "cascade"} /\ Wraps(c, k.name, k.rank, k.kind = "cascade")
   THEN {"wrapped"} ELSE {}) \cup
  (IF k.kind = "rename" /\ Holders(c, Examples, ExamplesRank) \ {Official} # {} THEN {"renamed"} ELSE {})

Busy(p) == pc[p] # "idle"
Leave(p) == pc' = [pc EXCEPT ![p] = "idle"] /\ cmd' = [cmd EXCEPT ![p] = None]

----------------------------------------------------------------------------
Init ==
  /\ file \in {c \in Configs :
       /\ \A n \in Names \ c.sources : c.rank[n] = Unranked
       /\ Distinct(c) /\ c.default \in c.sources \cup {None}}
  /\ begun = 0
  /\ pc = [p \in Procs |-> "idle"]
  /\ cmd = [p \in Procs |-> None] /\ cfg = [p \in Procs |-> Empty]
  /\ intended = file /\ mishaps = {}

Begin(p) ==
  /\ pc[p] = "idle" /\ begun < MaxCommands
  /\ \E k \in Commands : cmd' = [cmd EXCEPT ![p] = k]
  /\ begun' = begun + 1
  /\ pc' = [pc EXCEPT ![p] = "load"]
  /\ mishaps' = IF \E q \in Procs : Busy(q) THEN mishaps \cup {"overlap"} ELSE mishaps
  /\ UNCHANGED <<file, cfg, intended>>

\* Mutant: what the process has loaded before is good enough.
LoadOnce(p) ==
  /\ pc[p] = "load"
  /\ cfg' = [cfg EXCEPT ![p] = IF cmd[p].kind # "list" /\ cfg[p] # Empty THEN cfg[p] ELSE Migrated(file)]
  /\ pc' = [pc EXCEPT ![p] = "loaded"]
  /\ UNCHANGED <<file, begun, cmd, intended, mishaps>>

\* load_config; a file with the old field is saved again before the command.
Load(p) ==
  /\ pc[p] = "load"
  /\ cfg' = [cfg EXCEPT ![p] = Migrated(file)]
  /\ pc' = [pc EXCEPT ![p] = IF file.default = None THEN "loaded" ELSE "migrate"]
  /\ mishaps' = IF /\ file.default \in file.sources /\ file.rank[file.default] = Unranked
                   /\ Holders(file, file.default, 0) # {}
                THEN mishaps \cup {"default"} ELSE mishaps
  /\ UNCHANGED <<file, begun, cmd, intended>>

Decline(p) ==
  /\ pc[p] = "loaded" /\ Refused(cfg[p], cmd[p])
  /\ Leave(p)
  /\ UNCHANGED <<file, begun, cfg, intended, mishaps>>

Apply(p) ==
  /\ pc[p] = "loaded" /\ ~Refused(cfg[p], cmd[p])
  /\ cfg' = [cfg EXCEPT ![p] = Result(cfg[p], cmd[p])]
  /\ mishaps' = mishaps \cup Crowding(cfg[p], cmd[p])
  /\ pc' = [pc EXCEPT ![p] = "save"]
  /\ UNCHANGED <<file, begun, cmd, intended>>

\* fs::write opens the file with truncation.
Truncate(p) ==
  /\ pc[p] \in {"migrate", "save"}
  /\ file' = Empty
  /\ pc' = [pc EXCEPT ![p] = IF pc[p] = "save" THEN "write" ELSE "rewrite"]
  /\ UNCHANGED <<begun, cmd, cfg, intended, mishaps>>

Rewrite(p) ==
  /\ pc[p] = "rewrite"
  /\ file' = Saved(cfg[p])
  /\ intended' = Migrated(intended)
  /\ pc' = [pc EXCEPT ![p] = "loaded"]
  /\ UNCHANGED <<begun, cmd, cfg, mishaps>>

Write(p) ==
  /\ pc[p] = "write"
  /\ file' = Saved(cfg[p])
  /\ intended' = IF Refused(intended, cmd[p]) THEN intended
                 ELSE Saved(Result(intended, cmd[p]))
  /\ Leave(p)
  /\ UNCHANGED <<begun, cfg, mishaps>>

\* The process dies, or a write fails: a file it has truncated stays so.
Die(p) ==
  /\ Busy(p) /\ Leave(p)
  /\ mishaps' = IF pc[p] \in {"write", "rewrite"} THEN mishaps \cup {"torn"} ELSE mishaps
  /\ UNCHANGED <<file, begun, cfg, intended>>

Next ==
  \E p \in Procs : \/ Begin(p) \/ Load(p) \/ Decline(p) \/ Apply(p)
                   \/ Truncate(p) \/ Rewrite(p) \/ Write(p) \/ Die(p)

Spec == Init /\ [][Next]_vars

----------------------------------------------------------------------------
\* Properties

\* A file, and whatever a process holds of one, ranks only registries it has: a
\* truncated file, an overwritten one and a stale one included (config.rs:265).
TypeOK ==
  /\ file \in Configs /\ cfg \in [Procs -> Configs]
  /\ pc \in [Procs -> {"idle", "load", "migrate", "rewrite", "loaded", "save", "write"}]
  /\ \A c \in {file} \cup {cfg[p] : p \in Procs} :
       \A n \in Names \ c.sources : c.rank[n] = Unranked

\* No two registries share a rank, whatever commands run, die or overwrite each
\* other, but for what bypasses set_priority's making way: the migration of
\* `default` to rank 0 (config.rs:139-145), that of `official` to rank 99
\* (setup.rs:291-292), and the last u32 wrapping around (config.rs:429).
RanksDistinct ==
  mishaps \cap {"default", "renamed", "wrapped"} = {} => Distinct(file)

\* Without commands at the same time and a death while the file is truncated, the
\* file is what the commands make of it one after the other: each loads what the
\* one before it wrote (config.rs:200, :261, :397).
NothingLost ==
  mishaps \cap {"overlap", "torn"} = {} /\ (\A p \in Procs : pc[p] \notin {"write", "rewrite"})
    => file = intended

\* Cascade is what the loop of set_priority computes, also where registries share
\* a rank and where the last rank wraps around (config.rs:424-429).
CascadeIsTheLoop ==
  \A p \in Procs : pc[p] = "loaded" /\ cmd[p].kind \in {"rank", "cascade"} =>
    Cascade(cfg[p], cmd[p].name, cmd[p].rank) = CascadeLoop(cfg[p], cmd[p].name, cmd[p].rank)

\* Which of the other registries set-priority may move against each other: the
\* one that it swaps ranks with.
Swapped(c, k) ==
  IF k.kind = "rank" /\ c.rank[k.name] # Unranked THEN Holders(c, k.name, k.rank) ELSE {}

OrderKeptBy(p) ==
  /\ pc[p] = "loaded" /\ pc'[p] = "save" /\ cmd[p].kind \in {"rank", "cascade"}
  /\ Distinct(cfg[p]) /\ "wrapped" \notin mishaps'
  => LET n == cmd[p].name
         others == cfg[p].sources \ ({n} \cup Swapped(cfg[p], cmd[p]))
     IN /\ cfg'[p].rank[n] = cmd[p].rank
        /\ \A a, b \in others : Before(cfg[p], a, b) <=> Before(cfg'[p], a, b)
        /\ \A b \in Names \ {n} :
             cfg[p].rank[b] \in Ranks /\ cfg[p].rank[b] >= cmd[p].rank
               => Before(cfg'[p], n, b) \/ b \in Swapped(cfg[p], cmd[p])

\* set-priority ranks its registry as told, ahead of all that it displaces, and
\* leaves the others in the order in which they are searched (config.rs:416-454).
OrderKept == [][\A p \in Procs : OrderKeptBy(p)]_vars
=============================================================================
