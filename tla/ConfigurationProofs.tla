------------------------ MODULE ConfigurationProofs -------------------------
(***************************************************************************)
(* sources.toml and sandbox.toml: the ranks of registries under any number *)
(* of processes, and what the setup commands make of the two files.        *)
(***************************************************************************)
EXTENDS RegistryConfig, Setup, SequenceTheorems, FiniteSetTheorems, Iteration, TLAPS

RankMaps == [Names -> Ranks \cup {Unranked}]

\* A rank is of a registry that is there.
Consistent(c) == \A n \in Names \ c.sources : c.rank[n] = Unranked

USE SourcesAssumption, CommandsAssumption DEF Ranks

----------------------------------------------------------------------------
\* The operators

\* There is a next rank to every rank.
LEMMA NextRankType == \A q \in Ranks : NextRank(q) \in Ranks
  BY DEF NextRank

\* Cascade only moves ranks to the next one, and puts n where it is told.
LEMMA CascadeRanks ==
  ASSUME NEW c \in Configs, NEW n \in Names, NEW r \in Ranks
  PROVE  /\ Cascade(c, n, r) \in Configs /\ Cascade(c, n, r).sources = c.sources
         /\ Cascade(c, n, r).rank \in RankMaps
         /\ Cascade(c, n, r).rank[n] = r
         /\ \A m \in Names \ {n} : Cascade(c, n, r).rank[m] =
              IF MakesWay(c, n, r, m) THEN NextRank(c.rank[m]) ELSE c.rank[m]
  <1> DEFINE f == [m \in Names |->
                     IF m = n THEN r
                     ELSE IF MakesWay(c, n, r, m) THEN NextRank(c.rank[m]) ELSE c.rank[m]]
  <1>1. c.rank \in RankMaps
    BY DEF Configs, RankMaps
  <1>2. ASSUME NEW m \in Names, MakesWay(c, n, r, m) PROVE NextRank(c.rank[m]) \in Ranks
    <2>1. c.rank[m] \in Ranks \cup {Unranked} /\ c.rank[m] # Unranked
      BY <1>1, <1>2 DEF MakesWay, RankMaps
    <2> QED
      BY <2>1, NextRankType
  <1>3. f \in RankMaps
    BY <1>1, <1>2 DEF RankMaps
  <1>4. Cascade(c, n, r) = [c EXCEPT !.rank = f]
    BY DEF Cascade
  <1>5. Cascade(c, n, r).rank = f
    BY <1>4 DEF Configs
  <1>6. Cascade(c, n, r) \in Configs /\ Cascade(c, n, r).sources = c.sources
    BY <1>3, <1>4 DEF Configs, RankMaps
  <1> QED
    BY <1>3, <1>5, <1>6

\* The occupant of the rank gets the one that n had.
LEMMA SwapRanks ==
  ASSUME NEW c \in Configs, NEW n \in Names, NEW r \in Ranks
  PROVE  /\ Swap(c, n, r) \in Configs /\ Swap(c, n, r).sources = c.sources
         /\ Swap(c, n, r).rank \in RankMaps
         /\ Swap(c, n, r).rank[n] = r
         /\ \A m \in Names \ {n} : Swap(c, n, r).rank[m] =
              IF First(Holders(c, n, r), m) THEN c.rank[n] ELSE c.rank[m]
  <1> DEFINE f == [m \in Names |->
                     IF m = n THEN r
                     ELSE IF First(Holders(c, n, r), m) THEN c.rank[n] ELSE c.rank[m]]
  <1>1. f \in RankMaps
    BY DEF Configs, RankMaps
  <1>2. Swap(c, n, r) = [c EXCEPT !.rank = f]
    BY DEF Swap
  <1>3. Swap(c, n, r).rank = f
    BY <1>2 DEF Configs
  <1>6. Swap(c, n, r) \in Configs /\ Swap(c, n, r).sources = c.sources
    BY <1>1, <1>2 DEF Configs, RankMaps
  <1> QED
    BY <1>1, <1>3, <1>6

\* With distinct ranks, who holds the rank asked for makes way,
LEMMA HolderMakesWay ==
  ASSUME NEW c \in Configs, NEW n \in Names, NEW r \in Ranks, Distinct(c),
         NEW m \in Names \ {n}, c.rank[m] = r
  PROVE  MakesWay(c, n, r, m)
  <1>1. r # Unranked
    OBVIOUS
  <1>2. \A k \in Holders(c, n, r) : k = m
    BY <1>1 DEF Holders, Distinct
  <1>3. m \in Holders(c, n, r) /\ m \in Nat
    BY DEF Holders
  <1>4. First(Holders(c, n, c.rank[m]), m)
    BY <1>2, <1>3 DEF First
  <1> QED
    BY <1>3, <1>4 DEF MakesWay

\* and so does who holds the rank after that of one who makes way.
LEMMA NextMakesWay ==
  ASSUME NEW c \in Configs, NEW n \in Names, NEW r \in Ranks, Distinct(c),
         NEW a \in Names, NEW b \in Names \ {n}, MakesWay(c, n, r, a),
         c.rank[b] = c.rank[a] + 1
  PROVE  MakesWay(c, n, r, b)
  <1>1. c.rank[a] \in Ranks
    BY DEF MakesWay, Configs
  <1>2. c.rank[b] # Unranked
    BY <1>1
  <1>3. c.rank[b] \in Ranks
    BY <1>2 DEF Configs
  <1>4. \A k \in Holders(c, n, c.rank[b]) : k = b
    BY <1>2 DEF Holders, Distinct
  <1>5. b \in Holders(c, n, c.rank[b]) /\ b \in Nat
    BY DEF Holders
  <1>6. First(Holders(c, n, c.rank[b]), b)
    BY <1>4, <1>5 DEF First
  <1>7. \A s \in r .. c.rank[b] : s \in r .. c.rank[a] \/ s = c.rank[b]
    BY <1>1, <1>3
  <1> QED
    BY <1>1, <1>3, <1>5, <1>6, <1>7 DEF MakesWay

\* With distinct ranks and room at the end, making way leaves them distinct.
LEMMA CascadeDistinct ==
  ASSUME NEW c \in Configs, NEW n \in Names, NEW r \in Ranks, Distinct(c),
         \A m \in Names : ~(MakesWay(c, n, r, m) /\ c.rank[m] = MaxRank)
  PROVE  Distinct(Cascade(c, n, r))
  <1> DEFINE f == Cascade(c, n, r).rank
  <1>0. c.rank \in RankMaps
    BY DEF Configs, RankMaps
  <1>1. f[n] = r /\ \A m \in Names \ {n} :
          f[m] = IF MakesWay(c, n, r, m) THEN NextRank(c.rank[m]) ELSE c.rank[m]
    BY CascadeRanks, SMTT(30)
  <1>2. \A m \in Names \ {n} : f[m] =
          IF MakesWay(c, n, r, m) THEN c.rank[m] + 1 ELSE c.rank[m]
    BY <1>1 DEF NextRank
  \* Who holds the rank asked for makes way.
  <1>3. ASSUME NEW m \in Names \ {n}, c.rank[m] = r PROVE MakesWay(c, n, r, m)
    BY <1>3, HolderMakesWay
  \* Who holds the rank after that of one who makes way does too.
  <1>4. ASSUME NEW a \in Names, NEW b \in Names \ {n}, MakesWay(c, n, r, a),
               c.rank[b] = c.rank[a] + 1
        PROVE  MakesWay(c, n, r, b)
    BY <1>4, NextMakesWay
  <1>5. ASSUME NEW m \in Names \ {n}, f[m] # Unranked PROVE c.rank[m] \in Ranks /\ f[m] # r
    <2>1. c.rank[m] \in Ranks
      BY <1>0, <1>2, <1>5 DEF RankMaps, MakesWay
    <2> QED
      BY <1>2, <1>3, <2>1 DEF MakesWay
  <1>6. ASSUME NEW a \in Names \ {n}, NEW b \in Names \ {n}, a # b, f[a] # Unranked,
               f[a] = f[b]
        PROVE  FALSE
    <2>1. c.rank[a] \in Ranks /\ c.rank[b] \in Ranks
      BY <1>5, <1>6
    <2>2. c.rank[a] # c.rank[b]
      BY <2>1, <1>6 DEF Distinct
    <2>3. c.rank[b] # c.rank[a] + 1 \/ ~MakesWay(c, n, r, a) \/ MakesWay(c, n, r, b)
      BY <1>4
    <2>4. c.rank[a] # c.rank[b] + 1 \/ ~MakesWay(c, n, r, b) \/ MakesWay(c, n, r, a)
      BY <1>4
    <2> QED
      BY <1>2, <1>6, <2>1, <2>2, <2>3, <2>4
  <1>7. r # Unranked
    OBVIOUS
  <1> QED
    BY <1>1, <1>5, <1>6, <1>7 DEF Distinct

\* Two registries that exchange distinct ranks keep them distinct.
LEMMA SwapDistinct ==
  ASSUME NEW c \in Configs, NEW n \in Names, NEW r \in Ranks, Distinct(c),
         c.rank[n] # Unranked
  PROVE  Distinct(Swap(c, n, r))
  <1> DEFINE f == Swap(c, n, r).rank
  <1>0. f[n] = r
    BY SwapRanks
  <1>1. f[n] = r /\ \A m \in Names \ {n} :
          f[m] = IF First(Holders(c, n, r), m) THEN c.rank[n] ELSE c.rank[m]
    BY <1>0, SwapRanks, Zenon
  <1>2. \A m \in Names : First(Holders(c, n, r), m) <=> m # n /\ c.rank[m] = r
    BY DEF First, Holders, Distinct
  <1>3. r # Unranked
    OBVIOUS
  <1> QED
    BY <1>1, <1>2, <1>3 DEF Distinct

\* Saving keeps the registries and their ranks.
LEMMA SavedKeeps ==
  ASSUME NEW c \in Configs
  PROVE  /\ Saved(c) \in Configs
         /\ Saved(c).sources = c.sources /\ Saved(c).rank = c.rank
  BY DEF Saved, Configs

\* The migration of `default` ranks a registry that is there, apart from the
\* others unless rank 0 is taken.
LEMMA MigratedKeeps ==
  ASSUME NEW c \in Configs, Consistent(c)
  PROVE  /\ Migrated(c) \in Configs /\ Consistent(Migrated(c))
         /\ Distinct(c) /\ ~(/\ c.default \in c.sources /\ c.rank[c.default] = Unranked
                            /\ Holders(c, c.default, 0) # {})
            => Distinct(Migrated(c))
  <1>1. CASE ~(c.default \in c.sources /\ c.rank[c.default] = Unranked)
    <2>1. Migrated(c) = Saved(c)
      BY <1>1 DEF Migrated
    <2> QED
      BY <2>1, SavedKeeps DEF Consistent, Distinct
  <1>2. CASE c.default \in c.sources /\ c.rank[c.default] = Unranked
    <2> DEFINE d == [c EXCEPT !.rank[c.default] = 0]
    <2>1. c.default \in Names /\ 0 \in Ranks
      BY <1>2 DEF Configs
    <2>2. /\ d \in Configs /\ d.sources = c.sources
          /\ \A m \in Names : d.rank[m] = IF m = c.default THEN 0 ELSE c.rank[m]
      BY <2>1 DEF Configs
    <2>3. /\ Migrated(c) \in Configs /\ Migrated(c).sources = c.sources
          /\ Migrated(c).rank = d.rank
      BY <1>2, <2>2, SavedKeeps DEF Migrated
    <2>4. Consistent(Migrated(c))
      BY <1>2, <2>2, <2>3 DEF Consistent
    <2>5. ASSUME Distinct(c), Holders(c, c.default, 0) = {} PROVE Distinct(Migrated(c))
      BY <1>2, <2>1, <2>2, <2>3, <2>5 DEF Distinct, Holders
    <2> QED
      BY <1>2, <2>3, <2>4, <2>5
  <1> QED
    BY <1>1, <1>2

\* set-priority leaves the ranks with the registries and, but for a wrap, distinct.
LEMMA SetPriorityKeeps ==
  ASSUME NEW c \in Configs, NEW n \in c.sources, NEW r \in Ranks, NEW cascade \in BOOLEAN,
         Consistent(c)
  PROVE  /\ SetPriority(c, n, r, cascade) \in Configs
         /\ Consistent(SetPriority(c, n, r, cascade))
         /\ Distinct(c) /\ ~Wraps(c, n, r, cascade) => Distinct(SetPriority(c, n, r, cascade))
  <1>0. n \in Names /\ c.rank \in RankMaps
    BY DEF Configs, RankMaps
  <1>1. CASE cascade \/ c.rank[n] = Unranked
    <2>1. SetPriority(c, n, r, cascade) = Cascade(c, n, r)
      BY <1>1 DEF SetPriority
    <2>2. Cascade(c, n, r) \in Configs /\ Cascade(c, n, r).sources = c.sources
      BY <1>0, CascadeRanks
    <2>3. Consistent(Cascade(c, n, r))
      <3> SUFFICES ASSUME NEW m \in Names \ c.sources PROVE Cascade(c, n, r).rank[m] = Unranked
        BY <2>2 DEF Consistent
      <3>1. m # n /\ c.rank[m] = Unranked
        BY DEF Consistent
      <3> QED
        BY <1>0, <3>1, CascadeRanks DEF MakesWay
    <2>4. ASSUME Distinct(c), ~Wraps(c, n, r, cascade) PROVE Distinct(Cascade(c, n, r))
      BY <1>0, <1>1, <2>4, CascadeDistinct DEF Wraps
    <2> QED
      BY <2>1, <2>2, <2>3, <2>4
  <1>2. CASE ~cascade /\ c.rank[n] # Unranked
    <2>1. SetPriority(c, n, r, cascade) = Swap(c, n, r)
      BY <1>2 DEF SetPriority
    <2>2. Swap(c, n, r) \in Configs /\ Swap(c, n, r).sources = c.sources
      BY <1>0, SwapRanks
    <2>3. Consistent(Swap(c, n, r))
      <3> SUFFICES ASSUME NEW m \in Names \ c.sources PROVE Swap(c, n, r).rank[m] = Unranked
        BY <2>2 DEF Consistent
      <3>1. m \in Names \ {n} /\ c.rank[m] = Unranked
        BY <1>0 DEF Consistent
      <3>2. r # Unranked
        OBVIOUS
      <3>3. ~First(Holders(c, n, r), m)
        BY <3>1, <3>2 DEF First, Holders
      <3> QED
        BY <1>0, <3>1, <3>3, SwapRanks
    <2>4. Distinct(c) => Distinct(Swap(c, n, r))
      BY <1>0, <1>2, SwapDistinct
    <2> QED
      BY <2>1, <2>2, <2>3, <2>4
  <1> QED
    BY <1>1, <1>2

\* So does every command that is not refused, but for the two that do not make way.
LEMMA ResultKeeps ==
  ASSUME NEW c \in Configs, NEW k \in Commands, Consistent(c), ~Refused(c, k)
  PROVE  /\ Result(c, k) \in Configs /\ Consistent(Result(c, k))
         /\ Distinct(c) /\ Crowding(c, k) = {} => Distinct(Result(c, k))
  <1>0. k.kind \in {"rank", "cascade", "add", "remove", "clear", "rename", "list"}
    BY DEF Commands
  <1>1. CASE k.kind = "add"
    <2>1. k.name \in Names
      BY <1>1 DEF Commands
    <2>2. /\ Result(c, k) \in Configs /\ Result(c, k).rank = c.rank
          /\ Result(c, k).sources = c.sources \cup {k.name}
      BY <1>1, <2>1 DEF Result, AddTo, Configs
    <2> QED
      BY <2>2 DEF Consistent, Distinct
  <1>2. CASE k.kind = "remove"
    <2>1. k.name \in Names
      BY <1>2 DEF Commands
    <2>2. /\ Result(c, k) \in Configs /\ Result(c, k).sources = c.sources \ {k.name}
          /\ \A m \in Names : Result(c, k).rank[m] = IF m = k.name THEN Unranked ELSE c.rank[m]
      BY <1>2, <2>1 DEF Result, RemoveFrom, Configs
    <2> QED
      BY <2>2 DEF Consistent, Distinct
  <1>3. CASE k.kind = "clear"
    <2>1. k.name \in Names
      BY <1>3 DEF Commands
    <2>2. /\ Result(c, k) \in Configs /\ Result(c, k).sources = c.sources
          /\ \A m \in Names : Result(c, k).rank[m] = IF m = k.name THEN Unranked ELSE c.rank[m]
      BY <1>3, <2>1 DEF Result, ClearIn, Configs
    <2> QED
      BY <2>2 DEF Consistent, Distinct
  <1>4. CASE k.kind \in {"rank", "cascade"}
    <2>1. k.name \in c.sources /\ k.rank \in Ranks
      BY <1>4 DEF Commands, Refused
    <2>2. Result(c, k) = SetPriority(c, k.name, k.rank, k.kind = "cascade")
      BY <1>4 DEF Result
    <2>3. (k.kind = "cascade") \in BOOLEAN
      OBVIOUS
    <2>4. Crowding(c, k) = {} => ~Wraps(c, k.name, k.rank, k.kind = "cascade")
      BY <1>4 DEF Crowding
    <2> DEFINE cascade == k.kind = "cascade"
               result == SetPriority(c, k.name, k.rank, cascade)
    <2>5. /\ result \in Configs /\ Consistent(result)
          /\ Distinct(c) /\ ~Wraps(c, k.name, k.rank, cascade) => Distinct(result)
      BY <2>1, <2>3, SetPriorityKeeps
    <2> HIDE DEF cascade
    <2> QED
      BY <2>2, <2>4, <2>5 DEF cascade
  <1>5. CASE k.kind = "rename"
    <2>1. Official \in c.sources /\ Examples \notin c.sources
      BY <1>5 DEF Refused
    <2>2. /\ Result(c, k) \in Configs
          /\ Result(c, k).sources = (c.sources \ {Official}) \cup {Examples}
          /\ \A m \in Names : Result(c, k).rank[m] =
               IF m = Examples THEN ExamplesRank
               ELSE IF m = Official THEN Unranked ELSE c.rank[m]
      BY <1>5 DEF Result, RenameOfficial, Configs
    <2>3. Crowding(c, k) = {} => Holders(c, Examples, ExamplesRank) \subseteq {Official}
      BY <1>5 DEF Crowding
    <2>4. Consistent(Result(c, k))
      <3> SUFFICES ASSUME NEW m \in Names \ Result(c, k).sources PROVE Result(c, k).rank[m] = Unranked
        BY DEF Consistent
      <3>1. m # Examples /\ (m = Official \/ m \notin c.sources)
        BY <2>2
      <3> QED
        BY <2>2, <3>1 DEF Consistent
    <2>5. ASSUME Distinct(c), Holders(c, Examples, ExamplesRank) \subseteq {Official} PROVE Distinct(Result(c, k))
      BY <2>2, <2>5 DEF Distinct, Holders
    <2> QED
      BY <2>2, <2>3, <2>4, <2>5
  <1>6. CASE k.kind = "list"
    BY <1>6 DEF Refused
  <1> QED
    BY <1>0, <1>1, <1>2, <1>3, <1>4, <1>5, <1>6

----------------------------------------------------------------------------
\* The invariant: what a process holds is as sound as what the file holds, since
\* either may become the other.

Spread(m) == m \cap {"default", "renamed", "wrapped"} = {}

Sound(c, m) == c \in Configs /\ Consistent(c) /\ (Spread(m) => Distinct(c))

Steps == {"idle", "load", "migrate", "rewrite", "loaded", "save", "write"}

RankedFiles ==
  /\ Sound(file, mishaps)
  /\ cfg \in [Procs -> Configs] /\ \A p \in Procs : Sound(cfg[p], mishaps)
  /\ pc \in [Procs -> Steps] /\ cmd \in [Procs -> Commands \cup {None}]
  /\ \A p \in Procs : pc[p] # "idle" => cmd[p] \in Commands

LEMMA EmptySound == \A m : Sound(Empty, m)
  BY DEF Empty, Sound, Configs, Consistent, Distinct

LEMMA InitRanked == Init => RankedFiles
  <1> SUFFICES ASSUME Init PROVE RankedFiles
    OBVIOUS
  <1>1. Sound(file, mishaps)
    BY DEF Init, Sound, Consistent
  <1>2. Empty \in Configs /\ \A p \in Procs : Sound(cfg[p], mishaps)
    BY EmptySound DEF Init, Sound
  <1> QED
    BY <1>1, <1>2 DEF Init, RankedFiles, Steps

\* What was sound stays sound: mishaps only add up.
LEMMA StillSound ==
  ASSUME NEW c, NEW m, NEW n, Sound(c, m), m \subseteq n PROVE Sound(c, n)
  BY DEF Sound, Spread

LEMMA SavedSound ==
  ASSUME NEW c, NEW m, Sound(c, m) PROVE Sound(Saved(c), m)
  BY SavedKeeps DEF Sound, Consistent, Distinct

LEMMA RankedInductive == RankedFiles /\ [Next]_vars => RankedFiles'
  <1> SUFFICES ASSUME RankedFiles, [Next]_vars PROVE RankedFiles'
    OBVIOUS
  \* Actions that leave the file and what was loaded.
  <1>1. ASSUME mishaps \subseteq mishaps', UNCHANGED <<file, cfg>>
        PROVE  Sound(file', mishaps') /\ \A p \in Procs : Sound(cfg'[p], mishaps')
    BY <1>1, StillSound DEF RankedFiles
  <1>2. ASSUME NEW p \in Procs, Begin(p) PROVE RankedFiles'
    <2>1. PICK k \in Commands : cmd' = [cmd EXCEPT ![p] = k]
      BY <1>2 DEF Begin
    <2>2. /\ pc' = [pc EXCEPT ![p] = "load"] /\ mishaps \subseteq mishaps' /\ UNCHANGED <<file, cfg>>
      BY <1>2 DEF Begin
    <2> QED
      BY <1>1, <2>1, <2>2 DEF RankedFiles, Steps
  <1>3. ASSUME NEW p \in Procs, Load(p) PROVE RankedFiles'
    <2>1. /\ cfg' = [cfg EXCEPT ![p] = Migrated(file)] /\ mishaps \subseteq mishaps'
          /\ file' = file /\ cmd' = cmd /\ pc[p] = "load"
          /\ \E s \in {"loaded", "migrate"} : pc' = [pc EXCEPT ![p] = s]
      BY <1>3 DEF Load
    <2>2. file \in Configs /\ Consistent(file)
      BY DEF RankedFiles, Sound
    <2>3. Sound(Migrated(file), mishaps')
      <3>1. CASE /\ file.default \in file.sources /\ file.rank[file.default] = Unranked
                 /\ Holders(file, file.default, 0) # {}
        <4>1. "default" \in mishaps'
          BY <1>3, <3>1 DEF Load
        <4> QED
          BY <2>2, <4>1, MigratedKeeps DEF Sound, Spread
      <3>2. CASE ~(/\ file.default \in file.sources /\ file.rank[file.default] = Unranked
                   /\ Holders(file, file.default, 0) # {})
        <4>1. Sound(file, mishaps')
          BY <2>1, StillSound DEF RankedFiles
        <4> QED
          BY <2>2, <3>2, <4>1, MigratedKeeps DEF Sound
      <3> QED
        BY <3>1, <3>2
    <2>4. Sound(file', mishaps') /\ \A q \in Procs \ {p} : Sound(cfg[q], mishaps')
      BY <2>1, StillSound DEF RankedFiles
    <2>5. cfg' \in [Procs -> Configs] /\ \A q \in Procs : Sound(cfg'[q], mishaps')
      BY <2>1, <2>3, <2>4 DEF RankedFiles, Sound
    <2> QED
      BY <2>1, <2>4, <2>5 DEF RankedFiles, Steps
  <1>4. ASSUME NEW p \in Procs, Decline(p) \/ Die(p) PROVE RankedFiles'
    <2>1. /\ pc' = [pc EXCEPT ![p] = "idle"] /\ cmd' = [cmd EXCEPT ![p] = None]
          /\ mishaps \subseteq mishaps' /\ UNCHANGED <<file, cfg>>
      BY <1>4 DEF Decline, Die, Leave
    <2> QED
      BY <1>1, <2>1 DEF RankedFiles, Steps
  <1>5. ASSUME NEW p \in Procs, Apply(p) PROVE RankedFiles'
    <2> DEFINE c == Result(cfg[p], cmd[p])
    <2>1. /\ cfg' = [cfg EXCEPT ![p] = c] /\ file' = file /\ cmd' = cmd
          /\ pc[p] = "loaded" /\ pc' = [pc EXCEPT ![p] = "save"]
          /\ mishaps' = mishaps \cup Crowding(cfg[p], cmd[p]) /\ ~Refused(cfg[p], cmd[p])
      BY <1>5 DEF Apply
    <2>2. /\ cfg[p] \in Configs /\ Consistent(cfg[p]) /\ cmd[p] \in Commands
          /\ Spread(mishaps) => Distinct(cfg[p])
      BY <2>1 DEF RankedFiles, Sound
    <2>3. Sound(c, mishaps')
      <3>1. Crowding(cfg[p], cmd[p]) \subseteq {"renamed", "wrapped"}
        BY DEF Crowding
      <3>2. Spread(mishaps') => Spread(mishaps) /\ Crowding(cfg[p], cmd[p]) = {}
        BY <2>1, <3>1 DEF Spread
      <3> QED
        BY <2>1, <2>2, <3>2, ResultKeeps DEF Sound
    <2>4. Sound(file', mishaps') /\ \A q \in Procs \ {p} : Sound(cfg[q], mishaps')
      BY <2>1, StillSound DEF RankedFiles
    <2>5. cfg' \in [Procs -> Configs] /\ \A q \in Procs : Sound(cfg'[q], mishaps')
      BY <2>1, <2>3, <2>4 DEF RankedFiles, Sound
    <2> QED
      BY <2>1, <2>4, <2>5 DEF RankedFiles, Steps
  <1>6. ASSUME NEW p \in Procs, Truncate(p) PROVE RankedFiles'
    <2>1. /\ file' = Empty /\ UNCHANGED <<cmd, cfg, mishaps>> /\ pc[p] # "idle"
          /\ \E s \in {"write", "rewrite"} : pc' = [pc EXCEPT ![p] = s]
      BY <1>6 DEF Truncate
    <2> QED
      BY <2>1, EmptySound DEF RankedFiles, Steps
  <1>7. ASSUME NEW p \in Procs, Rewrite(p) PROVE RankedFiles'
    <2>1. /\ file' = Saved(cfg[p]) /\ UNCHANGED <<cmd, cfg, mishaps>>
          /\ pc[p] = "rewrite" /\ pc' = [pc EXCEPT ![p] = "loaded"]
      BY <1>7 DEF Rewrite
    <2>2. Sound(file', mishaps')
      BY <2>1, SavedSound DEF RankedFiles
    <2> QED
      BY <2>1, <2>2 DEF RankedFiles, Steps
  <1>8. ASSUME NEW p \in Procs, Write(p) PROVE RankedFiles'
    <2>1. /\ file' = Saved(cfg[p]) /\ UNCHANGED <<cfg, mishaps>>
          /\ pc' = [pc EXCEPT ![p] = "idle"] /\ cmd' = [cmd EXCEPT ![p] = None]
      BY <1>8 DEF Write, Leave
    <2>2. Sound(file', mishaps')
      BY <2>1, SavedSound DEF RankedFiles
    <2> QED
      BY <2>1, <2>2 DEF RankedFiles, Steps
  <1>9. CASE UNCHANGED vars
    BY <1>9 DEF vars, RankedFiles
  <1> QED
    BY <1>2, <1>3, <1>4, <1>5, <1>6, <1>7, <1>8, <1>9 DEF Next

\* The file, and what any process holds of one, ranks only registries it has.
THEOREM FilesAreTyped == Spec => []TypeOK
  <1>1. RankedFiles => TypeOK
    BY DEF RankedFiles, Sound, Consistent, Steps, TypeOK
  <1> QED
    BY <1>1, InitRanked, RankedInductive, PTL DEF Spec

\* Whatever commands run, overlap and die half-way, no two registries of the file
\* share a rank, unless a migration or the last u32 has brought them together.
THEOREM RanksStayDistinct == Spec => []RanksDistinct
  <1>1. RankedFiles => RanksDistinct
    BY DEF RankedFiles, Sound, Spread, RanksDistinct
  <1> QED
    BY <1>1, InitRanked, RankedInductive, PTL DEF Spec

----------------------------------------------------------------------------
\* One command at a time

\* What the running command has loaded, and makes of it, is what it would have been
\* in a single step; there is at most one that runs.
Apart == mishaps \cap {"overlap", "torn"} = {}

InStep(p) ==
  /\ pc[p] \in {"migrate", "rewrite"} => cfg[p] = Migrated(intended)
  /\ pc[p] = "loaded" => cfg[p] = intended
  /\ pc[p] \in {"save", "write"} =>
       ~Refused(intended, cmd[p]) /\ cfg[p] = Result(intended, cmd[p])

Serial ==
  /\ intended \in Configs
  /\ Apart => /\ \A p, q \in Procs : Busy(p) /\ Busy(q) => p = q
              /\ \A p \in Procs : InStep(p)
              /\ (\A p \in Procs : pc[p] \notin {"write", "rewrite"}) => file = intended

\* A configuration without the old field is migrated, and saved, as it is.
LEMMA MigratedSaved ==
  ASSUME NEW c \in Configs
  PROVE  /\ Saved(c) \in Configs /\ Saved(c).default = None
         /\ Migrated(c).default = None
         /\ c.default = None => Saved(c) = c /\ Migrated(c) = c
  <1>1. Saved(c) \in Configs /\ Saved(c).default = None /\ (c.default = None => Saved(c) = c)
    BY DEF Saved, Configs
  <1>2. Migrated(c).default = None
    <2>1. CASE c.default \in c.sources /\ c.rank[c.default] = Unranked
      BY <2>1 DEF Migrated, Saved, Configs
    <2>2. CASE ~(c.default \in c.sources /\ c.rank[c.default] = Unranked)
      BY <1>1, <2>2 DEF Migrated
    <2> QED
      BY <2>1, <2>2
  <1>3. c.default = None => Migrated(c) = c
    BY <1>1 DEF Migrated, Configs
  <1> QED
    BY <1>1, <1>2, <1>3

LEMMA MigratedType == ASSUME NEW c \in Configs PROVE Migrated(c) \in Configs
  <1>1. CASE c.default \in c.sources /\ c.rank[c.default] = Unranked
    <2>1. [c EXCEPT !.rank[c.default] = 0] \in Configs
      BY <1>1 DEF Configs
    <2> QED
      BY <1>1, <2>1, SavedKeeps DEF Migrated
  <1>2. CASE ~(c.default \in c.sources /\ c.rank[c.default] = Unranked)
    BY <1>2, SavedKeeps DEF Migrated
  <1> QED
    BY <1>1, <1>2

\* A result is a configuration, whatever ranks it started from.
LEMMA ResultType ==
  ASSUME NEW c \in Configs, NEW k \in Commands, ~Refused(c, k)
  PROVE  Result(c, k) \in Configs
  <1>0. k.kind \in {"rank", "cascade", "add", "remove", "clear", "rename", "list"}
    BY DEF Commands
  <1>1. CASE k.kind = "add"
    <2>1. k.name \in Names
      BY <1>1 DEF Commands
    <2> QED
      BY <1>1, <2>1 DEF Result, AddTo, Configs
  <1>2. CASE k.kind = "remove"
    <2>1. k.name \in Names
      BY <1>2 DEF Commands
    <2> QED
      BY <1>2, <2>1 DEF Result, RemoveFrom, Configs
  <1>3. CASE k.kind = "clear"
    <2>1. k.name \in Names
      BY <1>3 DEF Commands
    <2> QED
      BY <1>3, <2>1 DEF Result, ClearIn, Configs
  <1>4. CASE k.kind \in {"rank", "cascade"}
    <2>1. k.name \in Names /\ k.rank \in Ranks
      BY <1>4 DEF Commands
    <2>2. Result(c, k) = SetPriority(c, k.name, k.rank, k.kind = "cascade")
      BY <1>4 DEF Result
    <2>3. \/ Result(c, k) = Cascade(c, k.name, k.rank)
          \/ Result(c, k) = Swap(c, k.name, k.rank)
      BY <2>2 DEF SetPriority
    <2>4. Cascade(c, k.name, k.rank) \in Configs
      BY <2>1, CascadeRanks
    <2>5. Swap(c, k.name, k.rank) \in Configs
      BY <2>1, SwapRanks
    <2> QED
      BY <2>3, <2>4, <2>5
  <1>5. CASE k.kind = "rename"
    BY <1>5 DEF Result, RenameOfficial, Configs
  <1>6. CASE k.kind = "list"
    BY <1>6 DEF Result
  <1> QED
    BY <1>0, <1>1, <1>2, <1>3, <1>4, <1>5, <1>6

LEMMA InitSerial == Init => Serial
  <1> SUFFICES ASSUME Init PROVE Serial
    OBVIOUS
  <1> QED
    BY DEF Init, Serial, InStep, Busy

\* A step of p alone: the others are idle, before and after it.
LEMMA OthersIdle ==
  ASSUME RankedFiles, Serial, Apart, NEW p \in Procs, Busy(p), NEW s,
         pc' = [pc EXCEPT ![p] = s]
  PROVE  \A q \in Procs \ {p} : pc[q] = "idle" /\ pc'[q] = "idle"
  BY DEF RankedFiles, Serial, Busy

LEMMA SerialInductive == RankedFiles /\ Serial /\ [Next]_vars => Serial'
  <1> SUFFICES ASSUME RankedFiles, Serial, [Next]_vars PROVE Serial'
    OBVIOUS
  <1>0. intended \in Configs /\ pc \in [Procs -> Steps] /\ cfg \in [Procs -> Configs]
        /\ cmd \in [Procs -> Commands \cup {None}] /\ file \in Configs
    BY DEF Serial, RankedFiles, Sound
  \* It is enough to follow the process that moves.
  <1>1. ASSUME NEW p \in Procs, NEW s \in Steps, Busy(p),
               pc' = [pc EXCEPT ![p] = s], intended' \in Configs, mishaps \subseteq mishaps',
               Apart' => /\ InStep(p)'
                         /\ s \notin {"write", "rewrite"} => file' = intended'
        PROVE  Serial'
    <2> SUFFICES ASSUME Apart'
                 PROVE  /\ \A q, r \in Procs : (Busy(q) /\ Busy(r))' => q = r
                        /\ \A q \in Procs : InStep(q)'
                        /\ (\A q \in Procs : pc'[q] \notin {"write", "rewrite"}) => file' = intended'
      BY <1>1 DEF Serial
    <2>1. Apart
      BY <1>1 DEF Apart
    <2>2. \A q \in Procs \ {p} : pc[q] = "idle" /\ pc'[q] = "idle"
      BY <1>1, <2>1, OthersIdle
    <2>3. pc'[p] = s
      BY <1>0, <1>1
    <2>4. \A q \in Procs \ {p} : InStep(q)'
      BY <2>2 DEF InStep
    <2>5. \A q, r \in Procs : (Busy(q) /\ Busy(r))' => q = r
      BY <2>2 DEF Busy
    <2> QED
      BY <1>1, <2>3, <2>4, <2>5
  <1>2. ASSUME NEW p \in Procs, Begin(p) PROVE Serial'
    <2>1. /\ UNCHANGED <<file, cfg, intended>> /\ pc[p] = "idle"
          /\ pc' = [pc EXCEPT ![p] = "load"]
          /\ mishaps' = IF \E q \in Procs : Busy(q) THEN mishaps \cup {"overlap"} ELSE mishaps
          /\ \A q \in Procs \ {p} : cmd'[q] = cmd[q]
      BY <1>0, <1>2 DEF Begin
    <2>2. ASSUME Apart'
          PROVE  /\ \A q, r \in Procs : (Busy(q) /\ Busy(r))' => q = r
                 /\ \A q \in Procs : InStep(q)'
                 /\ (\A q \in Procs : pc'[q] \notin {"write", "rewrite"}) => file' = intended'
      <3>1. \A q \in Procs : pc[q] = "idle"
        BY <2>1, <2>2 DEF Apart, Busy
      <3>2. Apart /\ file = intended
        BY <2>1, <2>2, <3>1 DEF Apart, Serial
      <3>3. \A q \in Procs : pc'[q] = IF q = p THEN "load" ELSE "idle"
        BY <1>0, <2>1, <3>1
      <3> QED
        BY <2>1, <3>2, <3>3 DEF Busy, InStep
    <2> QED
      BY <1>0, <2>1, <2>2 DEF Serial
  <1>3. ASSUME NEW p \in Procs, Load(p) PROVE Serial'
    <2>1. PICK s \in Steps : s = IF file.default = None THEN "loaded" ELSE "migrate"
      BY DEF Steps
    <2>2. /\ pc' = [pc EXCEPT ![p] = s] /\ pc[p] = "load" /\ cfg' = [cfg EXCEPT ![p] = Migrated(file)]
          /\ UNCHANGED <<file, cmd, intended>> /\ mishaps \subseteq mishaps'
      BY <1>3, <2>1 DEF Load
    <2>3. ASSUME Apart' PROVE InStep(p)' /\ file' = intended'
      <3>1. Apart /\ Busy(p)
        BY <2>2, <2>3 DEF Apart, Busy
      <3>2. \A q \in Procs : pc[q] \notin {"write", "rewrite"}
        BY <2>2, <3>1, OthersIdle
      <3>3. file = intended
        BY <3>1, <3>2 DEF Serial
      <3>4. cfg'[p] = Migrated(intended) /\ pc'[p] = s
        BY <1>0, <2>2, <3>3
      <3>5. s = "loaded" => cfg'[p] = intended
        BY <1>0, <2>1, <3>3, <3>4, MigratedSaved
      <3> QED
        BY <2>1, <2>2, <3>3, <3>4, <3>5 DEF InStep
    <2> QED
      BY <1>0, <1>1, <2>2, <2>3 DEF Busy
  <1>4. ASSUME NEW p \in Procs, Decline(p) \/ Die(p) PROVE Serial'
    <2>1. /\ Busy(p) /\ pc' = [pc EXCEPT ![p] = "idle"] /\ UNCHANGED <<file, cfg, intended>>
          /\ mishaps \subseteq mishaps'
          /\ pc[p] \in {"write", "rewrite"} => "torn" \in mishaps'
      BY <1>4 DEF Decline, Die, Leave, Busy
    <2>2. ASSUME Apart' PROVE InStep(p)' /\ file' = intended'
      <3>1. Apart /\ pc[p] \notin {"write", "rewrite"}
        BY <2>1, <2>2 DEF Apart
      <3>2. \A q \in Procs : pc[q] \notin {"write", "rewrite"}
        BY <2>1, <3>1, OthersIdle
      <3>3. file = intended /\ pc'[p] = "idle"
        BY <1>0, <2>1, <3>1, <3>2 DEF Serial
      <3> QED
        BY <2>1, <3>3 DEF InStep
    <2>3. "idle" \in Steps
      BY DEF Steps
    <2> QED
      BY <1>0, <1>1, <2>1, <2>2, <2>3
  <1>5. ASSUME NEW p \in Procs, Apply(p) PROVE Serial'
    <2>1. /\ pc[p] = "loaded" /\ pc' = [pc EXCEPT ![p] = "save"] /\ UNCHANGED <<file, cmd, intended>>
          /\ mishaps \subseteq mishaps' /\ ~Refused(cfg[p], cmd[p])
          /\ cfg' = [cfg EXCEPT ![p] = Result(cfg[p], cmd[p])]
      BY <1>5 DEF Apply
    <2>2. ASSUME Apart' PROVE InStep(p)' /\ file' = intended'
      <3>1. Apart /\ Busy(p)
        BY <2>1, <2>2 DEF Apart, Busy
      <3>2. \A q \in Procs : pc[q] \notin {"write", "rewrite"}
        BY <2>1, <3>1, OthersIdle
      <3>3. file = intended /\ cfg[p] = intended
        BY <2>1, <3>1, <3>2 DEF Serial, InStep
      <3>4. pc'[p] = "save" /\ cfg'[p] = Result(intended, cmd[p])
        BY <1>0, <2>1, <3>3
      <3> QED
        BY <2>1, <3>3, <3>4 DEF InStep
    <2>3. "save" \in Steps /\ Busy(p)
      BY <2>1 DEF Steps, Busy
    <2> QED
      BY <1>0, <1>1, <2>1, <2>2, <2>3
  <1>6. ASSUME NEW p \in Procs, Truncate(p) PROVE Serial'
    <2>1. PICK s \in Steps : s = IF pc[p] = "save" THEN "write" ELSE "rewrite"
      BY DEF Steps
    <2>2. /\ pc' = [pc EXCEPT ![p] = s] /\ pc[p] \in {"migrate", "save"}
          /\ UNCHANGED <<cmd, cfg, intended, mishaps>>
      BY <1>6, <2>1 DEF Truncate
    <2>3. ASSUME Apart' PROVE InStep(p)'
      <3>1. Apart /\ pc'[p] = s
        BY <1>0, <2>2, <2>3 DEF Apart
      <3> QED
        BY <2>1, <2>2, <3>1 DEF Serial, InStep
    <2> QED
      BY <1>0, <1>1, <2>1, <2>2, <2>3 DEF Busy
  <1>7. ASSUME NEW p \in Procs, Rewrite(p) PROVE Serial'
    <2>1. /\ pc[p] = "rewrite" /\ pc' = [pc EXCEPT ![p] = "loaded"] /\ UNCHANGED <<cmd, cfg, mishaps>>
          /\ file' = Saved(cfg[p]) /\ intended' = Migrated(intended)
      BY <1>7 DEF Rewrite
    <2>2. intended' \in Configs
      BY <1>0, <2>1, MigratedType
    <2>3. ASSUME Apart' PROVE InStep(p)' /\ file' = intended'
      <3>1. Apart
        BY <2>1, <2>3 DEF Apart
      <3>2. cfg[p] = Migrated(intended)
        BY <2>1, <3>1 DEF Serial, InStep
      <3>3. Saved(Migrated(intended)) = Migrated(intended)
        BY <1>0, MigratedType, MigratedSaved
      <3>4. pc'[p] = "loaded"
        BY <1>0, <2>1
      <3> QED
        BY <2>1, <3>2, <3>3, <3>4 DEF InStep
    <2>4. "loaded" \in Steps /\ Busy(p)
      BY <2>1 DEF Steps, Busy
    <2> QED
      BY <1>0, <1>1, <2>1, <2>2, <2>3, <2>4
  <1>8. ASSUME NEW p \in Procs, Write(p) PROVE Serial'
    <2>1. /\ pc[p] = "write" /\ pc' = [pc EXCEPT ![p] = "idle"] /\ UNCHANGED <<cfg, mishaps>>
          /\ file' = Saved(cfg[p])
          /\ intended' = IF Refused(intended, cmd[p]) THEN intended
                         ELSE Saved(Result(intended, cmd[p]))
      BY <1>8 DEF Write, Leave
    <2>2. cmd[p] \in Commands
      BY <2>1 DEF RankedFiles
    <2>3. intended' \in Configs
      BY <1>0, <2>1, <2>2, ResultType, MigratedSaved
    <2>4. ASSUME Apart' PROVE InStep(p)' /\ file' = intended'
      <3>1. Apart /\ pc'[p] = "idle"
        BY <1>0, <2>1, <2>4 DEF Apart
      <3>2. ~Refused(intended, cmd[p]) /\ cfg[p] = Result(intended, cmd[p])
        BY <2>1, <3>1 DEF Serial, InStep
      <3> QED
        BY <2>1, <3>1, <3>2 DEF InStep
    <2>5. "idle" \in Steps /\ Busy(p)
      BY <2>1 DEF Steps, Busy
    <2> QED
      BY <1>0, <1>1, <2>1, <2>3, <2>4, <2>5
  <1>9. CASE UNCHANGED vars
    BY <1>9 DEF vars, Serial, InStep, Apart, Busy
  <1> QED
    BY <1>2, <1>3, <1>4, <1>5, <1>6, <1>7, <1>8, <1>9 DEF Next

\* Commands one after the other, none killed while the file is truncated: the file is
\* what they make of it in turn, the migration of the old field included.
THEOREM NothingIsLost == Spec => []NothingLost
  <1>1. Serial => NothingLost
    BY DEF Serial, Apart, NothingLost
  <1> QED
    BY <1>1, InitRanked, RankedInductive, InitSerial, SerialInductive, PTL DEF Spec

----------------------------------------------------------------------------
\* What set-priority does to the search order

\* Making way keeps the order of all but the one that is ranked, and that one comes
\* ahead of whatever had its rank or a later one.
LEMMA CascadeOrder ==
  ASSUME NEW c \in Configs, NEW n \in Names, NEW r \in Ranks, Distinct(c),
         \A m \in Names : ~(MakesWay(c, n, r, m) /\ c.rank[m] = MaxRank)
  PROVE  LET d == Cascade(c, n, r)
         IN  /\ \A a, b \in Names \ {n} : Before(c, a, b) <=> Before(d, a, b)
             /\ \A b \in Names \ {n} : c.rank[b] \in Ranks /\ c.rank[b] >= r => Before(d, n, b)
  <1> DEFINE f == Cascade(c, n, r).rank
  <1>0. c.rank \in RankMaps
    BY DEF Configs, RankMaps
  <1>1. f[n] = r /\ \A m \in Names \ {n} :
          f[m] = IF MakesWay(c, n, r, m) THEN NextRank(c.rank[m]) ELSE c.rank[m]
    BY CascadeRanks, SMTT(30)
  <1>2. \A m \in Names \ {n} : f[m] =
          IF MakesWay(c, n, r, m) THEN c.rank[m] + 1 ELSE c.rank[m]
    BY <1>1 DEF NextRank
  <1>3. \A m \in Names \ {n} : c.rank[m] \in Ranks \cup {Unranked}
    BY <1>0 DEF RankMaps
  <1>4. \A m \in Names \ {n} : MakesWay(c, n, r, m) => c.rank[m] \in Ranks /\ r <= c.rank[m]
    BY <1>3 DEF MakesWay
  \* Who holds the rank asked for, or the rank after one who makes way, makes way.
  <1>5. ASSUME NEW m \in Names \ {n}, c.rank[m] = r PROVE MakesWay(c, n, r, m)
    BY <1>5, HolderMakesWay
  <1>6. ASSUME NEW a \in Names \ {n}, NEW b \in Names \ {n}, MakesWay(c, n, r, a),
               c.rank[b] = c.rank[a] + 1
        PROVE  MakesWay(c, n, r, b)
    BY <1>6, NextMakesWay
  <1>7. ASSUME NEW a \in Names \ {n}, NEW b \in Names \ {n},
               c.rank[a] \in Ranks, c.rank[b] \in Ranks, c.rank[a] < c.rank[b]
        PROVE  f[a] < f[b] /\ f[a] \in Nat /\ f[b] \in Nat
    <2>1. ~(MakesWay(c, n, r, a) /\ c.rank[b] = c.rank[a] + 1 /\ ~MakesWay(c, n, r, b))
      BY <1>6
    <2> QED
      BY <1>2, <1>7, <2>1
  <1>8. ASSUME NEW m \in Names \ {n} PROVE f[m] = Unranked <=> c.rank[m] = Unranked
    BY <1>2, <1>3, <1>4
  <1>9. ASSUME NEW a \in Names \ {n}, NEW b \in Names \ {n}
        PROVE  Before(c, a, b) <=> Before(Cascade(c, n, r), a, b)
    <2>1. CASE c.rank[a] \in Ranks /\ c.rank[b] \in Ranks
      <3>0. c.rank[a] # Unranked /\ c.rank[b] # Unranked /\ f[a] # Unranked /\ f[b] # Unranked
        BY <1>8, <2>1
      <3>1. CASE a = b
        BY <2>1, <3>0, <3>1, <1>2 DEF Before
      <3>2. CASE a # b
        <4>1. c.rank[a] < c.rank[b] \/ c.rank[b] < c.rank[a]
          BY <2>1, <3>0, <3>2 DEF Distinct
        <4>2. CASE c.rank[a] < c.rank[b]
          <5>1. f[a] < f[b] /\ f[a] \in Nat /\ f[b] \in Nat
            BY <1>7, <2>1, <4>2
          <5> QED
            BY <2>1, <3>0, <4>2, <5>1 DEF Before
        <4>3. CASE c.rank[b] < c.rank[a]
          <5>1. f[b] < f[a] /\ f[a] \in Nat /\ f[b] \in Nat
            BY <1>7, <2>1, <4>3
          <5> QED
            BY <2>1, <3>0, <4>3, <5>1 DEF Before
        <4> QED
          BY <4>1, <4>2, <4>3
      <3> QED
        BY <3>1, <3>2
    <2>2. CASE c.rank[a] = Unranked \/ c.rank[b] = Unranked
      <3>1. /\ f[a] = Unranked <=> c.rank[a] = Unranked
            /\ f[b] = Unranked <=> c.rank[b] = Unranked
        BY <1>8
      <3> QED
        BY <2>2, <3>1 DEF Before
    <2> QED
      BY <1>3, <2>1, <2>2
  <1>10. ASSUME NEW b \in Names \ {n}, c.rank[b] \in Ranks, c.rank[b] >= r
         PROVE  Before(Cascade(c, n, r), n, b)
    <2>1. r < f[b] /\ f[b] \in Nat
      BY <1>2, <1>5, <1>10
    <2> QED
      BY <1>1, <2>1 DEF Before
  <1> QED
    BY <1>9, <1>10

\* An exchange moves no third one, and who held the rank goes where n was.
LEMMA SwapOrder ==
  ASSUME NEW c \in Configs, NEW n \in Names, NEW r \in Ranks
  PROVE  LET d == Swap(c, n, r)
             third == Names \ ({n} \cup Holders(c, n, r))
         IN  /\ \A a, b \in third : Before(c, a, b) <=> Before(d, a, b)
             /\ \A b \in third : c.rank[b] \in Ranks /\ c.rank[b] >= r => Before(d, n, b)
  <1> DEFINE third == Names \ ({n} \cup Holders(c, n, r))
             f == Swap(c, n, r).rank
  <1>1. f[n] = r
    BY SwapRanks, ZenonT(30)
  <1>2. \A m \in third : f[m] = c.rank[m]
    BY SwapRanks DEF First
  <1>3. \A a, b \in third : Before(c, a, b) <=> Before(Swap(c, n, r), a, b)
    BY <1>2 DEF Before
  <1>4. ASSUME NEW b \in third, c.rank[b] \in Ranks, c.rank[b] >= r
        PROVE  Before(Swap(c, n, r), n, b)
    <2>1. c.rank[b] # r /\ f[b] = c.rank[b]
      BY <1>2 DEF Holders
    <2> QED
      BY <1>1, <1>4, <2>1 DEF Before
  <1> QED
    BY <1>3, <1>4

LEMMA ApplyOrder ==
  ASSUME RankedFiles, NEW p \in Procs, Apply(p), cmd[p].kind \in {"rank", "cascade"},
         Distinct(cfg[p]), "wrapped" \notin mishaps'
  PROVE  OrderKeptBy(p)
  <1> DEFINE c == cfg[p]
             n == cmd[p].name
             r == cmd[p].rank
             d == SetPriority(c, n, r, cmd[p].kind = "cascade")
  <1>1. c \in Configs /\ cmd[p] \in Commands /\ n \in Names /\ r \in Ranks
    <2>1. c \in Configs /\ cmd[p] \in Commands
      BY DEF RankedFiles, Sound, Apply
    <2> QED
      BY <2>1 DEF Commands
  <1>2. cfg'[p] = d
    BY <1>1 DEF Apply, Result, RankedFiles
  <1>3. ~Wraps(c, n, r, cmd[p].kind = "cascade")
    BY DEF Apply, Crowding
  <1>4. c.sources \subseteq Names /\ r # Unranked
    BY <1>1 DEF Configs
  <1>5. CASE cmd[p].kind = "cascade" \/ c.rank[n] = Unranked
    <2>1. d = Cascade(c, n, r)
      BY <1>5 DEF SetPriority
    <2>2. \A m \in Names : ~(MakesWay(c, n, r, m) /\ c.rank[m] = MaxRank)
      BY <1>3, <1>5 DEF Wraps
    <2> HIDE DEF c, n, r, d
    <2>3. d.rank[n] = r
      <3>1. c \in Configs /\ n \in Names /\ r \in Ranks
        BY <1>1
      <3>2. Cascade(c, n, r).rank[n] = r
        BY ONLY <3>1, CascadeRanks, SourcesAssumption
      <3> QED
        BY <2>1, <3>2
    <2>4. /\ \A a, b \in Names \ {n} : Before(c, a, b) <=> Before(d, a, b)
          /\ \A b \in Names \ {n} : c.rank[b] \in Ranks /\ c.rank[b] >= r => Before(d, n, b)
      BY <1>1, <2>1, <2>2, CascadeOrder DEF c
    <2> QED
      BY <1>2, <1>4, <2>3, <2>4 DEF OrderKeptBy, c, n, r
  <1>6. CASE ~(cmd[p].kind = "cascade" \/ c.rank[n] = Unranked)
    <2>1. d = Swap(c, n, r)
      BY <1>6 DEF SetPriority
    <2>2. Swapped(c, cmd[p]) = Holders(c, n, r)
      BY <1>6 DEF Swapped
    <2> HIDE DEF c, n, r, d
    <2>3. d.rank[n] = r
      <3>1. c \in Configs /\ n \in Names /\ r \in Ranks
        BY <1>1
      <3>2. Swap(c, n, r).rank[n] = r
        BY ONLY <3>1, SwapRanks, SourcesAssumption
      <3> QED
        BY <2>1, <3>2
    <2>4. /\ \A a, b \in Names \ ({n} \cup Holders(c, n, r)) : Before(c, a, b) <=> Before(d, a, b)
          /\ \A b \in Names \ ({n} \cup Holders(c, n, r)) :
               c.rank[b] \in Ranks /\ c.rank[b] >= r => Before(d, n, b)
      BY <1>1, <2>1, SwapOrder
    <2> QED
      BY <1>2, <1>4, <2>2, <2>3, <2>4 DEF OrderKeptBy, c, n, r
  <1> QED
    BY <1>5, <1>6

\* Of any command that runs anywhere, while others overwrite the file: set-priority gives
\* its registry the rank it is told, ahead of all that it displaces, and moves the others
\* only together (config.rs:416-454).
THEOREM SearchOrderKept == Spec => OrderKept
  <1>1. ASSUME RankedFiles, [Next]_vars PROVE [\A p \in Procs : OrderKeptBy(p)]_vars
    <2>1. ASSUME NEW p \in Procs, ~UNCHANGED vars PROVE OrderKeptBy(p)
      <3>1. CASE /\ pc[p] = "loaded" /\ pc'[p] = "save" /\ cmd[p].kind \in {"rank", "cascade"}
                 /\ Distinct(cfg[p]) /\ "wrapped" \notin mishaps'
        <4>1. Apply(p)
          BY <1>1, <2>1, <3>1 DEF Next, Begin, Load, Decline, Apply, Truncate, Rewrite, Write, Die,
                                 Leave, RankedFiles
        <4> QED
          BY <1>1, <3>1, <4>1, ApplyOrder
      <3>2. CASE ~(/\ pc[p] = "loaded" /\ pc'[p] = "save" /\ cmd[p].kind \in {"rank", "cascade"}
                   /\ Distinct(cfg[p]) /\ "wrapped" \notin mishaps')
        BY <3>2 DEF OrderKeptBy
      <3> QED
        BY <3>1, <3>2
    <2> QED
      BY <2>1
  <1> QED
    BY <1>1, InitRanked, RankedInductive, PTL DEF Spec, OrderKept

----------------------------------------------------------------------------
\* The loop of set-priority

TurnStates == [rank : RankMaps, next : Ranks, left : SUBSET Names]

Beginning(c, n, r) == [rank |-> c.rank, next |-> r, left |-> Others(c, n)]

FirstOf(c, S) == CHOOSE m \in S : \A k \in S \ {m} : Sooner(c, m, k)

\* After some turns: the entries behind have made way where Cascade says so, and
\* those ahead come later.  Every rank below the next one is held by an entry behind,
\* which holds the next one no more; or the last rank was shifted.
Going(c, n, r, s) ==
  LET behind == Others(c, n) \ s.left
  IN  /\ s.left \subseteq Others(c, n)
      /\ \A m \in behind, k \in s.left : Sooner(c, m, k)
      /\ \A m \in Names :
           s.rank[m] = IF m \in behind /\ MakesWay(c, n, r, m) THEN NextRank(c.rank[m]) ELSE c.rank[m]
      /\ \/ /\ r <= s.next
            /\ \A q \in r .. s.next - 1 : \E m \in behind : c.rank[m] = q
            /\ \A m \in behind : c.rank[m] # s.next
         \/ s.next = 0 /\ \E m \in behind : c.rank[m] = MaxRank

\* Ties included, there is a first.
LEMMA ThereIsAFirst ==
  ASSUME NEW c \in Configs, NEW n \in Names, NEW S \in SUBSET Others(c, n), S # {}
  PROVE  FirstOf(c, S) \in S /\ \A k \in S \ {FirstOf(c, S)} : Sooner(c, FirstOf(c, S), k)
  <1> DEFINE Q == {c.rank[m] : m \in S}
  <1>1. \A m \in S : m \in Nat /\ c.rank[m] \in Nat
    BY DEF Others, Configs
  <1>2. PICK q \in Q : \A p \in Q : q <= p
    <2>1. Q \in SUBSET Nat /\ Q # {}
      BY <1>1
    <2> HIDE DEF Q
    <2> QED
      BY <2>1, LeastNumber
  <1> DEFINE T == {m \in S : c.rank[m] = q}
  <1>3. PICK m \in T : \A k \in T : m <= k
    <2>1. T \in SUBSET Nat /\ T # {}
      BY <1>1, <1>2
    <2> HIDE DEF T
    <2> QED
      BY <2>1, LeastNumber
  <1>4. ASSUME NEW k \in S \ {m} PROVE Sooner(c, m, k)
    <2>1. c.rank[m] = q /\ q <= c.rank[k] /\ q \in Nat /\ c.rank[k] \in Nat /\ m \in Nat /\ k \in Nat
      BY <1>1, <1>2, <1>3
    <2>2. c.rank[k] = q => m <= k
      BY <1>3
    <2> QED
      BY <1>3, <2>1, <2>2 DEF Sooner
  <1>5. m \in S
    BY <1>3
  <1> QED
    BY <1>4, <1>5 DEF FirstOf

LEMMA TurnType ==
  ASSUME NEW c \in Configs, NEW s \in TurnStates
  PROVE  Turned(c, s) \in TurnStates
  <1> DEFINE m == CHOOSE m \in s.left : \A k \in s.left \ {m} : Sooner(c, m, k)
  <1> HIDE DEF m
  <1>1. s.next \in Ranks /\ s.rank \in RankMaps /\ s.left \subseteq Names
    BY DEF TurnStates
  <1>2. NextRank(s.next) \in Ranks
    BY <1>1, NextRankType
  <1>3. [s.rank EXCEPT ![m] = NextRank(s.next)] \in RankMaps
    BY <1>1, <1>2 DEF RankMaps
  <1> QED
    BY <1>1, <1>2, <1>3 DEF Turned, m, TurnStates

LEMMA ManyTurns ==
  ASSUME NEW a \in TurnStates, NEW step \in [TurnStates -> TurnStates]
  PROVE  \E g \in [Nat -> TurnStates] : g[0] = a /\ \A k \in Nat : g[k + 1] = step[g[k]]
  <1> HIDE SourcesAssumption, CommandsAssumption
  <1> QED
    BY Iterates

\* The states that the loop passes through.
LEMMA LoopStates ==
  ASSUME NEW c \in Configs, NEW n \in Names, NEW r \in Ranks
  PROVE  \E at \in [Nat -> TurnStates] :
           /\ at[0] = Beginning(c, n, r)
           /\ \A k \in Nat : at[k + 1] = Turned(c, at[k])
           /\ CascadeLoop(c, n, r) =
                [c EXCEPT !.rank = [at[Cardinality(Others(c, n))].rank EXCEPT ![n] = r]]
  <1> DEFINE a == Beginning(c, n, r)
             step == [s \in TurnStates |-> Turned(c, s)]
  <1>1. a \in TurnStates
    BY DEF Beginning, TurnStates, RankMaps, Others, Configs
  <1>2. step \in [TurnStates -> TurnStates]
    BY TurnType
  <1> HIDE DEF a, step
  <1>3. PICK g \in [Nat -> TurnStates] : g[0] = a /\ \A k \in Nat : g[k + 1] = step[g[k]]
    <2>1. \E g \in [Nat -> TurnStates] : g[0] = a /\ \A k \in Nat : g[k + 1] = step[g[k]]
      BY <1>1, <1>2, ManyTurns
    <2> QED
      BY <2>1
  <1> DEFINE at[k \in Nat] == IF k = 0 THEN [rank |-> c.rank, next |-> r, left |-> Others(c, n)]
                              ELSE Turned(c, at[k - 1])
  <1>4. CascadeLoop(c, n, r) =
          [c EXCEPT !.rank = [at[Cardinality(Others(c, n))].rank EXCEPT ![n] = r]]
    BY DEF CascadeLoop
  <1>5. at = [k \in Nat |-> IF k = 0 THEN a ELSE Turned(c, at[k - 1])]
    <2> DEFINE f == [k \in Nat |-> IF k = 0 THEN a ELSE Turned(c, g[k - 1])]
    <2>1. ASSUME NEW k \in Nat PROVE g[k] = f[k]
      <3>1. CASE k = 0
        BY <1>3, <3>1
      <3>2. CASE k # 0
        <4>1. k - 1 \in Nat /\ (k - 1) + 1 = k
          BY <3>2
        <4>2. g[(k - 1) + 1] = step[g[k - 1]] /\ g[k - 1] \in TurnStates
          BY <1>3, <4>1
        <4> QED
          BY <3>2, <4>1, <4>2 DEF step
      <3> QED
        BY <3>1, <3>2
    <2>2. g = f
      BY <2>1
    <2> QED
      BY <2>2 DEF a, Beginning
  <1> HIDE DEF at
  <1>6. at[0] = a /\ \A k \in Nat : at[k + 1] = Turned(c, at[k])
    BY <1>5
  <1>7. ASSUME NEW k \in Nat, at[k] = g[k] PROVE at[k + 1] = g[k + 1]
    BY <1>3, <1>6, <1>7 DEF step
  <1>8. \A k \in Nat : at[k] = g[k]
    BY <1>3, <1>6, <1>7, InLockstep
  <1>9. at \in [Nat -> TurnStates]
    BY <1>3, <1>5, <1>8
  <1> QED
    BY <1>4, <1>6, <1>9 DEF a

\* One turn.
LEMMA TurnGoesOn ==
  ASSUME NEW c \in Configs, NEW n \in Names, NEW r \in Ranks,
         NEW s \in TurnStates, Going(c, n, r, s), s.left # {}
  PROVE  /\ Going(c, n, r, Turned(c, s))
         /\ \E m \in s.left : Turned(c, s).left = s.left \ {m}
  <1> DEFINE m == FirstOf(c, s.left)
             shifts == s.rank[m] = s.next
             t == Turned(c, s)
             behind == Others(c, n) \ s.left
  <1>1. /\ s.left \subseteq Others(c, n)
        /\ \A b \in behind, k \in s.left : Sooner(c, b, k)
        /\ \A b \in Names :
             s.rank[b] = IF b \in behind /\ MakesWay(c, n, r, b) THEN NextRank(c.rank[b]) ELSE c.rank[b]
        /\ \/ /\ r <= s.next
              /\ \A q \in r .. s.next - 1 : \E b \in behind : c.rank[b] = q
              /\ \A b \in behind : c.rank[b] # s.next
           \/ s.next = 0 /\ \E b \in behind : c.rank[b] = MaxRank
    BY DEF Going
  <1>2. m \in s.left /\ \A k \in s.left \ {m} : Sooner(c, m, k)
    BY <1>1, ThereIsAFirst
  <1>3. /\ t.rank = IF shifts THEN [s.rank EXCEPT ![m] = NextRank(s.next)] ELSE s.rank
        /\ t.next = IF shifts THEN NextRank(s.next) ELSE s.next
        /\ t.left = s.left \ {m}
    BY DEF Turned, FirstOf
  <1> HIDE DEF m, t
  <1>4. \A b \in Others(c, n) : b \in Names /\ b # n /\ b \in Nat /\ c.rank[b] \in Ranks
    BY DEF Others, Configs
  <1>5. m \in Others(c, n) /\ m \notin behind /\ s.rank[m] = c.rank[m]
    BY <1>1, <1>2, <1>4
  <1>6. Others(c, n) \ t.left = behind \cup {m}
    BY <1>1, <1>2, <1>3
  <1>7. \A q \in Ranks : \A b : b \in Holders(c, n, q) <=> b \in Others(c, n) /\ c.rank[b] = q
    BY DEF Holders, Others, Configs
  <1>8. s.next \in Ranks /\ s.rank \in [Names -> Ranks \cup {Unranked}]
    BY DEF TurnStates, RankMaps
  <1>9. MakesWay(c, n, r, m) <=>
          /\ r <= c.rank[m]
          /\ \A q \in r .. c.rank[m] : Holders(c, n, q) # {}
          /\ \A k \in Holders(c, n, c.rank[m]) : m <= k
    BY <1>4, <1>5, <1>7 DEF MakesWay, First, Others
  <1>10. \A b \in behind : c.rank[b] <= c.rank[m] /\ (c.rank[b] = c.rank[m] => b < m)
    BY <1>1, <1>2, <1>4 DEF Sooner
  <1>11. \A k \in s.left \ {m} : c.rank[m] <= c.rank[k] /\ (c.rank[k] = c.rank[m] => m < k)
    BY <1>1, <1>2, <1>4 DEF Sooner
  <1>12. \A b \in Names : b # m => t.rank[b] = s.rank[b]
    BY <1>3, <1>8
  <1>13. t.rank[m] = IF shifts THEN NextRank(s.next) ELSE c.rank[m]
    BY <1>3, <1>4, <1>5, <1>8
  \* It is enough to look at the entry whose turn it is.
  <1> DEFINE Moved == t.rank[m] = IF MakesWay(c, n, r, m) THEN NextRank(c.rank[m]) ELSE c.rank[m]
             Upward == /\ r <= t.next
                       /\ \A q \in r .. t.next - 1 : \E b \in behind \cup {m} : c.rank[b] = q
                       /\ \A b \in behind \cup {m} : c.rank[b] # t.next
             Around == t.next = 0 /\ \E b \in behind \cup {m} : c.rank[b] = MaxRank
  <1>14. ASSUME Moved, Upward \/ Around PROVE Going(c, n, r, t)
    <2>1. t.left \subseteq Others(c, n)
      BY <1>1, <1>3
    <2>2. \A b \in behind \cup {m}, k \in t.left : Sooner(c, b, k)
      BY <1>1, <1>2, <1>3
    <2>3. \A b \in Names : t.rank[b] =
            IF b \in behind \cup {m} /\ MakesWay(c, n, r, b) THEN NextRank(c.rank[b]) ELSE c.rank[b]
      <3> SUFFICES ASSUME NEW b \in Names
                   PROVE  t.rank[b] = IF b \in behind \cup {m} /\ MakesWay(c, n, r, b)
                                      THEN NextRank(c.rank[b]) ELSE c.rank[b]
        OBVIOUS
      <3>1. CASE b = m
        BY <1>14, <3>1
      <3>2. CASE b # m
        <4>1. t.rank[b] = s.rank[b]
          BY <1>12, <3>2
        <4> QED
          BY <1>1, <3>2, <4>1
      <3> QED
        BY <3>1, <3>2
    <2> HIDE DEF behind
    <2> QED
      BY <1>6, <1>14, <2>1, <2>2, <2>3 DEF Going
  <1> HIDE DEF behind, Moved, Upward, Around
  <1>15. ASSUME s.next = 0 /\ \E b \in behind : c.rank[b] = MaxRank
         PROVE  Going(c, n, r, t)
    <2>1. PICK b \in behind : c.rank[b] = MaxRank
      BY <1>15
    <2>2. c.rank[m] = MaxRank /\ b < m /\ b \in Nat /\ m \in Nat
      BY <1>4, <1>5, <1>10, <2>1 DEF behind
    <2>3. ~MakesWay(c, n, r, m)
      <3>1. b \in Holders(c, n, c.rank[m])
        BY <1>4, <1>5, <1>7, <2>1, <2>2 DEF behind
      <3> QED
        BY <1>9, <2>2, <3>1
    <2>4. shifts => NextRank(s.next) = 0 /\ c.rank[m] = 0
      BY <1>5, <1>15, <2>2 DEF NextRank
    <2>5. t.rank[m] = c.rank[m] /\ t.next = 0
      BY <1>3, <1>13, <1>15, <2>4
    <2>6. Around
      BY <2>1, <2>5 DEF Around
    <2>7. Moved
      BY <2>3, <2>5 DEF Moved
    <2> QED
      BY <1>14, <2>6, <2>7
  <1>16. ASSUME /\ r <= s.next
                /\ \A q \in r .. s.next - 1 : \E b \in behind : c.rank[b] = q
                /\ \A b \in behind : c.rank[b] # s.next
         PROVE  Going(c, n, r, t)
    <2>1. CASE shifts
      <3>1. c.rank[m] = s.next
        BY <1>5, <2>1
      <3>2. MakesWay(c, n, r, m)
        <4>1. ASSUME NEW q \in r .. c.rank[m] PROVE Holders(c, n, q) # {}
          <5>1. q \in Ranks
            BY <1>4, <1>5, <4>1
          <5>2. \E b \in Others(c, n) : c.rank[b] = q
            BY <1>4, <1>5, <1>8, <1>16, <3>1, <4>1 DEF behind
          <5> QED
            BY <1>7, <5>1, <5>2
        <4>2. ASSUME NEW k \in Holders(c, n, c.rank[m]) PROVE m <= k
          <5>1. k \in Others(c, n) /\ c.rank[k] = c.rank[m]
            BY <1>4, <1>5, <1>7
          <5>2. k \notin behind
            BY <1>16, <3>1, <5>1
          <5> QED
            BY <1>4, <1>5, <1>11, <5>1, <5>2 DEF behind
        <4> QED
          BY <1>9, <1>16, <3>1, <4>1, <4>2
      <3>3. t.rank[m] = NextRank(c.rank[m]) /\ t.next = NextRank(s.next)
        BY <1>3, <1>13, <2>1, <3>1
      <3>4. Moved
        BY <3>2, <3>3 DEF Moved
      <3>5. CASE s.next = MaxRank
        <4>1. Around
          BY <3>1, <3>3, <3>5 DEF NextRank, Around
        <4> QED
          BY <1>14, <3>4, <4>1
      <3>6. CASE s.next # MaxRank
        <4>1. t.next = s.next + 1
          BY <3>3, <3>6 DEF NextRank
        <4>2. r <= t.next
          BY <1>8, <1>16, <4>1
        <4>3. ASSUME NEW q \in r .. t.next - 1 PROVE \E b \in behind \cup {m} : c.rank[b] = q
          <5>1. q = s.next \/ q \in r .. s.next - 1
            BY <1>8, <4>1
          <5> QED
            BY <1>16, <3>1, <5>1
        <4>4. ASSUME NEW b \in behind \cup {m} PROVE c.rank[b] # t.next
          BY <1>4, <1>5, <1>8, <1>10, <3>1, <4>1
        <4>5. Upward
          BY <4>2, <4>3, <4>4 DEF Upward
        <4> QED
          BY <1>14, <3>4, <4>5
      <3> QED
        BY <3>5, <3>6
    <2>2. CASE ~shifts
      <3>1. t.rank[m] = c.rank[m] /\ t.next = s.next /\ c.rank[m] # s.next
        BY <1>3, <1>5, <1>13, <2>2
      <3>2. ~MakesWay(c, n, r, m)
        <4> SUFFICES ASSUME MakesWay(c, n, r, m) PROVE FALSE
          OBVIOUS
        <4>1. CASE c.rank[m] < s.next
          <5>1. c.rank[m] \in r .. s.next - 1
            BY <1>4, <1>5, <1>8, <1>9, <4>1
          <5>2. PICK b \in behind : c.rank[b] = c.rank[m]
            BY <1>16, <5>1
          <5>3. b \in Holders(c, n, c.rank[m])
            BY <1>4, <1>5, <1>7, <5>2 DEF behind
          <5>4. m <= b /\ b < m /\ b \in Nat /\ m \in Nat
            BY <1>4, <1>5, <1>9, <1>10, <5>2, <5>3 DEF behind
          <5> QED
            BY <5>4
        <4>2. CASE s.next < c.rank[m]
          <5>1. s.next \in r .. c.rank[m]
            BY <1>4, <1>5, <1>8, <1>16, <4>2
          <5>2. PICK h \in Holders(c, n, s.next) : TRUE
            BY <1>9, <5>1
          <5>3. h \in Others(c, n) /\ c.rank[h] = s.next
            BY <1>7, <1>8, <5>2
          <5>4. h \in s.left \ {m}
            BY <1>16, <3>1, <5>3 DEF behind
          <5> QED
            BY <1>4, <1>5, <1>8, <1>11, <4>2, <5>3, <5>4
        <4> QED
          BY <1>4, <1>5, <1>8, <3>1, <4>1, <4>2
      <3>3. \A b \in behind \cup {m} : c.rank[b] # t.next
        BY <1>16, <3>1
      <3>4. Upward
        BY <1>16, <3>1, <3>3 DEF Upward
      <3>5. Moved
        BY <3>1, <3>2 DEF Moved
      <3> QED
        BY <1>14, <3>4, <3>5
    <2> QED
      BY <2>1, <2>2
  <1>17. Going(c, n, r, t)
    BY <1>1, <1>15, <1>16
  <1> QED
    BY <1>2, <1>3, <1>17 DEF t

\* The loop comes to what Cascade says.
LEMMA LoopIsCascade ==
  ASSUME NEW c \in Configs, NEW n \in Names, NEW r \in Ranks
  PROVE  CascadeLoop(c, n, r) = Cascade(c, n, r)
  <1> DEFINE N == Cardinality(Others(c, n))
  <1>1. PICK at \in [Nat -> TurnStates] :
          /\ at[0] = Beginning(c, n, r)
          /\ \A k \in Nat : at[k + 1] = Turned(c, at[k])
          /\ CascadeLoop(c, n, r) = [c EXCEPT !.rank = [at[N].rank EXCEPT ![n] = r]]
    BY LoopStates
  <1>2. IsFiniteSet(Others(c, n)) /\ N \in Nat
    <2>1. IsFiniteSet(Others(c, n))
      BY FS_Subset DEF Others
    <2> QED
      BY <2>1, FS_CardinalityType
  <1> HIDE DEF N
  <1> DEFINE S == {k \in Nat : k <= N => Going(c, n, r, at[k]) /\ Cardinality(at[k].left) = N - k}
  <1>3. 0 \in S
    <2>1. at[0].left = Others(c, n) /\ at[0].rank = c.rank /\ at[0].next = r
      BY <1>1 DEF Beginning
    <2>2. Going(c, n, r, at[0])
      BY <2>1 DEF Going
    <2>3. Cardinality(at[0].left) = N - 0
      BY <1>2, <2>1 DEF N
    <2> QED
      BY <2>2, <2>3
  <1>4. ASSUME NEW k \in 0 .. N - 1, k \in S PROVE k + 1 \in S
    <2>1. k \in Nat /\ k + 1 \in Nat /\ k < N /\ at[k] \in TurnStates
      BY <1>1, <1>2
    <2>2. Going(c, n, r, at[k]) /\ Cardinality(at[k].left) = N - k
      BY <1>2, <1>4, <2>1
    <2>3. IsFiniteSet(at[k].left)
      BY <1>2, <2>2, FS_Subset DEF Going
    <2>4. at[k].left # {}
      <3>1. Cardinality(at[k].left) # 0
        BY <1>2, <2>1, <2>2
      <3> QED
        BY <2>3, <3>1, FS_EmptySet
    <2>5. PICK m \in at[k].left : Turned(c, at[k]).left = at[k].left \ {m}
      BY <2>1, <2>2, <2>4, TurnGoesOn
    <2>6. Going(c, n, r, at[k + 1])
      BY <1>1, <2>1, <2>2, <2>4, TurnGoesOn
    <2>7. Cardinality(at[k + 1].left) = N - (k + 1)
      <3>1. Cardinality(at[k].left \ {m}) = Cardinality(at[k].left) - 1
        BY <2>3, FS_RemoveElement
      <3>2. at[k + 1].left = at[k].left \ {m}
        BY <1>1, <2>1, <2>5
      <3> QED
        BY <1>2, <2>1, <2>2, <3>1, <3>2
    <2> QED
      BY <2>1, <2>6, <2>7
  <1>5. N \in S
    <2> HIDE DEF S
    <2> QED
      BY <1>2, <1>3, <1>4, UpTo
  <1>6. Going(c, n, r, at[N]) /\ Cardinality(at[N].left) = 0 /\ at[N] \in TurnStates
    BY <1>1, <1>2, <1>5
  <1>7. at[N].left = {}
    <2>1. IsFiniteSet(at[N].left)
      BY <1>2, <1>6, FS_Subset DEF Going
    <2> QED
      BY <1>6, <2>1, FS_EmptySet
  <1>8. \A m \in Names : m # n => at[N].rank[m] =
          IF MakesWay(c, n, r, m) THEN NextRank(c.rank[m]) ELSE c.rank[m]
    <2>1. \A m \in Names : MakesWay(c, n, r, m) => m \in Others(c, n)
      BY DEF MakesWay, Others
    <2> QED
      BY <1>6, <1>7, <2>1 DEF Going
  <1>9. [at[N].rank EXCEPT ![n] = r] =
          [m \in Names |-> IF m = n THEN r
                           ELSE IF MakesWay(c, n, r, m) THEN NextRank(c.rank[m]) ELSE c.rank[m]]
    <2>1. at[N].rank \in [Names -> Ranks \cup {Unranked}]
      BY <1>6 DEF TurnStates, RankMaps
    <2> QED
      BY <1>8, <2>1
  <1> QED
    BY <1>1, <1>9 DEF Cascade

\* Whatever registries, ranks and ties there are, the loop of set_priority and the
\* closed form that the other theorems are about come to the same.
THEOREM CascadeIsWhatTheLoopDoes == Spec => []CascadeIsTheLoop
  <1>1. RankedFiles => CascadeIsTheLoop
    <2> SUFFICES ASSUME RankedFiles, NEW p \in Procs, pc[p] = "loaded", cmd[p].kind \in {"rank", "cascade"}
                 PROVE  Cascade(cfg[p], cmd[p].name, cmd[p].rank) = CascadeLoop(cfg[p], cmd[p].name, cmd[p].rank)
      BY DEF CascadeIsTheLoop
    <2>1. cfg[p] \in Configs /\ cmd[p].name \in Names /\ cmd[p].rank \in Ranks
      BY DEF RankedFiles, Sound, Steps, Commands
    <2> QED
      BY <2>1, LoopIsCascade
  <1> QED
    BY <1>1, InitRanked, RankedInductive, PTL DEF Spec

----------------------------------------------------------------------------
\* Setup: the files of one configuration directory

\* The names that setup gives, and where their registries are.
LEMMA Community ==
  /\ Powered \in Names /\ AltPowered \in Names /\ Examples \in Names
  /\ AltExamples \in Names /\ Official \in Names
  /\ PoweredRank \in Ranks /\ ExamplesRank \in Ranks /\ PoweredRank < ExamplesRank
  /\ Urls = {"powered", "examples", "other"} /\ Canonical = {"powered", "examples"}
  /\ None \notin Urls /\ None # "registered" /\ None # "declined" /\ Absent \notin Files
  BY SetupAssumption DEF Urls, Canonical

LEMMA FiveNames ==
  /\ Powered \notin {AltPowered, Examples, AltExamples, Official}
  /\ AltPowered \notin {Examples, AltExamples, Official}
  /\ Examples \notin {AltExamples, Official} /\ AltExamples # Official
  <1> DEFINE five == <<Powered, AltPowered, Examples, AltExamples, Official>>
  <1>1. \A i, j \in 1 .. 5 : i # j => five[i] # five[j]
    BY SetupAssumption
  <1>2. /\ five[1] # five[2] /\ five[1] # five[3] /\ five[1] # five[4] /\ five[1] # five[5]
        /\ five[2] # five[3] /\ five[2] # five[4] /\ five[2] # five[5]
        /\ five[3] # five[4] /\ five[3] # five[5] /\ five[4] # five[5]
    <2> HIDE DEF five
    <2> QED
      BY <1>1
  <1> QED
    BY <1>2

Disks == [conf : Configs, url : [Names -> Urls \cup {None}]]

\* A sources.toml as the commands leave it: a rank and a location is of a registry
\* that is there, and every registry has a location.
SoundDisk(d) ==
  /\ d \in Disks /\ d.conf.default = None /\ Consistent(d.conf)
  /\ \A n \in Names : d.url[n] # None <=> n \in d.conf.sources

LEMMA SoundDiskParts ==
  ASSUME NEW d, SoundDisk(d)
  PROVE  /\ d = [conf |-> d.conf, url |-> d.url] /\ d.conf \in Configs
         /\ d.url \in [Names -> Urls \cup {None}] /\ d.conf.default = None /\ Consistent(d.conf)
         /\ d.conf.sources \subseteq Names /\ d.conf.rank \in RankMaps
         /\ d.conf = [sources |-> d.conf.sources, rank |-> d.conf.rank, default |-> None]
         /\ \A n \in Names : d.url[n] # None <=> n \in d.conf.sources
  BY DEF SoundDisk, Disks, Configs, RankMaps

LEMMA SavedSame ==
  ASSUME NEW c \in Configs, c.default = None
  PROVE  Saved(c) = c
  BY DEF Saved, Configs

LEMMA RemoveFromParts ==
  ASSUME NEW c \in Configs, NEW n \in Names
  PROVE  /\ RemoveFrom(c, n) \in Configs /\ RemoveFrom(c, n).default = c.default
         /\ RemoveFrom(c, n).sources = c.sources \ {n}
         /\ \A m \in Names : RemoveFrom(c, n).rank[m] = IF m = n THEN Unranked ELSE c.rank[m]
  BY DEF RemoveFrom, Configs

LEMMA RenameOfficialParts ==
  ASSUME NEW c \in Configs
  PROVE  /\ RenameOfficial(c) \in Configs /\ RenameOfficial(c).default = c.default
         /\ RenameOfficial(c).sources = (c.sources \ {Official}) \cup {Examples}
         /\ \A m \in Names : RenameOfficial(c).rank[m] =
              IF m = Examples THEN ExamplesRank
              ELSE IF m = Official THEN Unranked ELSE c.rank[m]
  <1> DEFINE f == [[c.rank EXCEPT ![Official] = Unranked] EXCEPT ![Examples] = ExamplesRank]
             S == (c.sources \ {Official}) \cup {Examples}
  <1>1. /\ c = [sources |-> c.sources, rank |-> c.rank, default |-> c.default]
        /\ c.sources \in SUBSET Names /\ c.rank \in [Names -> Ranks \cup {Unranked}]
        /\ c.default \in Names \cup {None}
    BY DEF Configs
  <1>2. RenameOfficial(c) = [sources |-> S, rank |-> f, default |-> c.default]
    <2>1. PICK s, g, e : s = c.sources /\ g = c.rank /\ e = c.default
      OBVIOUS
    <2> DEFINE c1 == [c EXCEPT !.sources = (@ \ {Official}) \cup {Examples}]
               c2 == [c1 EXCEPT !.rank[Official] = Unranked]
               c3 == [c2 EXCEPT !.rank[Examples] = ExamplesRank]
               g2 == [g EXCEPT ![Official] = Unranked]
               g3 == [g2 EXCEPT ![Examples] = ExamplesRank]
    <2>2. c = [sources |-> s, rank |-> g, default |-> e] /\ S = (s \ {Official}) \cup {Examples}
      BY <1>1, <2>1
    <2> HIDE DEF S
    <2>3. c1 = [sources |-> S, rank |-> g, default |-> e]
      BY <2>2
    <2> HIDE DEF c1, g2
    <2>4. c2 = [sources |-> S, rank |-> g2, default |-> e]
      BY <2>3 DEF g2
    <2> HIDE DEF c2, g3
    <2>5. c3 = [sources |-> S, rank |-> g3, default |-> e]
      BY <2>4 DEF g3
    <2>6. g3 = f
      BY <2>1 DEF g2, g3
    <2> HIDE DEF f
    <2> QED
      BY <2>1, <2>5, <2>6 DEF RenameOfficial, c1, c2
  <1>3. S \in SUBSET Names
    BY <1>1
  <1>4. f \in [Names -> Ranks \cup {Unranked}]
    BY <1>1
  <1>5. \A m \in Names : f[m] = IF m = Examples THEN ExamplesRank
                                ELSE IF m = Official THEN Unranked ELSE c.rank[m]
    BY <1>1
  <1> HIDE DEF f, S
  <1>6. RenameOfficial(c) \in Configs
    BY <1>1, <1>2, <1>3, <1>4 DEF Configs
  <1> QED
    BY <1>2, <1>5, <1>6 DEF S

\* What setup leaves is in the present format: loading changes nothing.
LEMMA LoadedIsSame ==
  ASSUME NEW d, SoundDisk(d)
  PROVE  Migrated(d.conf) = d.conf /\ Loaded(d) = d
  <1>1. None \notin d.conf.sources
    BY SoundDiskParts
  <1>2. d.conf \in Configs /\ d.conf.default = None
    BY SoundDiskParts
  <1>3. Migrated(d.conf) = d.conf
    <2>1. Saved(d.conf) = d.conf
      BY <1>2, SavedSame
    <2> QED
      BY <1>1, <1>2, <2>1 DEF Migrated
  <1> QED
    BY <1>3, SoundDiskParts, ZenonT(30) DEF Loaded

LEMMA AddedDisk ==
  ASSUME NEW d, SoundDisk(d), NEW n \in Names, NEW u \in Urls, n \notin d.conf.sources
  PROVE  /\ SoundDisk(Added(d, n, u))
         /\ Added(d, n, u).conf.sources = d.conf.sources \cup {n}
         /\ Added(d, n, u).conf.rank = d.conf.rank
         /\ Added(d, n, u).url = [d.url EXCEPT ![n] = u]
  <1> DEFINE e == Added(d, n, u)
  <1>a. /\ d.conf \in Configs /\ d.url \in [Names -> Urls \cup {None}] /\ d.conf.default = None
        /\ Consistent(d.conf) /\ d.conf.sources \subseteq Names
        /\ \A m \in Names : d.url[m] # None <=> m \in d.conf.sources
    BY SoundDiskParts
  <1>b. Migrated(d.conf) = d.conf
    BY LoadedIsSame
  <1>1. e = [conf |-> AddTo(d.conf, n), url |-> [d.url EXCEPT ![n] = u]]
    BY <1>b DEF Added
  <1>2. /\ e.conf = AddTo(d.conf, n) /\ e.url = [d.url EXCEPT ![n] = u]
        /\ e = [conf |-> e.conf, url |-> e.url]
    BY <1>1
  <1>3. /\ e.conf.sources = d.conf.sources \cup {n} /\ e.conf.rank = d.conf.rank
        /\ e.conf.default = None /\ e.conf \in Configs
    BY <1>2, <1>a, Community DEF AddTo, Configs
  <1>4. Consistent(e.conf)
    BY <1>3, <1>a, Community DEF Consistent
  <1>5. e.url \in [Names -> Urls \cup {None}]
    BY <1>2, <1>a, Community
  <1>6. \A m \in Names : e.url[m] # None <=> m \in e.conf.sources
    BY <1>2, <1>3, <1>a, Community
  <1> HIDE DEF e
  <1>7. SoundDisk(e)
    BY <1>2, <1>3, <1>4, <1>5, <1>6 DEF SoundDisk, Disks
  <1> QED
    BY <1>2, <1>3, <1>7 DEF e

LEMMA RemovedDisk ==
  ASSUME NEW d, SoundDisk(d), NEW n \in d.conf.sources
  PROVE  /\ SoundDisk(Removed(d, n))
         /\ Removed(d, n).conf.sources = d.conf.sources \ {n}
         /\ \A m \in Names :
              Removed(d, n).conf.rank[m] = IF m = n THEN Unranked ELSE d.conf.rank[m]
         /\ Removed(d, n).url = [d.url EXCEPT ![n] = None]
  <1> DEFINE e == Removed(d, n)
  <1>a. /\ d.conf \in Configs /\ d.url \in [Names -> Urls \cup {None}] /\ d.conf.default = None
        /\ Consistent(d.conf) /\ d.conf.sources \subseteq Names
        /\ \A m \in Names : d.url[m] # None <=> m \in d.conf.sources
    BY SoundDiskParts
  <1>0. n \in Names
    BY <1>a, Community
  <1>1. e = [conf |-> RemoveFrom(d.conf, n), url |-> [d.url EXCEPT ![n] = None]]
    BY LoadedIsSame DEF Removed
  <1>2. /\ e.conf = RemoveFrom(d.conf, n) /\ e.url = [d.url EXCEPT ![n] = None]
        /\ e = [conf |-> e.conf, url |-> e.url]
    BY <1>1
  <1>3. /\ e.conf.sources = d.conf.sources \ {n}
        /\ \A m \in Names : e.conf.rank[m] = IF m = n THEN Unranked ELSE d.conf.rank[m]
        /\ e.conf.default = None /\ e.conf \in Configs
    <2> HIDE DEF e
    <2>1. PICK c \in Configs : c = d.conf
      BY <1>a
    <2>2. /\ RemoveFrom(c, n) \in Configs /\ RemoveFrom(c, n).default = c.default
          /\ RemoveFrom(c, n).sources = c.sources \ {n}
          /\ \A m \in Names : RemoveFrom(c, n).rank[m] = IF m = n THEN Unranked ELSE c.rank[m]
      BY <1>0, RemoveFromParts
    <2> QED
      BY <1>2, <1>a, <2>1, <2>2
  <1>4. Consistent(e.conf)
    BY <1>3, <1>a DEF Consistent
  <1>5. e.url \in [Names -> Urls \cup {None}]
    BY <1>2, <1>a, Community
  <1>6. \A m \in Names : e.url[m] # None <=> m \in e.conf.sources
    BY <1>0, <1>2, <1>3, <1>a, Community
  <1> HIDE DEF e
  <1>7. SoundDisk(e)
    BY <1>2, <1>3, <1>4, <1>5, <1>6 DEF SoundDisk, Disks
  <1> QED
    BY <1>2, <1>3, <1>7 DEF e

LEMMA RenamedDisk ==
  ASSUME NEW d, SoundDisk(d), Renames(d)
  PROVE  /\ SoundDisk(Renamed(d))
         /\ Renamed(d).conf.sources = (d.conf.sources \ {Official}) \cup {Examples}
         /\ \A m \in Names : Renamed(d).conf.rank[m] =
              IF m = Examples THEN ExamplesRank
              ELSE IF m = Official THEN Unranked ELSE d.conf.rank[m]
         /\ \A m \in Names : Renamed(d).url[m] =
              IF m = Examples THEN "examples" ELSE IF m = Official THEN None ELSE d.url[m]
  <1> DEFINE e == Renamed(d)
  <1>a. /\ d.conf \in Configs /\ d.url \in [Names -> Urls \cup {None}] /\ d.conf.default = None
        /\ Consistent(d.conf) /\ d.conf.sources \subseteq Names
        /\ \A m \in Names : d.url[m] # None <=> m \in d.conf.sources
    BY SoundDiskParts
  <1>1. e = [conf |-> RenameOfficial(d.conf),
             url |-> [d.url EXCEPT ![Official] = None, ![Examples] = d.url[Official]]]
    BY DEF Renamed
  <1>2. /\ e.conf = RenameOfficial(d.conf)
        /\ e.url = [d.url EXCEPT ![Official] = None, ![Examples] = d.url[Official]]
        /\ e = [conf |-> e.conf, url |-> e.url]
    BY <1>1
  <1>3. /\ e.conf.sources = (d.conf.sources \ {Official}) \cup {Examples}
        /\ \A m \in Names : e.conf.rank[m] =
              IF m = Examples THEN ExamplesRank
              ELSE IF m = Official THEN Unranked ELSE d.conf.rank[m]
        /\ e.conf.default = None /\ e.conf \in Configs
    BY <1>2, <1>a, RenameOfficialParts
  <1>4. Consistent(e.conf)
    BY <1>3, <1>a, Community DEF Consistent
  <1>5. e.url \in [Names -> Urls \cup {None}]
    BY <1>2, <1>a, Community
  <1>6. \A m \in Names : e.url[m] =
              IF m = Examples THEN "examples" ELSE IF m = Official THEN None ELSE d.url[m]
    BY <1>2, <1>a, Community DEF Renames
  <1>7. \A m \in Names : e.url[m] # None <=> m \in e.conf.sources
    <2>1. Official \in d.conf.sources /\ Examples \notin d.conf.sources /\ "examples" # None
      BY <1>a, Community DEF Renames, Urls
    <2> QED
      BY <1>3, <1>6, <2>1, <1>a, Community
  <1> HIDE DEF e
  <1>8. SoundDisk(e)
    BY <1>2, <1>3, <1>4, <1>5, <1>7 DEF SoundDisk, Disks
  <1> QED
    BY <1>3, <1>6, <1>8 DEF e

\* A registry without a rank is ranked by making way.
LEMMA RankedDisk ==
  ASSUME NEW d, SoundDisk(d), NEW n \in d.conf.sources, d.conf.rank[n] = Unranked, NEW r \in Ranks
  PROVE  /\ SoundDisk(Ranked(d, n, r))
         /\ Ranked(d, n, r).conf = Cascade(d.conf, n, r) /\ Ranked(d, n, r).url = d.url
         /\ Cascade(d.conf, n, r).sources = d.conf.sources
         /\ Distinct(d.conf) /\ ~Wraps(d.conf, n, r, FALSE) => Distinct(Cascade(d.conf, n, r))
  <1> DEFINE e == Ranked(d, n, r)
             c == d.conf
  <1>a. /\ d.conf \in Configs /\ d.url \in [Names -> Urls \cup {None}] /\ d.conf.default = None
        /\ Consistent(d.conf) /\ d.conf.sources \subseteq Names
        /\ \A m \in Names : d.url[m] # None <=> m \in d.conf.sources
    BY SoundDiskParts
  <1>0. n \in Names /\ c \in Configs /\ Consistent(c)
    BY <1>a, Community
  <1>1. SetPriority(c, n, r, FALSE) = Cascade(c, n, r)
    BY DEF SetPriority
  <1>2. e.conf = Cascade(c, n, r) /\ e.url = d.url /\ e = [conf |-> e.conf, url |-> e.url]
    <2>1. e = [d EXCEPT !.conf = Cascade(c, n, r)]
      BY <1>1, LoadedIsSame DEF Ranked
    <2>2. d = [conf |-> c, url |-> d.url]
      BY SoundDiskParts
    <2>3. e = [conf |-> Cascade(c, n, r), url |-> d.url]
      BY <2>1, <2>2
    <2> QED
      BY <2>3
  <1>3. /\ Cascade(c, n, r) \in Configs /\ Consistent(Cascade(c, n, r))
        /\ Distinct(c) /\ ~Wraps(c, n, r, FALSE) => Distinct(Cascade(c, n, r))
    <2> HIDE DEF c
    <2>1. n \in c.sources /\ FALSE \in BOOLEAN
      BY DEF c
    <2> QED
      BY <1>0, <1>1, <2>1, SetPriorityKeeps
  <1>4. Cascade(c, n, r).sources = c.sources
    <2> HIDE DEF c, e
    <2> QED
      BY <1>0, CascadeRanks
  <1>5. Cascade(c, n, r).default = None
    BY <1>0, <1>a, Community DEF Cascade
  <1>6. \A m \in Names : d.url[m] # None <=> m \in c.sources
    BY <1>a, Community
  <1>7. d.url \in [Names -> Urls \cup {None}]
    BY <1>a, Community
  <1> HIDE DEF e, c
  <1>8. SoundDisk(e)
    BY <1>2, <1>3, <1>4, <1>5, <1>6, <1>7 DEF SoundDisk, Disks
  <1> QED
    BY <1>2, <1>3, <1>4, <1>8 DEF e, c

----------------------------------------------------------------------------
\* Setup: the registries of the user's own

Own(g) == {n \in g.conf.sources : g.url[n] = "other"}

OwnStay(g, d) == \A n \in Own(g) : d.url[n] = "other"

\* Distinct ranks come with the order: without them making way may change it.
OrderStays(g, d) ==
  /\ Distinct(d.conf)
  /\ \A a, b \in Own(g) : Before(g.conf, a, b) <=> Before(d.conf, a, b)

\* Where the ranks of the user's registries are the same, so is their order.
LEMMA SameRanksSameOrder ==
  ASSUME NEW g, NEW d, NEW e, \A n \in Own(g) : e.conf.rank[n] = d.conf.rank[n],
         OrderStays(g, d), Distinct(e.conf)
  PROVE  OrderStays(g, e)
  BY DEF OrderStays, Before

LEMMA OwnAreThere ==
  ASSUME NEW g, SoundDisk(g), NEW d, SoundDisk(d), OwnStay(g, d)
  PROVE  Own(g) \subseteq Names /\ Own(g) \subseteq d.conf.sources
  <1>1. Own(g) \subseteq Names
    BY SoundDiskParts DEF Own
  <1>2. "other" # None
    BY Community
  <1> QED
    BY <1>1, <1>2, SoundDiskParts DEF OwnStay

LEMMA AddingKeeps ==
  ASSUME NEW g, SoundDisk(g), NEW d, SoundDisk(d), OwnStay(g, d),
         NEW n \in Names, NEW u \in Urls, n \notin d.conf.sources
  PROVE  /\ OwnStay(g, Added(d, n, u))
         /\ OrderStays(g, d) => OrderStays(g, Added(d, n, u))
  <1>1. PICK e : e = Added(d, n, u)
    OBVIOUS
  <1>2. e.conf.rank = d.conf.rank /\ e.url = [d.url EXCEPT ![n] = u]
    BY <1>1, AddedDisk
  <1>3. n \notin Own(g) /\ Own(g) \subseteq Names
    BY OwnAreThere
  <1>4. OwnStay(g, e)
    BY <1>2, <1>3, SoundDiskParts DEF OwnStay
  <1>5. Distinct(d.conf) => Distinct(e.conf)
    BY <1>2 DEF Distinct
  <1>6. OrderStays(g, d) => OrderStays(g, e)
    BY <1>2, <1>5, SameRanksSameOrder DEF OrderStays
  <1> QED
    BY <1>1, <1>4, <1>6

LEMMA RemovingKeeps ==
  ASSUME NEW g, SoundDisk(g), NEW d, SoundDisk(d), OwnStay(g, d),
         NEW n \in d.conf.sources, d.url[n] # "other"
  PROVE  /\ OwnStay(g, Removed(d, n))
         /\ OrderStays(g, d) => OrderStays(g, Removed(d, n))
  <1>1. PICK e : e = Removed(d, n)
    OBVIOUS
  <1>2. /\ e.url = [d.url EXCEPT ![n] = None]
        /\ \A m \in Names : e.conf.rank[m] = IF m = n THEN Unranked ELSE d.conf.rank[m]
    BY <1>1, RemovedDisk, SMTT(30)
  <1>3. n \notin Own(g) /\ Own(g) \subseteq Names
    BY OwnAreThere DEF OwnStay
  <1>4. OwnStay(g, e)
    BY <1>2, <1>3, SoundDiskParts DEF OwnStay
  <1>5. Distinct(d.conf) => Distinct(e.conf)
    BY <1>2 DEF Distinct
  <1>6. OrderStays(g, d) => OrderStays(g, e)
    <2>1. \A m \in Own(g) : e.conf.rank[m] = d.conf.rank[m]
      BY <1>2, <1>3
    <2>2. OrderStays(g, d) => Distinct(d.conf)
      BY DEF OrderStays
    <2> QED
      BY <1>5, <2>1, <2>2, SameRanksSameOrder
  <1> QED
    BY <1>1, <1>4, <1>6

LEMMA RenamingKeeps ==
  ASSUME NEW g, SoundDisk(g), NEW d, SoundDisk(d), OwnStay(g, d), Renames(d)
  PROVE  /\ OwnStay(g, Renamed(d))
         /\ OrderStays(g, d) /\ ~RankTaken(d) => OrderStays(g, Renamed(d))
  <1>1. PICK e : e = Renamed(d)
    OBVIOUS
  <1>2. /\ \A m \in Names : e.conf.rank[m] =
             IF m = Examples THEN ExamplesRank
             ELSE IF m = Official THEN Unranked ELSE d.conf.rank[m]
        /\ \A m \in Names : e.url[m] =
             IF m = Examples THEN "examples" ELSE IF m = Official THEN None ELSE d.url[m]
    BY <1>1, RenamedDisk
  <1>3. Examples \notin Own(g) /\ Official \notin Own(g) /\ Own(g) \subseteq Names
    BY OwnAreThere DEF OwnStay, Renames
  <1>4. OwnStay(g, e)
    BY <1>2, <1>3 DEF OwnStay
  <1>5. ASSUME Distinct(d.conf), ~RankTaken(d) PROVE Distinct(e.conf)
    <2>1. \A m \in Names \ {Examples, Official} : d.conf.rank[m] # ExamplesRank
      BY <1>5 DEF RankTaken, Holders
    <2>2. Examples \in Names /\ Official \in Names
      BY Community
    <2> QED
      BY <1>2, <1>5, <2>1, <2>2 DEF Distinct
  <1>6. OrderStays(g, d) /\ ~RankTaken(d) => OrderStays(g, e)
    <2>1. \A m \in Own(g) : e.conf.rank[m] = d.conf.rank[m]
      BY <1>2, <1>3
    <2>2. OrderStays(g, d) => Distinct(d.conf)
      BY DEF OrderStays
    <2> QED
      BY <1>5, <2>1, <2>2, SameRanksSameOrder
  <1> QED
    BY <1>1, <1>4, <1>6

LEMMA RankingKeeps ==
  ASSUME NEW g, SoundDisk(g), NEW d, SoundDisk(d), OwnStay(g, d),
         NEW n \in d.conf.sources, d.url[n] # "other", d.conf.rank[n] = Unranked, NEW r \in Ranks
  PROVE  /\ OwnStay(g, Ranked(d, n, r))
         /\ OrderStays(g, d) /\ ~Wraps(d.conf, n, r, FALSE) => OrderStays(g, Ranked(d, n, r))
  <1>1. PICK e : e = Ranked(d, n, r)
    OBVIOUS
  <1>2. PICK c : c = d.conf
    OBVIOUS
  <1>3. /\ e.url = d.url /\ e.conf = Cascade(c, n, r)
        /\ Distinct(c) /\ ~Wraps(c, n, r, FALSE) => Distinct(Cascade(c, n, r))
    BY <1>1, <1>2, RankedDisk
  <1>4. n \notin Own(g) /\ Own(g) \subseteq Names /\ n \in Names /\ c \in Configs
    BY <1>2, OwnAreThere, SoundDiskParts DEF OwnStay
  <1>5. OwnStay(g, e)
    BY <1>3 DEF OwnStay
  <1>6. ASSUME Distinct(c), ~Wraps(c, n, r, FALSE)
        PROVE  \A a, b \in Names \ {n} : Before(c, a, b) <=> Before(Cascade(c, n, r), a, b)
    <2>1. \A m \in Names : ~(MakesWay(c, n, r, m) /\ c.rank[m] = MaxRank)
      BY <1>2, <1>6 DEF Wraps
    <2> QED
      BY <1>4, <1>6, <2>1, CascadeOrder
  <1>7. OrderStays(g, d) /\ ~Wraps(c, n, r, FALSE) => OrderStays(g, e)
    BY <1>2, <1>3, <1>4, <1>6 DEF OrderStays
  <1> QED
    BY <1>1, <1>2, <1>5, <1>7

----------------------------------------------------------------------------
\* Setup: what a success report means, and what stays

Todos == {<<>>, <<PoweredEntry>>, <<ExamplesEntry>>, <<PoweredEntry, ExamplesEntry>>}

\* The entries that are still to come, and their URLs.
Ahead(list) ==
  (IF list \in {<<PoweredEntry>>, <<PoweredEntry, ExamplesEntry>>} THEN {PoweredEntry} ELSE {})
    \cup (IF list \in {<<ExamplesEntry>>, <<PoweredEntry, ExamplesEntry>>}
          THEN {ExamplesEntry} ELSE {})

Due(list) == {e.url : e \in Ahead(list)}

Stages ==
  {"idle", "load", "remove", "detect", "add", "rank", "policy", "edit", "truncate", "write"}

\* The name under which the next entry is installed.
NextName == Target(snapshot, Head(todo))

Placed ==
  /\ SoundDisk(given) /\ SoundDisk(disk)
  /\ stage \in Stages /\ (stage # "idle" => task \in Tasks)
  /\ crowded \in BOOLEAN

UserKept == OwnStay(given, disk) /\ (crowded \/ OrderStays(given, disk))

Installing ==
  /\ stage = "detect" => snapshot = disk
  /\ stage \in {"add", "rank"} =>
       /\ todo \in Todos /\ ~Renames(disk)
       /\ \A u \in Canonical \ Due(todo) : Has(disk, u)
  /\ stage = "rank" =>
       /\ todo # <<>> /\ disk.url[NextName] = Head(todo).url
       /\ NextName \in disk.conf.sources /\ disk.conf.rank[NextName] = Unranked

Reported ==
  outcome = "registered" =>
    stage \in {"idle", "policy", "truncate", "write"} /\ \A u \in Canonical : Has(disk, u)

SetupInv == Placed /\ UserKept /\ Installing /\ Reported

LEMMA EntryParts ==
  /\ PoweredEntry.url = "powered" /\ ExamplesEntry.url = "examples"
  /\ PoweredEntry # ExamplesEntry
  /\ \A e \in {PoweredEntry, ExamplesEntry} :
       /\ e.url \in Canonical /\ e.rank \in Ranks
       /\ e.name \in Names \ {Official} /\ e.alt \in Names \ {Official}
  <1>1. /\ PoweredEntry.url = "powered" /\ ExamplesEntry.url = "examples"
        /\ PoweredEntry.rank = PoweredRank /\ ExamplesEntry.rank = ExamplesRank
        /\ PoweredEntry.name = Powered /\ PoweredEntry.alt = AltPowered
        /\ ExamplesEntry.name = Examples /\ ExamplesEntry.alt = AltExamples
    BY DEF PoweredEntry, ExamplesEntry
  <1>2. Official \notin {Powered, AltPowered, Examples, AltExamples}
    BY FiveNames
  <1> QED
    BY <1>1, <1>2, Community

LEMMA TodoParts ==
  ASSUME NEW list \in Todos, list # <<>>
  PROVE  /\ Head(list) \in {PoweredEntry, ExamplesEntry} /\ Tail(list) \in Todos
         /\ Ahead(list) = {Head(list)} \cup Ahead(Tail(list)) /\ Head(list) \notin Ahead(Tail(list))
         /\ Due(list) = {Head(list).url} \cup Due(Tail(list))
  <1> DEFINE P == PoweredEntry
             E == ExamplesEntry
  <1>0. PICK p, e : p = P /\ e = E
    OBVIOUS
  <1>1. p # e /\ p.url = "powered" /\ e.url = "examples"
    BY <1>0, EntryParts
  <1>2. CASE list = <<p>>
    BY <1>0, <1>1, <1>2 DEF Todos, Ahead, Due
  <1>3. CASE list = <<e>>
    BY <1>0, <1>1, <1>3 DEF Todos, Ahead, Due
  <1>4. CASE list = <<p, e>>
    <2>1. Head(list) = p /\ Tail(list) = <<e>>
      BY <1>4
    <2> QED
      BY <1>0, <1>1, <1>4, <2>1 DEF Todos, Ahead, Due
  <1> QED
    BY <1>0, <1>2, <1>3, <1>4 DEF Todos

LEMMA DueParts ==
  /\ Due(<<PoweredEntry>>) = {"powered"} /\ Due(<<ExamplesEntry>>) = {"examples"}
  /\ Due(<<PoweredEntry, ExamplesEntry>>) = {"powered", "examples"} /\ Due(<<>>) = {}
  <1>0. PICK p, e : p = PoweredEntry /\ e = ExamplesEntry
    OBVIOUS
  <1>1. p # e /\ p.url = "powered" /\ e.url = "examples"
    BY <1>0, EntryParts
  <1>2. Ahead(<<p>>) = {p} /\ Ahead(<<e>>) = {e} /\ Ahead(<<p, e>>) = {p, e} /\ Ahead(<<>>) = {}
    BY <1>0, <1>1 DEF Ahead
  <1> QED
    BY <1>0, <1>1, <1>2, ZenonT(30) DEF Due

LEMMA TwoInARow ==
  ASSUME NEW a, NEW b
  PROVE  <<a>> \o <<b>> = <<a, b>>
  <1>1. PICK x : x = <<a>> \o <<b>>
    OBVIOUS
  <1>2. <<a>> \in Seq({a, b}) /\ <<b>> \in Seq({a, b}) /\ <<a, b>> \in Seq({a, b})
    OBVIOUS
  <1>3. x \in Seq({a, b}) /\ Len(x) = 2 /\ x[1] = a /\ x[2] = b
    BY <1>1, <1>2, ConcatProperties
  <1>4. \A i \in 1 .. Len(x) : x[i] = <<a, b>>[i]
    BY <1>3
  <1> QED
    BY <1>1, <1>2, <1>3, <1>4, SeqEqual

LEMMA MissingParts ==
  ASSUME NEW d
  PROVE  /\ Missing(d) \in Todos
         /\ \A u \in Canonical \ Due(Missing(d)) : Has(d, u)
         /\ Missing(d) = <<>> <=> \A u \in Canonical : Has(d, u)
         /\ (\A u \in Canonical : ~Has(d, u)) => Missing(d) = <<PoweredEntry, ExamplesEntry>>
  <1>0. PICK p, e : p = PoweredEntry /\ e = ExamplesEntry
    OBVIOUS
  <1>1. Missing(d) = (IF Has(d, "powered") THEN <<>> ELSE <<p>>)
                       \o (IF Has(d, "examples") THEN <<>> ELSE <<e>>)
    BY <1>0 DEF Missing
  <1>2. CASE Has(d, "powered") /\ Has(d, "examples")
    <2>1. Missing(d) = <<>>
      BY <1>1, <1>2
    <2> QED
      BY <1>2, <2>1, Community DEF Todos
  <1>3. CASE Has(d, "powered") /\ ~Has(d, "examples")
    <2>1. Missing(d) = <<e>>
      BY <1>1, <1>3
    <2> QED
      BY <1>0, <1>3, <2>1, Community, DueParts DEF Todos
  <1>4. CASE ~Has(d, "powered") /\ Has(d, "examples")
    <2>1. Missing(d) = <<p>>
      BY <1>1, <1>4
    <2> QED
      BY <1>0, <1>4, <2>1, Community, DueParts DEF Todos
  <1>5. CASE ~Has(d, "powered") /\ ~Has(d, "examples")
    <2>0. Missing(d) = <<p>> \o <<e>>
      BY <1>1, <1>5
    <2>2. Missing(d) = <<p, e>>
      BY <2>0, TwoInARow
    <2> QED
      BY <1>0, <1>5, <2>2, Community, DueParts DEF Todos
  <1> QED
    BY <1>2, <1>3, <1>4, <1>5

\* What is there stays there, and `official` is not renamed again.
LEMMA HasAfterAdding ==
  ASSUME NEW d, SoundDisk(d), NEW n \in Names \ {Official}, NEW u \in Urls, n \notin d.conf.sources,
         NEW e, e = Added(d, n, u)
  PROVE  /\ n \in e.conf.sources /\ e.url[n] = u /\ e.conf.rank[n] = Unranked
         /\ \A v : Has(d, v) => Has(e, v)
         /\ ~Renames(d) => ~Renames(e)
  <1>1. /\ e.conf.sources = d.conf.sources \cup {n} /\ e.conf.rank = d.conf.rank
        /\ e.url = [d.url EXCEPT ![n] = u]
    BY AddedDisk
  <1>2. d.conf.sources \subseteq Names /\ d.url \in [Names -> Urls \cup {None}] /\ Consistent(d.conf)
    BY SoundDiskParts
  <1>3. Official \in Names
    BY Community
  <1>4. \A v : Has(d, v) => Has(e, v)
    BY <1>1, <1>2 DEF Has
  <1>5. ~Renames(d) => ~Renames(e)
    BY <1>1, <1>2, <1>3 DEF Renames
  <1> QED
    BY <1>1, <1>2, <1>4, <1>5 DEF Consistent

LEMMA HasAfterRenaming ==
  ASSUME NEW d, SoundDisk(d), Renames(d), NEW e, e = Renamed(d)
  PROVE  (\A v \in Canonical : Has(d, v) => Has(e, v)) /\ ~Renames(e)
  <1>1. /\ e.conf.sources = (d.conf.sources \ {Official}) \cup {Examples}
        /\ \A m \in Names : e.url[m] =
             IF m = Examples THEN "examples" ELSE IF m = Official THEN None ELSE d.url[m]
    BY RenamedDisk
  <1>2. d.conf.sources \subseteq Names /\ Examples \notin d.conf.sources /\ d.url[Official] = "examples"
    BY SoundDiskParts DEF Renames
  <1>3. Official \in Names /\ Examples \in Names /\ Official # Examples /\ None # "examples"
    BY Community, FiveNames
  <1>4. ~Renames(e)
    BY <1>1 DEF Renames
  <1>5. ASSUME NEW v, Has(d, v) PROVE Has(e, v)
    <2>1. PICK n \in d.conf.sources : d.url[n] = v
      BY <1>5 DEF Has
    <2>2. CASE n = Official
      BY <1>1, <1>2, <1>3, <2>1, <2>2 DEF Has
    <2>3. CASE n # Official
      BY <1>1, <1>2, <1>3, <2>1, <2>3 DEF Has
    <2> QED
      BY <2>2, <2>3
  <1> QED
    BY <1>4, <1>5

LEMMA HasAfterRanking ==
  ASSUME NEW d, SoundDisk(d), NEW n \in d.conf.sources, d.conf.rank[n] = Unranked, NEW r \in Ranks,
         NEW e, e = Ranked(d, n, r)
  PROVE  (\A v : Has(d, v) <=> Has(e, v)) /\ (Renames(d) <=> Renames(e))
  <1>0. Cascade(d.conf, n, r).sources = d.conf.sources /\ Ranked(d, n, r).url = d.url
        /\ Ranked(d, n, r).conf = Cascade(d.conf, n, r)
    BY RankedDisk
  <1>1. e.url = d.url /\ e.conf.sources = d.conf.sources
    BY <1>0
  <1> QED
    BY <1>1 DEF Has, Renames

\* Placed and kept, as far as the disk does not change.
LEMMA StillKept ==
  ASSUME SetupInv, UNCHANGED <<disk, given, crowded>>, stage' \in Stages,
         stage' # "idle" => task' \in Tasks
  PROVE  Placed' /\ UserKept'
  BY DEF SetupInv, Placed, UserKept

LEMMA SetupInvInit == SetupInit => SetupInv
  <1> SUFFICES ASSUME SetupInit PROVE SetupInv
    OBVIOUS
  <1>0. PICK S \in SUBSET Named :
          \E url \in [S -> Located], rank \in [S -> FirstRanks \cup {Unranked}] :
            disk = With(url, rank) /\ Distinct(disk.conf)
    BY DEF SetupInit
  <1>1. PICK url \in [S -> Located], rank \in [S -> FirstRanks \cup {Unranked}] :
          disk = With(url, rank) /\ Distinct(disk.conf)
    BY <1>0
  <1>2. S \subseteq Names /\ Located \subseteq Urls /\ FirstRanks \subseteq Ranks
    BY <1>1, SetupAssumption
  <1>3. /\ disk.conf.sources = S /\ disk.conf.default = None
        /\ disk.conf = [sources |-> S, default |-> None,
                        rank |-> [n \in Names |-> IF n \in S THEN rank[n] ELSE Unranked]]
        /\ disk.url = [n \in Names |-> IF n \in S THEN url[n] ELSE None]
        /\ disk = [conf |-> disk.conf, url |-> disk.url]
    BY <1>1 DEF With, Empty
  <1>4. disk.conf \in Configs /\ Consistent(disk.conf)
    BY <1>1, <1>2, <1>3 DEF Configs, Consistent
  <1>5. SoundDisk(disk)
    <2>1. disk.url \in [Names -> Urls \cup {None}]
      BY <1>1, <1>2, <1>3
    <2>2. \A n \in Names : disk.url[n] # None <=> n \in disk.conf.sources
      BY <1>1, <1>2, <1>3, Community
    <2> QED
      BY <1>3, <1>4, <2>1, <2>2 DEF SoundDisk, Disks
  <1>6. given = disk /\ stage = "idle" /\ crowded = FALSE /\ outcome = None
    BY DEF SetupInit
  <1>7. OwnStay(given, disk) /\ OrderStays(given, disk)
    BY <1>1, <1>6 DEF OwnStay, OrderStays, Own
  <1> QED
    BY <1>5, <1>6, <1>7, Community DEF SetupInv, Placed, UserKept, Installing, Reported, Stages

LEMMA SetupInvInductive == SetupInv /\ [SetupNext]_setupVars => SetupInv'
  <1> SUFFICES ASSUME SetupInv, [SetupNext]_setupVars PROVE SetupInv'
    OBVIOUS
  <1>0. /\ SoundDisk(given) /\ SoundDisk(disk) /\ OwnStay(given, disk) /\ crowded \in BOOLEAN
        /\ crowded \/ OrderStays(given, disk)
    BY DEF SetupInv, Placed, UserKept
  <1>1. CASE UNCHANGED setupVars
    BY <1>1 DEF SetupInv, Placed, UserKept, Installing, Reported, NextName, setupVars
  <1>2. CASE StartTask
    <2>1. stage' \in {"load", "policy", "edit"} /\ task' \in Tasks /\ outcome' = None
      BY <1>2 DEF StartTask
    <2>2. Placed' /\ UserKept'
      BY <1>2, <2>1, StillKept DEF StartTask, Stages
    <2> QED
      BY <2>1, <2>2, Community DEF SetupInv, Installing, Reported
  <1>3. CASE LoadRegistries
    <2>1. Loaded(disk) = disk
      BY <1>0, LoadedIsSame
    <2>2. disk' = disk /\ snapshot' = disk
      BY <1>3, <2>1 DEF LoadRegistries
    <2>3. stage' \in {"remove", "detect"} /\ stage = "load" /\ UNCHANGED <<task, given, outcome, crowded>>
      BY <1>3 DEF LoadRegistries, Goto
    <2>4. Placed' /\ UserKept'
      BY <2>2, <2>3, StillKept DEF Stages, SetupInv, Placed
    <2> QED
      BY <2>2, <2>3, <2>4 DEF SetupInv, Installing, Reported
  <1>4. CASE RemoveOne
    <2>1. PICK n \in Doomed(disk) : disk' = Removed(disk, n)
      BY <1>4 DEF RemoveOne
    <2>2. n \in disk.conf.sources /\ disk.url[n] # "other"
      BY Community DEF Doomed
    <2>3. SoundDisk(disk') /\ OwnStay(given, disk')
          /\ (OrderStays(given, disk) => OrderStays(given, disk'))
      BY <1>0, <2>1, <2>2, RemovedDisk, RemovingKeeps
    <2>4. /\ stage' \in {"remove", "detect"} /\ stage = "remove"
          /\ UNCHANGED <<task, given, outcome, crowded>>
          /\ stage' = "detect" => snapshot' = Loaded(disk')
      BY <1>4 DEF RemoveOne, Goto
    <2>5. stage' = "detect" => snapshot' = disk'
      BY <2>3, <2>4, LoadedIsSame
    <2>6. Placed' /\ UserKept'
      BY <1>0, <2>3, <2>4 DEF Placed, UserKept, SetupInv, Stages
    <2> QED
      BY <2>4, <2>5, <2>6 DEF SetupInv, Installing, Reported
  <1>5. CASE AlreadyConfigured
    <2>1. \A u \in Canonical : Has(disk, u)
      BY <1>5, MissingParts DEF AlreadyConfigured, SetupInv, Installing
    <2>2. stage' \in {"idle", "policy"} /\ stage = "detect" /\ UNCHANGED <<given, disk, crowded>>
          /\ (stage' = "policy" => task' = task)
      BY <1>5 DEF AlreadyConfigured, Proceed, Exit, Goto
    <2>3. Placed' /\ UserKept'
      BY <2>2, StillKept DEF Stages, SetupInv, Placed
    <2> QED
      BY <2>1, <2>2, <2>3 DEF SetupInv, Installing, Reported
  <1>6. CASE DeclineRegistries
    <2>1. stage' \in {"idle", "policy"} /\ stage = "detect" /\ UNCHANGED <<given, disk, crowded>>
          /\ (stage' = "policy" => task' = task) /\ outcome' = "declined"
      BY <1>6 DEF DeclineRegistries, Proceed, Exit, Goto
    <2>2. Placed' /\ UserKept'
      BY <2>1, StillKept DEF Stages, SetupInv, Placed
    <2> QED
      BY <2>1, <2>2 DEF SetupInv, Installing, Reported
  <1>7. CASE Consent
    <2>0. snapshot = disk /\ outcome # "registered" /\ stage = "detect"
      BY <1>7 DEF Consent, SetupInv, Installing, Reported
    <2>1. /\ stage' = "add" /\ todo' = Missing(disk) /\ UNCHANGED <<given, task, outcome>>
          /\ crowded' = (crowded \/ (Renames(disk) /\ RankTaken(disk)))
          /\ disk' = IF Renames(disk) THEN Renamed(disk) ELSE disk
      BY <1>7, <2>0 DEF Consent, Goto
    <2>2. \A u \in Canonical \ Due(todo') : Has(disk, u)
      BY <2>1, MissingParts
    <2>3. SoundDisk(disk') /\ OwnStay(given, disk') /\ ~Renames(disk')
      BY <1>0, <2>1, RenamedDisk, RenamingKeeps, HasAfterRenaming
    <2>4. crowded' \/ OrderStays(given, disk')
      BY <1>0, <2>1, RenamingKeeps
    <2>5. \A u \in Canonical \ Due(todo') : Has(disk', u)
      BY <1>0, <2>1, <2>2, HasAfterRenaming
    <2>6. todo' \in Todos
      BY <2>1, MissingParts
    <2>7. Placed' /\ UserKept'
      BY <1>0, <2>0, <2>1, <2>3, <2>4 DEF Placed, UserKept, SetupInv, Stages
    <2>8. Installing'
      BY <2>1, <2>3, <2>5, <2>6 DEF Installing
    <2> QED
      BY <2>0, <2>1, <2>7, <2>8 DEF SetupInv, Reported
  <1>8. CASE Install
    <2>0. PICK n : n = NextName
      OBVIOUS
    <2>1. /\ stage = "add" /\ todo # <<>> /\ stage' = "rank" /\ ~AddRefused(disk, n, Head(todo).url)
          /\ disk' = Added(disk, n, Head(todo).url)
          /\ UNCHANGED <<given, task, outcome, crowded, todo, snapshot>>
      BY <1>8, <2>0 DEF Install, Goto, NextName
    <2>2. todo \in Todos /\ ~Renames(disk) /\ (\A u \in Canonical \ Due(todo) : Has(disk, u))
      BY <2>1 DEF SetupInv, Installing
    <2>3. Head(todo) \in {PoweredEntry, ExamplesEntry}
      BY <2>1, <2>2, TodoParts
    <2>4. PICK u : u = Head(todo).url
      OBVIOUS
    <2>5. u \in Urls /\ u # "other" /\ n \in Names \ {Official}
      BY <2>0, <2>3, <2>4, EntryParts, Community DEF NextName, Target
    <2>6. n \notin disk.conf.sources
      BY <2>1 DEF AddRefused
    <2>7. SoundDisk(disk') /\ OwnStay(given, disk')
          /\ (OrderStays(given, disk) => OrderStays(given, disk'))
      BY <1>0, <2>1, <2>4, <2>5, <2>6, AddedDisk, AddingKeeps
    <2>8. /\ n \in disk'.conf.sources /\ disk'.url[n] = u /\ disk'.conf.rank[n] = Unranked
          /\ \A v : Has(disk, v) => Has(disk', v)
          /\ ~Renames(disk')
      <3>1. PICK e : e = disk'
        OBVIOUS
      <3>2. e = Added(disk, n, u)
        BY <2>1, <2>4, <3>1
      <3> QED
        BY <1>0, <2>2, <2>5, <2>6, <3>1, <3>2, HasAfterAdding
    <2>9. NextName' = n
      BY <2>0, <2>1 DEF NextName
    <2>10. Placed' /\ UserKept'
      BY <1>0, <2>1, <2>7 DEF Placed, UserKept, SetupInv, Stages
    <2>11. Installing'
      BY <2>1, <2>2, <2>4, <2>8, <2>9 DEF Installing
    <2> QED
      BY <2>1, <2>10, <2>11 DEF SetupInv, Reported
  <1>9. CASE RefuseInstall
    <2>1. stage' = "idle" /\ stage = "add" /\ UNCHANGED <<given, disk, crowded, outcome>>
      BY <1>9 DEF RefuseInstall, Exit
    <2>2. Placed' /\ UserKept'
      BY <2>1, StillKept DEF Stages
    <2> QED
      BY <2>1, <2>2 DEF SetupInv, Installing, Reported
  <1>10. CASE Rank
    <2>0. PICK n : n = NextName
      OBVIOUS
    <2>1. /\ stage = "rank" /\ stage' = "add" /\ disk' = Ranked(disk, n, Head(todo).rank)
          /\ crowded' = (crowded \/ Wraps(disk.conf, n, Head(todo).rank, FALSE))
          /\ todo' = Tail(todo)
          /\ UNCHANGED <<given, task, outcome, snapshot>>
      BY <1>10, <2>0 DEF Rank, Goto, NextName
    <2>2. /\ todo \in Todos /\ todo # <<>> /\ ~Renames(disk)
          /\ \A u \in Canonical \ Due(todo) : Has(disk, u)
          /\ disk.url[n] = Head(todo).url
          /\ n \in disk.conf.sources /\ disk.conf.rank[n] = Unranked
      BY <2>0, <2>1 DEF SetupInv, Installing
    <2>3. PICK entry1 \in {PoweredEntry, ExamplesEntry} : entry1 = Head(todo)
      BY <2>2, TodoParts
    <2>4. PICK r : r = Head(todo).rank
      OBVIOUS
    <2>5. r \in Ranks /\ disk.url[n] \in Canonical /\ disk.url[n] # "other"
      BY <2>2, <2>3, <2>4, EntryParts, Community
    <2>6. SoundDisk(disk') /\ OwnStay(given, disk')
          /\ (OrderStays(given, disk) /\ ~Wraps(disk.conf, n, r, FALSE) => OrderStays(given, disk'))
      BY <1>0, <2>1, <2>2, <2>4, <2>5, RankedDisk, RankingKeeps
    <2>7. (\A v : Has(disk, v) <=> Has(disk', v)) /\ ~Renames(disk')
      <3>1. PICK e : e = disk'
        OBVIOUS
      <3>2. e = Ranked(disk, n, r)
        BY <2>1, <2>4, <3>1
      <3> QED
        BY <1>0, <2>2, <2>5, <3>1, <3>2, HasAfterRanking
    <2>8. Has(disk, Head(todo).url)
      BY <2>2 DEF Has
    <2>9. /\ todo' \in Todos /\ Due(todo) = {Head(todo).url} \cup Due(todo')
      BY <2>1, <2>2, TodoParts
    <2>10. \A u \in Canonical \ Due(todo') : Has(disk', u)
      BY <2>2, <2>7, <2>8, <2>9
    <2>11. crowded' \/ OrderStays(given, disk')
      BY <1>0, <2>1, <2>4, <2>6
    <2>12. crowded' \in BOOLEAN
      BY <1>0, <2>1 DEF Wraps
    <2>13. Placed' /\ UserKept'
      BY <1>0, <2>1, <2>6, <2>11, <2>12 DEF Placed, UserKept, SetupInv, Stages
    <2>14. Installing'
      BY <2>1, <2>7, <2>9, <2>10 DEF Installing
    <2> QED
      BY <2>1, <2>13, <2>14 DEF SetupInv, Reported
  <1>11. CASE Installed
    <2>1. stage' \in {"idle", "policy"} /\ stage = "add" /\ UNCHANGED <<given, disk, crowded>>
          /\ (stage' = "policy" => task' = task) /\ todo = <<>>
      BY <1>11 DEF Installed, Proceed, Exit, Goto
    <2>2. Due(todo) = {}
      BY <2>1 DEF Due, Ahead
    <2>3. \A u \in Canonical : Has(disk, u)
      BY <2>1, <2>2 DEF SetupInv, Installing
    <2>4. Placed' /\ UserKept'
      BY <2>1, StillKept DEF Stages, SetupInv, Placed
    <2> QED
      BY <2>1, <2>3, <2>4 DEF SetupInv, Installing, Reported
  <1>12. CASE KeepPolicy \/ ChoosePreset \/ RefuseEdit \/ Edit \/ TruncatePolicy \/ WritePolicy \/ CutShort
    <2>1. /\ stage' \in {"idle", "truncate", "write"} /\ UNCHANGED <<given, disk, crowded, outcome>>
          /\ stage' # "idle" => task' = task /\ stage \in {"policy", "edit", "truncate"}
      BY <1>12 DEF KeepPolicy, ChoosePreset, RefuseEdit, Edit, TruncatePolicy, WritePolicy, CutShort,
                   Exit, Goto, registry
    <2>2. Placed' /\ UserKept'
      BY <2>1, StillKept DEF Stages, SetupInv, Placed
    <2> QED
      BY <2>1, <2>2 DEF SetupInv, Installing, Reported
  <1> QED
    BY <1>1, <1>2, <1>3, <1>4, <1>5, <1>6, <1>7, <1>8, <1>9, <1>10, <1>11, <1>12 DEF SetupNext

\* Whatever was removed, renamed or cut short before, a command that says the community
\* registries are there leaves both of them in sources.toml (registry_defaults).
THEOREM SuccessIsConfigured == SetupSpec => []Registered
  <1>1. SetupInv => Registered
    BY DEF SetupInv, Reported, Registered
  <1> QED
    BY <1>1, SetupInvInit, SetupInvInductive, PTL DEF SetupSpec

\* For any registries and any number of commands, wherever they stop, the user's own stay
\* where they are, under their names, and in their order until two registries share a rank.
THEOREM UserRegistriesStay == SetupSpec => []UserRegistriesKept
  <1>1. SetupInv => UserRegistriesKept
    BY DEF SetupInv, UserKept, UserRegistriesKept, OwnStay, OrderStays, Own
  <1> QED
    BY <1>1, SetupInvInit, SetupInvInductive, PTL DEF SetupSpec

----------------------------------------------------------------------------
\* Setup: an installation that is repeated

Entries == {PoweredEntry, ExamplesEntry}

\* The name that a forced installation gives to an entry, as what is not the community's
\* stays; and exactly these entries are there, these with their rank.
NameOf(d, e) == IF d.url[e.name] = "other" THEN e.alt ELSE e.name
NamesOf(d, S) == {NameOf(d, e) : e \in S}

LaidDown(d, S, T) ==
  /\ Doomed(d) = NamesOf(d, S) /\ \A e \in S : d.url[NameOf(d, e)] = e.url
  /\ \A e \in T : d.conf.rank[NameOf(d, e)] = e.rank

Forced == stage \in {"remove", "detect", "add", "rank"} /\ task.opts.force

\* A forced installation finds nothing of the community's, and then what it has installed.
Relaid ==
  /\ stage = "detect" /\ Forced => Doomed(disk) = {}
  /\ stage \in {"add", "rank"} /\ Forced =>
       /\ todo # <<PoweredEntry>>
       /\ \A n \in Names : n \in snapshot.conf.sources <=> disk.url[n] = "other"
  /\ stage = "add" /\ Forced => LaidDown(disk, Entries \ Ahead(todo), Entries \ Ahead(todo))
  /\ stage = "rank" /\ Forced => LaidDown(disk, Entries \ Ahead(Tail(todo)), Entries \ Ahead(todo))

\* d is e without the registries X and without the ranks of Y.
Lacks(d, e, X, Y) ==
  /\ d.conf.sources = e.conf.sources \ X
  /\ \A n \in Names : d.url[n] = IF n \in X THEN None ELSE e.url[n]
  /\ \A n \in Names : d.conf.rank[n] = IF n \in X \cup Y THEN Unranked ELSE e.conf.rank[n]

SoundlySettled(s) ==
  /\ SoundDisk(s.disk) /\ (\A u \in Canonical : Has(s.disk, u)) /\ ~Renames(s.disk)
  /\ s.force => LaidDown(s.disk, Entries, Entries)
  /\ crowded \/ Distinct(s.disk.conf)

\* A forced installation takes away what e has of the community's, and puts it back.
HalfWay(e) ==
  /\ stage = "remove" => \E X \in SUBSET Doomed(e) : Lacks(disk, e, X, {})
  /\ stage = "detect" => Lacks(disk, e, Doomed(e), {})
  /\ stage = "add" => Lacks(disk, e, NamesOf(e, Ahead(todo)), {})
  /\ stage = "rank" => Lacks(disk, e, NamesOf(e, Ahead(Tail(todo))), {NameOf(e, Head(todo))})

\* What an installation has left is there, but for a forced one that has not yet put all
\* of it back.
Stays(s) ==
  /\ stage \notin {"remove", "detect", "add", "rank"} => disk = s.disk
  /\ stage = "detect" /\ ~Forced => disk = s.disk
  /\ stage \in {"remove", "add", "rank"} => Forced
  /\ s.force /\ Forced /\ ~crowded => HalfWay(s.disk)

SettledStays == \A s \in settled : SoundlySettled(s) /\ Stays(s)

LEMMA TodoInOrder ==
  /\ Head(<<PoweredEntry, ExamplesEntry>>) = PoweredEntry
  /\ Tail(<<PoweredEntry, ExamplesEntry>>) = <<ExamplesEntry>>
  /\ Head(<<ExamplesEntry>>) = ExamplesEntry /\ Tail(<<ExamplesEntry>>) = <<>>
  /\ <<ExamplesEntry>> # <<PoweredEntry>> /\ <<PoweredEntry, ExamplesEntry>> # <<PoweredEntry>>
  /\ Ahead(<<PoweredEntry, ExamplesEntry>>) = Entries
  /\ Ahead(<<ExamplesEntry>>) = {ExamplesEntry} /\ Ahead(<<>>) = {}
  <1>0. PICK p, e : p = PoweredEntry /\ e = ExamplesEntry
    OBVIOUS
  <1>1. p # e
    BY <1>0, EntryParts
  <1>2. Ahead(<<e>>) = {e} /\ Ahead(<<p, e>>) = {p, e} /\ Ahead(<<>>) = {}
    BY <1>0, <1>1 DEF Ahead
  <1>3. /\ Head(<<p, e>>) = p /\ Tail(<<p, e>>) = <<e>>
        /\ Head(<<e>>) = e /\ Tail(<<e>>) = <<>> /\ <<e>> # <<p>> /\ <<p, e>> # <<p>>
    BY <1>1
  <1> QED
    BY <1>0, <1>2, <1>3 DEF Entries

\* What is still to come is everything, the last one, or nothing.
LEMMA ForcedTodo ==
  ASSUME NEW list \in Todos, list # <<PoweredEntry>>
  PROVE  list \in {<<PoweredEntry, ExamplesEntry>>, <<ExamplesEntry>>, <<>>}
  BY DEF Todos

LEMMA EntryNames ==
  ASSUME NEW d
  PROVE  /\ \A e \in Entries : NameOf(d, e) \in Names \ {Official}
         /\ NameOf(d, PoweredEntry) # NameOf(d, ExamplesEntry)
  <1>1. /\ PoweredEntry.name = Powered /\ PoweredEntry.alt = AltPowered
        /\ ExamplesEntry.name = Examples /\ ExamplesEntry.alt = AltExamples
    BY DEF PoweredEntry, ExamplesEntry
  <1> QED
    BY <1>1, Community, FiveNames DEF NameOf, Entries

LEMMA SameNames ==
  ASSUME NEW d, NEW f, \A n \in Names : d.url[n] = "other" <=> f.url[n] = "other"
  PROVE  /\ \A e \in Entries : NameOf(d, e) = NameOf(f, e)
         /\ \A S \in SUBSET Entries : NamesOf(d, S) = NamesOf(f, S)
  <1>1. \A e \in Entries : e.name \in Names
    BY EntryParts DEF Entries
  <1>2. \A e \in Entries : NameOf(d, e) = NameOf(f, e)
    BY <1>1 DEF NameOf
  <1> QED
    BY <1>2 DEF NamesOf

LEMMA LacksNothing ==
  ASSUME NEW d, SoundDisk(d), NEW e, SoundDisk(e), Lacks(d, e, {}, {})
  PROVE  d = e
  <1>1. d.url = e.url
    <2>1. d.url \in [Names -> Urls \cup {None}] /\ e.url \in [Names -> Urls \cup {None}]
      BY SoundDiskParts
    <2>2. \A n \in Names : d.url[n] = e.url[n]
      BY DEF Lacks
    <2>3. PICK f, g : f = d.url /\ g = e.url
      OBVIOUS
    <2>4. f = [n \in Names |-> f[n]] /\ g = [n \in Names |-> g[n]]
      BY <2>1, <2>3
    <2>5. [n \in Names |-> f[n]] = [n \in Names |-> g[n]]
      BY <2>2, <2>3
    <2> QED
      BY <2>3, <2>4, <2>5
  <1>2. d.conf.rank = e.conf.rank
    <2>1. d.conf.rank \in RankMaps /\ e.conf.rank \in RankMaps
      BY SoundDiskParts
    <2>2. \A n \in Names : d.conf.rank[n] = e.conf.rank[n]
      BY DEF Lacks
    <2>3. PICK f, g : f = d.conf.rank /\ g = e.conf.rank
      OBVIOUS
    <2>4. f = [n \in Names |-> f[n]] /\ g = [n \in Names |-> g[n]]
      BY <2>1, <2>3 DEF RankMaps
    <2>5. [n \in Names |-> f[n]] = [n \in Names |-> g[n]]
      BY <2>2, <2>3
    <2> QED
      BY <2>3, <2>4, <2>5
  <1>3. d.conf.sources = e.conf.sources
    BY DEF Lacks
  <1>4. /\ d.conf = [sources |-> d.conf.sources, rank |-> d.conf.rank, default |-> None]
        /\ e.conf = [sources |-> e.conf.sources, rank |-> e.conf.rank, default |-> None]
        /\ d = [conf |-> d.conf, url |-> d.url] /\ e = [conf |-> e.conf, url |-> e.url]
    BY SoundDiskParts
  <1>5. d.conf = e.conf
    BY <1>2, <1>3, <1>4
  <1> QED
    BY <1>1, <1>4, <1>5

\* Making way at a later rank, or at one that nobody holds, moves nobody.
LEMMA CascadeBelow ==
  ASSUME NEW c \in Configs, NEW n \in Names, NEW r \in Ranks, NEW m \in Names \ {n},
         c.rank[m] \in Ranks, c.rank[m] < r
  PROVE  Cascade(c, n, r).rank[m] = c.rank[m]
  <1>1. ~MakesWay(c, n, r, m)
    BY DEF MakesWay
  <1>2. \A k \in Names \ {n} : Cascade(c, n, r).rank[k] =
          IF MakesWay(c, n, r, k) THEN NextRank(c.rank[k]) ELSE c.rank[k]
    BY CascadeRanks, ZenonT(30)
  <1> QED
    BY <1>1, <1>2

LEMMA CascadeFree ==
  ASSUME NEW c \in Configs, NEW n \in Names, NEW r \in Ranks,
         \A m \in Names \ {n} : c.rank[m] # r
  PROVE  /\ Cascade(c, n, r).rank[n] = r
         /\ \A m \in Names \ {n} : Cascade(c, n, r).rank[m] = c.rank[m]
  <1>1. Holders(c, n, r) = {}
    BY DEF Holders
  <1>2. ASSUME NEW m \in Names \ {n}, MakesWay(c, n, r, m) PROVE FALSE
    <2>1. c.rank[m] \in Ranks /\ r <= c.rank[m]
      BY <1>2 DEF MakesWay, Configs
    <2>2. r \in r .. c.rank[m]
      BY <2>1
    <2> QED
      BY <1>1, <1>2, <2>2 DEF MakesWay
  <1> QED
    BY <1>2, CascadeRanks

\* Nothing of the community's is there.
LEMMA NothingDoomed ==
  ASSUME NEW d, SoundDisk(d), Doomed(d) = {}
  PROVE  /\ ~Renames(d) /\ (\A u \in Canonical : ~Has(d, u))
         /\ \A n \in Names : n \in d.conf.sources <=> d.url[n] = "other"
  <1>1. /\ d.conf.sources \subseteq Names /\ d.url \in [Names -> Urls \cup {None}]
        /\ \A n \in Names : d.url[n] # None <=> n \in d.conf.sources
    BY SoundDiskParts
  <1>2. \A n \in d.conf.sources : d.url[n] \notin Canonical
    BY DEF Doomed
  <1> QED
    BY <1>1, <1>2, Community DEF Renames, Has

\* A name is free for an entry that a forced installation has still to make.
LEMMA ForcedName ==
  ASSUME NEW e \in Entries,
         \A n \in Names : n \in snapshot.conf.sources <=> disk.url[n] = "other"
  PROVE  Target(snapshot, e) = NameOf(disk, e)
  BY EntryParts DEF Target, NameOf, Entries

LEMMA RelaidInductive == SetupInv /\ Relaid /\ [SetupNext]_setupVars => Relaid'
  <1> SUFFICES ASSUME SetupInv, Relaid, [SetupNext]_setupVars PROVE Relaid'
    OBVIOUS
  <1>0. SoundDisk(disk)
    BY DEF SetupInv, Placed
  <1>1. CASE UNCHANGED setupVars
    BY <1>1 DEF Relaid, Forced, LaidDown, setupVars
  <1>2. CASE stage' \notin {"detect", "add", "rank"}
    BY <1>2 DEF Relaid
  <1>3. CASE LoadRegistries
    <2>1. disk' = disk /\ (stage' = "detect" /\ Forced' => Doomed(disk) = {}) /\ stage' \in {"remove", "detect"}
      BY <1>0, <1>3, LoadedIsSame DEF LoadRegistries, Goto, Forced
    <2> QED
      BY <2>1 DEF Relaid
  <1>4. CASE RemoveOne
    <2>1. (stage' = "detect" => Doomed(disk') = {}) /\ stage' \in {"remove", "detect"}
      BY <1>4 DEF RemoveOne, Goto
    <2> QED
      BY <2>1 DEF Relaid
  <1>5. CASE Consent
    <2>1. SUFFICES ASSUME Forced' PROVE Relaid'
      BY DEF Relaid
    <2>2. stage = "detect" /\ stage' = "add" /\ snapshot = disk /\ Forced
      BY <1>5, <2>1 DEF Consent, Goto, SetupInv, Installing, Forced
    <2>3. Doomed(disk) = {}
      BY <2>2 DEF Relaid
    <2>4. disk' = disk /\ snapshot' = disk /\ todo' = <<PoweredEntry, ExamplesEntry>>
      BY <1>0, <1>5, <2>2, <2>3, NothingDoomed, MissingParts DEF Consent
    <2>5. Ahead(todo') = Entries /\ todo' # <<PoweredEntry>>
      BY <2>4, TodoInOrder
    <2>6. LaidDown(disk', Entries \ Ahead(todo'), Entries \ Ahead(todo'))
      BY <2>3, <2>4, <2>5 DEF LaidDown, NamesOf
    <2> QED
      BY <1>0, <2>2, <2>3, <2>4, <2>5, <2>6, NothingDoomed DEF Relaid
  <1>6. CASE Install
    <2>1. SUFFICES ASSUME Forced' PROVE Relaid'
      BY DEF Relaid
    <2>2. /\ stage = "add" /\ stage' = "rank" /\ Forced /\ todo # <<>> /\ todo' = todo
          /\ snapshot' = snapshot /\ NextName \notin disk.conf.sources
          /\ disk' = Added(disk, NextName, Head(todo).url)
      BY <1>6, <2>1 DEF Install, Goto, Forced, AddRefused, NextName
    <2>3. /\ todo \in Todos /\ todo # <<PoweredEntry>>
          /\ \A n \in Names : n \in snapshot.conf.sources <=> disk.url[n] = "other"
          /\ LaidDown(disk, Entries \ Ahead(todo), Entries \ Ahead(todo))
      BY <2>2 DEF Relaid, SetupInv, Installing
    <2>4. PICK h \in Entries : h = Head(todo)
      BY <2>2, <2>3, TodoParts DEF Entries
    <2>5. PICK n : n = NameOf(disk, h)
      OBVIOUS
    <2>6. n = NextName /\ n \in Names /\ h.url \in Canonical /\ h.url \in Urls /\ h.url # "other"
      BY <2>3, <2>4, <2>5, ForcedName, EntryNames, EntryParts, Community DEF NextName, Entries
    <2>7. PICK d : d = disk'
      OBVIOUS
    <2>8. /\ d.conf.sources = disk.conf.sources \cup {n} /\ d.conf.rank = disk.conf.rank
          /\ d.url = [disk.url EXCEPT ![n] = h.url]
      <3>1. d = Added(disk, n, h.url) /\ n \notin disk.conf.sources
        BY <2>2, <2>4, <2>6, <2>7
      <3> QED
        BY <1>0, <2>6, <3>1, AddedDisk
    <2>9. /\ disk.url \in [Names -> Urls \cup {None}] /\ disk.url[n] = None
          /\ disk.conf.sources \subseteq Names /\ None # "other"
      BY <1>0, <2>2, <2>6, SoundDiskParts, Community
    <2>10. \A m \in Names : d.url[m] = "other" <=> disk.url[m] = "other"
      BY <2>6, <2>8, <2>9
    <2>11. Doomed(d) = Doomed(disk) \cup {n}
      BY <2>2, <2>6, <2>8, <2>9 DEF Doomed
    <2>12. PICK S : S = Entries \ Ahead(todo)
      OBVIOUS
    <2>13. Entries \ Ahead(Tail(todo)) = S \cup {h} /\ S \subseteq Entries /\ h \notin S
      BY <2>2, <2>3, <2>4, <2>12, TodoParts
    <2>14. \A e \in Entries : NameOf(d, e) = NameOf(disk, e)
      BY <2>10, SameNames
    <2>15. Doomed(disk) = NamesOf(disk, S) /\ \A e \in S : disk.url[NameOf(disk, e)] = e.url
      BY <2>3, <2>12 DEF LaidDown
    <2>16. \A e \in S : NameOf(d, e) # n /\ NameOf(d, e) \in Names
      <3>1. \A e \in S : NameOf(disk, e) # n
        <4>1. h = PoweredEntry \/ h = ExamplesEntry
          BY DEF Entries
        <4> QED
          BY <2>5, <2>13, <4>1, EntryNames DEF Entries
      <3> QED
        BY <2>13, <2>14, <3>1, EntryNames
    <2>17. Doomed(d) = NamesOf(d, S \cup {h})
      BY <2>5, <2>11, <2>13, <2>14, <2>15 DEF NamesOf
    <2>18. \A e \in S \cup {h} : d.url[NameOf(d, e)] = e.url
      <3>1. \A m \in Names : d.url[m] = IF m = n THEN h.url ELSE disk.url[m]
        BY <2>6, <2>8, <2>9
      <3>2. NameOf(d, h) = n /\ d.url[n] = h.url
        BY <2>5, <2>6, <2>14, <3>1
      <3>3. ASSUME NEW e \in S PROVE d.url[NameOf(d, e)] = e.url
        <4>1. d.url[NameOf(d, e)] = disk.url[NameOf(d, e)]
          BY <2>16, <3>1
        <4>2. NameOf(d, e) = NameOf(disk, e)
          BY <2>13, <2>14
        <4> QED
          BY <2>15, <4>1, <4>2
      <3> QED
        BY <3>2, <3>3
    <2>19. \A e \in S : d.conf.rank[NameOf(d, e)] = e.rank
      BY <2>3, <2>8, <2>12, <2>13, <2>14 DEF LaidDown
    <2>20. LaidDown(d, S \cup {h}, S)
      BY <2>17, <2>18, <2>19 DEF LaidDown
    <2>21. LaidDown(disk', Entries \ Ahead(Tail(todo')), Entries \ Ahead(todo'))
      BY <2>2, <2>7, <2>12, <2>13, <2>20
    <2> QED
      BY <2>2, <2>3, <2>7, <2>10, <2>21 DEF Relaid
  <1>7. CASE Rank
    <2>1. SUFFICES ASSUME Forced' PROVE Relaid'
      BY DEF Relaid
    <2>2. /\ stage = "rank" /\ stage' = "add" /\ Forced /\ todo # <<>> /\ todo' = Tail(todo)
          /\ snapshot' = snapshot
          /\ disk' = Ranked(disk, NextName, Head(todo).rank)
          /\ NextName \in disk.conf.sources /\ disk.conf.rank[NextName] = Unranked
      BY <1>7, <2>1 DEF Rank, Goto, Forced, NextName, SetupInv, Installing
    <2>3. /\ todo \in Todos /\ todo # <<PoweredEntry>>
          /\ \A n \in Names : n \in snapshot.conf.sources <=> disk.url[n] = "other"
          /\ LaidDown(disk, Entries \ Ahead(Tail(todo)), Entries \ Ahead(todo))
      BY <2>2 DEF Relaid, SetupInv, Installing
    <2>4. PICK h \in Entries : h = Head(todo)
      BY <2>2, <2>3, TodoParts DEF Entries
    <2>5. PICK n : n = NameOf(disk, h)
      OBVIOUS
    <2>6. n = NextName /\ n \in Names /\ h.rank \in Ranks
      BY <2>3, <2>4, <2>5, ForcedName, EntryNames, EntryParts DEF NextName, Entries
    <2>7. PICK d, c : d = disk' /\ c = disk.conf
      OBVIOUS
    <2>8. d.url = disk.url /\ d.conf = Cascade(c, n, h.rank) /\ d.conf.sources = c.sources
      <3>1. d = Ranked(disk, n, h.rank)
        BY <2>2, <2>4, <2>6, <2>7
      <3>2. n \in disk.conf.sources /\ disk.conf.rank[n] = Unranked
        BY <2>2, <2>6
      <3>3. PICK r \in Ranks : r = h.rank
        BY <2>6
      <3>4. /\ Ranked(disk, n, r).conf = Cascade(disk.conf, n, r) /\ Ranked(disk, n, r).url = disk.url
            /\ Cascade(disk.conf, n, r).sources = disk.conf.sources
        BY <1>0, <3>2, RankedDisk
      <3>5. /\ d.conf = Cascade(disk.conf, n, h.rank) /\ d.url = disk.url
            /\ Cascade(disk.conf, n, h.rank).sources = disk.conf.sources
        BY <3>1, <3>3, <3>4
      <3> QED
        BY <2>7, <3>5
    <2>9. c \in Configs /\ d.conf.rank[n] = h.rank
      <3>1. c \in Configs
        BY <1>0, <2>7, SoundDiskParts
      <3>2. Cascade(c, n, h.rank).rank[n] = h.rank
        BY <2>6, <3>1, CascadeRanks
      <3> QED
        BY <2>8, <3>1, <3>2
    <2>10. Doomed(d) = Doomed(disk)
      BY <2>7, <2>8 DEF Doomed
    <2>11. \A e : NameOf(d, e) = NameOf(disk, e)
      BY <2>8 DEF NameOf
    <2>12. \A S : NamesOf(d, S) = NamesOf(disk, S)
      BY <2>11 DEF NamesOf
    <2>13. PICK S : S = Entries \ Ahead(Tail(todo))
      OBVIOUS
    <2>14. \A e \in S : d.conf.rank[NameOf(d, e)] = e.rank
      <3>1. CASE todo = <<PoweredEntry, ExamplesEntry>>
        <4>1. S = {h}
          BY <2>4, <2>13, <3>1, TodoInOrder, EntryParts DEF Entries
        <4> QED
          BY <2>5, <2>9, <2>11, <4>1
      <3>2. CASE todo = <<ExamplesEntry>>
        <4>1. h = ExamplesEntry /\ PoweredEntry \in Entries \ Ahead(todo)
          BY <2>4, <3>2, TodoInOrder, EntryParts DEF Entries
        <4>2. PICK m : m = NameOf(disk, PoweredEntry)
          OBVIOUS
        <4>3. c.rank[m] = PoweredRank
          BY <2>3, <2>7, <4>1, <4>2 DEF LaidDown, PoweredEntry
        <4>4. m \in Names \ {n}
          BY <2>5, <4>1, <4>2, EntryNames DEF Entries
        <4>5. h.rank = ExamplesRank
          BY <4>1 DEF ExamplesEntry
        <4>6. PoweredRank < ExamplesRank /\ PoweredRank \in Ranks /\ ExamplesRank \in Ranks
          BY Community
        <4>7. Cascade(c, n, h.rank).rank[m] = c.rank[m]
          <5>1. c.rank[m] \in Ranks /\ c.rank[m] < ExamplesRank
            BY <4>3, <4>6
          <5>2. Cascade(c, n, ExamplesRank).rank[m] = c.rank[m]
            BY <2>6, <2>9, <4>4, <4>6, <5>1, CascadeBelow
          <5> QED
            BY <4>5, <5>2
        <4>8. d.conf.rank[NameOf(d, PoweredEntry)] = PoweredEntry.rank
          BY <2>8, <2>11, <4>2, <4>3, <4>7 DEF PoweredEntry
        <4> QED
          BY <2>5, <2>9, <2>11, <2>13, <4>1, <4>8 DEF Entries
      <3> QED
        BY <2>2, <2>3, <3>1, <3>2, ForcedTodo
    <2>15. LaidDown(d, S, S)
      BY <2>3, <2>8, <2>10, <2>11, <2>12, <2>13, <2>14 DEF LaidDown
    <2>16. todo' # <<PoweredEntry>>
      <3>1. todo \in {<<PoweredEntry, ExamplesEntry>>, <<ExamplesEntry>>}
        BY <2>2, <2>3, ForcedTodo
      <3>2. <<>> # <<PoweredEntry>>
        OBVIOUS
      <3> QED
        BY <2>2, <3>1, <3>2, TodoInOrder
    <2> QED
      BY <2>2, <2>3, <2>7, <2>8, <2>13, <2>15, <2>16 DEF Relaid
  <1>8. ASSUME StartTask \/ AlreadyConfigured \/ DeclineRegistries \/ RefuseInstall \/ Installed
               \/ KeepPolicy \/ ChoosePreset \/ RefuseEdit \/ Edit \/ TruncatePolicy \/ WritePolicy \/ CutShort
        PROVE  stage' \notin {"detect", "add", "rank"}
    BY <1>8 DEF StartTask, AlreadyConfigured, DeclineRegistries, RefuseInstall, Installed, KeepPolicy,
                ChoosePreset, RefuseEdit, Edit, TruncatePolicy, WritePolicy, CutShort, Exit, Goto, Proceed
  <1> QED
    BY <1>1, <1>2, <1>3, <1>4, <1>5, <1>6, <1>7, <1>8 DEF SetupNext

LEMMA LacksSelf ==
  ASSUME NEW d, SoundDisk(d)
  PROVE  Lacks(d, d, {}, {})
  BY DEF Lacks

LEMMA RemovingLacks ==
  ASSUME NEW d, SoundDisk(d), NEW e, SoundDisk(e), NEW X \in SUBSET Doomed(e), Lacks(d, e, X, {}),
         NEW n \in Doomed(d), NEW f, f = Removed(d, n)
  PROVE  /\ X \cup {n} \subseteq Doomed(e) /\ Lacks(f, e, X \cup {n}, {})
         /\ Doomed(f) = {} => X \cup {n} = Doomed(e)
  <1>1. n \in d.conf.sources /\ d.url[n] \in Canonical
    BY DEF Doomed
  <1>2. /\ f.conf.sources = d.conf.sources \ {n}
        /\ \A m \in Names : f.conf.rank[m] = IF m = n THEN Unranked ELSE d.conf.rank[m]
        /\ f.url = [d.url EXCEPT ![n] = None]
    BY <1>1, RemovedDisk
  <1>3. /\ d.conf.sources \subseteq Names /\ d.url \in [Names -> Urls \cup {None}]
        /\ e.conf.sources \subseteq Names
    BY SoundDiskParts
  <1>4. n \in Names /\ n \notin X /\ n \in e.conf.sources /\ d.url[n] = e.url[n]
    BY <1>1, <1>3 DEF Lacks
  <1>5. X \cup {n} \subseteq Doomed(e)
    BY <1>1, <1>4 DEF Doomed
  <1>6. \A m \in Names : f.url[m] = IF m \in X \cup {n} THEN None ELSE e.url[m]
    BY <1>2, <1>3, <1>4 DEF Lacks
  <1>7. Lacks(f, e, X \cup {n}, {})
    BY <1>2, <1>4, <1>6 DEF Lacks
  <1>8. ASSUME NEW m \in Doomed(e), m \notin X \cup {n} PROVE m \in Doomed(f)
    BY <1>3, <1>7, <1>8 DEF Doomed, Lacks
  <1> QED
    BY <1>5, <1>7, <1>8

\* What is the user's own is not the community's.
LEMMA LackingNames ==
  ASSUME NEW d, NEW e, SoundDisk(e), NEW X \in SUBSET Doomed(e), NEW Y, Lacks(d, e, X, Y)
  PROVE  /\ \A h \in Entries : NameOf(d, h) = NameOf(e, h)
         /\ \A n \in Names : d.url[n] = "other" <=> e.url[n] = "other"
  <1>1. "other" \notin Canonical /\ None # "other"
    BY Community
  <1>2. \A n \in X : e.url[n] # "other"
    BY <1>1 DEF Doomed
  <1>3. \A n \in Names : d.url[n] = "other" <=> e.url[n] = "other"
    BY <1>1, <1>2 DEF Lacks
  <1> QED
    BY <1>3, SameNames

\* The names still to come are the next one, and others.
LEMMA NamesToCome ==
  ASSUME NEW e, LaidDown(e, Entries, Entries), NEW list \in Todos, list # <<>>
  PROVE  /\ NamesOf(e, Ahead(list)) = {NameOf(e, Head(list))} \cup NamesOf(e, Ahead(Tail(list)))
         /\ NameOf(e, Head(list)) \notin NamesOf(e, Ahead(Tail(list)))
         /\ NamesOf(e, Ahead(list)) \subseteq Doomed(e)
         /\ NamesOf(e, Ahead(Tail(list))) \subseteq Doomed(e)
  <1>1. PICK h, A, B : h = Head(list) /\ A = Ahead(list) /\ B = Ahead(Tail(list))
    OBVIOUS
  <1>2. h \in Entries /\ A = {h} \cup B /\ h \notin B
    BY <1>1, TodoParts DEF Entries
  <1>3. A \subseteq Entries /\ B \subseteq Entries
    BY <1>1 DEF Ahead, Entries
  <1>4. NamesOf(e, A) = {NameOf(e, h)} \cup NamesOf(e, B)
    BY <1>2 DEF NamesOf
  <1>5. \A k \in Entries : k # h => NameOf(e, k) # NameOf(e, h)
    BY <1>2, EntryNames DEF Entries
  <1>6. NameOf(e, h) \notin NamesOf(e, B)
    BY <1>2, <1>3, <1>5 DEF NamesOf
  <1>7. Doomed(e) = NamesOf(e, Entries)
    BY DEF LaidDown
  <1>8. NamesOf(e, A) \subseteq Doomed(e) /\ NamesOf(e, B) \subseteq Doomed(e)
    BY <1>3, <1>7 DEF NamesOf
  <1> QED
    BY <1>1, <1>4, <1>6, <1>8

LEMMA InstallingBack ==
  ASSUME NEW d, SoundDisk(d), NEW e, SoundDisk(e), LaidDown(e, Entries, Entries),
         NEW n, NEW X \in SUBSET Doomed(e), n \in Doomed(e) \ X, Lacks(d, e, X \cup {n}, {}),
         NEW f, f = Added(d, n, e.url[n])
  PROVE  Lacks(f, e, X, {n})
  <1>1. n \in Names /\ n \in e.conf.sources /\ e.url[n] \in Urls
    BY SoundDiskParts, Community DEF Doomed
  <1>2. n \notin d.conf.sources /\ d.conf.rank[n] = Unranked
    BY <1>1 DEF Lacks
  <1>3. /\ f.conf.sources = d.conf.sources \cup {n} /\ f.conf.rank = d.conf.rank
        /\ f.url = [d.url EXCEPT ![n] = e.url[n]]
    <2>1. PICK u \in Urls : u = e.url[n]
      BY <1>1
    <2>2. f = Added(d, n, u)
      BY <2>1
    <2>3. /\ Added(d, n, u).conf.sources = d.conf.sources \cup {n}
          /\ Added(d, n, u).conf.rank = d.conf.rank
          /\ Added(d, n, u).url = [d.url EXCEPT ![n] = u]
      BY <1>1, <1>2, AddedDisk
    <2> QED
      BY <2>1, <2>2, <2>3
  <1>4. d.url \in [Names -> Urls \cup {None}]
    BY SoundDiskParts
  <1>5. f.conf.sources = e.conf.sources \ X
    BY <1>1, <1>3 DEF Lacks
  <1>6. \A m \in Names : f.url[m] = IF m \in X THEN None ELSE e.url[m]
    <2>1. \A m \in Names : f.url[m] = IF m = n THEN e.url[n] ELSE d.url[m]
      BY <1>1, <1>3, <1>4
    <2>2. \A m \in Names : d.url[m] = IF m \in X \cup {n} THEN None ELSE e.url[m]
      BY DEF Lacks
    <2> QED
      BY <2>1, <2>2
  <1>7. \A m \in Names : f.conf.rank[m] = IF m \in X \cup {n} THEN Unranked ELSE e.conf.rank[m]
    BY <1>3 DEF Lacks
  <1> QED
    BY <1>5, <1>6, <1>7 DEF Lacks

\* Nobody else has the rank, as the ranks were distinct when all of it was there.
LEMMA RankingBack ==
  ASSUME NEW d, SoundDisk(d), NEW e, SoundDisk(e), Distinct(e.conf),
         NEW n \in d.conf.sources, NEW X, n \notin X, Lacks(d, e, X, {n}), e.conf.rank[n] \in Ranks,
         NEW f, f = Ranked(d, n, e.conf.rank[n])
  PROVE  Lacks(f, e, X, {})
  <1>1. n \in Names /\ d.conf \in Configs
    BY SoundDiskParts
  <1>2. PICK c, r : c = d.conf /\ r = e.conf.rank[n] /\ r \in Ranks
    OBVIOUS
  <1>3. d.conf.rank[n] = Unranked
    BY <1>1 DEF Lacks
  <1>4. f.conf = Cascade(c, n, r) /\ f.url = d.url /\ f.conf.sources = d.conf.sources
    <2>1. /\ Ranked(d, n, r).conf = Cascade(d.conf, n, r) /\ Ranked(d, n, r).url = d.url
          /\ Cascade(d.conf, n, r).sources = d.conf.sources
      BY <1>2, <1>3, RankedDisk
    <2> QED
      BY <1>2, <2>1
  <1>5. ASSUME NEW m \in Names \ {n} PROVE c.rank[m] # r
    <2>1. r # Unranked
      BY <1>2, SourcesAssumption DEF Ranks
    <2>2. c.rank[m] = IF m \in X THEN Unranked ELSE e.conf.rank[m]
      BY <1>2 DEF Lacks
    <2> QED
      BY <1>1, <1>2, <2>1, <2>2 DEF Distinct
  <1>6. /\ Cascade(c, n, r).rank[n] = r
        /\ \A m \in Names \ {n} : Cascade(c, n, r).rank[m] = c.rank[m]
    BY <1>1, <1>2, <1>5, CascadeFree
  <1>7. \A m \in Names : f.conf.rank[m] = IF m \in X THEN Unranked ELSE e.conf.rank[m]
    BY <1>1, <1>2, <1>4, <1>6 DEF Lacks
  <1> QED
    BY <1>4, <1>7 DEF Lacks

\* Steps that leave or lose what is settled, outside of an installation.
LEMMA StillSettled ==
  ASSUME SettledStays, settled' \subseteq settled, crowded' = crowded, disk' = disk,
         stage' \notin {"remove", "detect", "add", "rank"},
         settled' = {} \/ stage \notin {"remove", "detect", "add", "rank"}
  PROVE  SettledStays'
  <1> SUFFICES ASSUME NEW s \in settled' PROVE SoundlySettled(s)' /\ Stays(s)'
    BY DEF SettledStays
  <1>1. SoundlySettled(s) /\ Stays(s) /\ disk = s.disk
    BY DEF SettledStays, Stays
  <1>2. SoundlySettled(s)'
    BY <1>1 DEF SoundlySettled
  <1> QED
    BY <1>1, <1>2 DEF Stays, HalfWay, Forced

\* Where an installation has left both registries, there is nothing to ask for but after
\* the removals of a forced one.
LEMMA NothingToDetect ==
  ASSUME SetupInv, Relaid, SettledStays, NEW s \in settled, stage = "detect"
  PROVE  /\ Renames(snapshot) \/ Missing(snapshot) # <<>> <=> Forced
         /\ ~Forced => disk = s.disk
  <1>1. SoundlySettled(s) /\ Stays(s) /\ SoundDisk(disk) /\ snapshot = disk
    BY DEF SettledStays, SetupInv, Placed, Installing
  <1>2. CASE Forced
    <2>1. Doomed(disk) = {}
      BY <1>2 DEF Relaid
    <2>2. \A u \in Canonical : ~Has(disk, u)
      BY <1>1, <2>1, NothingDoomed
    <2>3. Missing(disk) # <<>>
      BY <2>2, MissingParts, Community
    <2> QED
      BY <1>1, <1>2, <2>3
  <1>3. CASE ~Forced
    <2>1. disk = s.disk
      BY <1>1, <1>3 DEF Stays
    <2>2. Missing(disk) = <<>> /\ ~Renames(disk)
      BY <1>1, <2>1, MissingParts DEF SoundlySettled
    <2> QED
      BY <1>1, <1>3, <2>1, <2>2
  <1> QED
    BY <1>2, <1>3

\* The next name is that under which the registry was there.
LEMMA NameAsBefore ==
  ASSUME SetupInv, Relaid, SettledStays, NEW s \in settled, s.force, ~crowded, todo # <<>>,
         stage \in {"add", "rank"}, NEW e, e = s.disk
  PROVE  /\ Forced /\ todo \in Todos /\ NextName = NameOf(e, Head(todo))
         /\ SoundDisk(e) /\ Distinct(e.conf) /\ LaidDown(e, Entries, Entries)
         /\ NextName \in Doomed(e) /\ NextName \notin NamesOf(e, Ahead(Tail(todo)))
         /\ e.url[NextName] = Head(todo).url /\ e.conf.rank[NextName] = Head(todo).rank
         /\ NamesOf(e, Ahead(Tail(todo))) \subseteq Doomed(e)
         /\ NamesOf(e, Ahead(todo)) = NamesOf(e, Ahead(Tail(todo))) \cup {NextName}
         /\ Head(todo).rank \in Ranks
  <1>1. SoundlySettled(s) /\ Stays(s)
    BY DEF SettledStays
  <1>2. Forced /\ HalfWay(e)
    BY <1>1 DEF Stays
  <1>3. SoundDisk(e) /\ Distinct(e.conf) /\ LaidDown(e, Entries, Entries)
    BY <1>1 DEF SoundlySettled
  <1>4. todo \in Todos /\ \A n \in Names : n \in snapshot.conf.sources <=> disk.url[n] = "other"
    BY <1>2 DEF Relaid, SetupInv, Installing
  <1>5. PICK h \in Entries : h = Head(todo)
    BY <1>4, TodoParts DEF Entries
  <1>6. NextName = NameOf(disk, h)
    BY <1>4, <1>5, ForcedName DEF NextName
  <1>7. PICK A, B : A = NamesOf(e, Ahead(todo)) /\ B = NamesOf(e, Ahead(Tail(todo)))
    OBVIOUS
  <1>8. A = {NameOf(e, h)} \cup B /\ NameOf(e, h) \notin B /\ A \subseteq Doomed(e) /\ B \subseteq Doomed(e)
    BY <1>3, <1>4, <1>5, <1>7, NamesToCome
  <1>9. NameOf(disk, h) = NameOf(e, h)
    <2>1. CASE stage = "add"
      <3>1. Lacks(disk, e, A, {})
        BY <1>2, <1>7, <2>1 DEF HalfWay
      <3> QED
        BY <1>3, <1>8, <3>1, LackingNames
    <2>2. CASE stage = "rank"
      <3>1. Lacks(disk, e, B, {NameOf(e, h)})
        BY <1>2, <1>5, <1>7, <2>2 DEF HalfWay
      <3> QED
        BY <1>3, <1>8, <3>1, LackingNames
    <2> QED
      BY <2>1, <2>2
  <1>10. e.url[NameOf(e, h)] = h.url /\ e.conf.rank[NameOf(e, h)] = h.rank
    BY <1>3 DEF LaidDown
  <1>11. h.rank \in Ranks
    BY EntryParts DEF Entries
  <1> QED
    BY <1>2, <1>3, <1>4, <1>5, <1>6, <1>7, <1>8, <1>9, <1>10, <1>11

LEMMA SettledInductive ==
  SetupInv /\ Relaid /\ SettledStays /\ [SetupNext]_setupVars => SettledStays'
  <1> SUFFICES ASSUME SetupInv, Relaid, SettledStays, [SetupNext]_setupVars PROVE SettledStays'
    OBVIOUS
  <1>0. SoundDisk(disk) /\ crowded \in BOOLEAN
    BY DEF SetupInv, Placed
  <1>1. CASE UNCHANGED setupVars
    BY <1>1 DEF SettledStays, SoundlySettled, Stays, HalfWay, Forced, setupVars
  \* What is settled stays sound, as `crowded` is never taken back.
  <1>2. ASSUME settled' \subseteq settled, crowded => crowded', NEW s \in settled'
        PROVE  SoundlySettled(s)'
    BY <1>2 DEF SettledStays, SoundlySettled
  <1>3. ASSUME settled' = {} PROVE SettledStays'
    BY <1>3 DEF SettledStays
  <1>4. CASE StartTask
    BY <1>4, StillSettled DEF StartTask
  <1>5. CASE LoadRegistries
    <2>1. disk' = disk /\ snapshot' = disk /\ stage = "load" /\ UNCHANGED <<task, settled, crowded>>
      BY <1>0, <1>5, LoadedIsSame DEF LoadRegistries, Goto
    <2>2. /\ stage' = "remove" => task.opts.force
          /\ stage' = "detect" => ~(task.opts.force /\ Doomed(disk) # {})
          /\ stage' \in {"remove", "detect"}
      BY <1>5, <2>1 DEF LoadRegistries, Goto
    <2> SUFFICES ASSUME NEW s \in settled' PROVE SoundlySettled(s)' /\ Stays(s)'
      BY DEF SettledStays
    <2>3. SoundlySettled(s)'
      BY <1>2, <2>1
    <2>4. disk = s.disk
      BY <2>1 DEF SettledStays, Stays
    <2>5. Lacks(disk, s.disk, {}, {})
      BY <1>0, <2>4, LacksSelf
    <2>6. HalfWay(s.disk)' \/ ~Forced'
      <3>1. CASE stage' = "remove"
        BY <2>1, <2>5, <3>1 DEF HalfWay
      <3>2. CASE stage' = "detect"
        BY <2>1, <2>2, <2>4, <2>5, <3>2 DEF HalfWay, Forced
      <3> QED
        BY <2>2, <3>1, <3>2
    <2>7. stage' = "remove" => Forced'
      BY <2>1, <2>2 DEF Forced
    <2> QED
      BY <2>1, <2>2, <2>3, <2>4, <2>6, <2>7 DEF Stays
  <1>6. CASE RemoveOne
    <2>1. PICK n \in Doomed(disk) : disk' = Removed(disk, n)
      BY <1>6 DEF RemoveOne
    <2>2. /\ stage = "remove" /\ stage' \in {"remove", "detect"} /\ UNCHANGED <<task, settled, crowded>>
          /\ stage' = "detect" => Doomed(disk') = {}
      BY <1>6 DEF RemoveOne, Goto
    <2> SUFFICES ASSUME NEW s \in settled' PROVE SoundlySettled(s)' /\ Stays(s)'
      BY DEF SettledStays
    <2>3. SoundlySettled(s)'
      BY <1>2, <2>2
    <2>4. SoundlySettled(s) /\ Stays(s)
      BY <2>2 DEF SettledStays
    <2>5. Forced'
      BY <2>2, <2>4 DEF Stays, Forced
    <2>6. ASSUME s.force, ~crowded PROVE HalfWay(s.disk)'
      <3>1. PICK X \in SUBSET Doomed(s.disk) : Lacks(disk, s.disk, X, {})
        BY <2>2, <2>4, <2>6 DEF Stays, HalfWay
      <3>2. PICK e, d, f : e = s.disk /\ d = disk /\ f = disk'
        OBVIOUS
      <3>3. SoundDisk(d) /\ SoundDisk(e) /\ X \in SUBSET Doomed(e) /\ Lacks(d, e, X, {})
        BY <1>0, <2>4, <3>1, <3>2 DEF SoundlySettled
      <3>4. PICK m \in Doomed(d) : m = n /\ f = Removed(d, m)
        BY <2>1, <3>2
      <3>5. /\ X \cup {m} \subseteq Doomed(e) /\ Lacks(f, e, X \cup {m}, {})
            /\ Doomed(f) = {} => X \cup {m} = Doomed(e)
        BY <3>3, <3>4, RemovingLacks
      <3>6. CASE stage' = "remove"
        BY <3>2, <3>5, <3>6 DEF HalfWay
      <3>7. CASE stage' = "detect"
        BY <2>2, <3>2, <3>5, <3>7 DEF HalfWay
      <3> QED
        BY <2>2, <3>6, <3>7
    <2> QED
      BY <2>2, <2>3, <2>5, <2>6 DEF Stays
  <1>7. CASE AlreadyConfigured
    <2>1. /\ stage = "detect" /\ ~Renames(snapshot) /\ Missing(snapshot) = <<>>
          /\ stage' \in {"idle", "policy"} /\ UNCHANGED <<disk, settled, crowded>>
      BY <1>7 DEF AlreadyConfigured, Proceed, Exit, Goto
    <2> SUFFICES ASSUME NEW s \in settled' PROVE SoundlySettled(s)' /\ Stays(s)'
      BY DEF SettledStays
    <2>2. disk = s.disk
      BY <2>1, NothingToDetect
    <2>3. SoundlySettled(s)'
      BY <1>2, <2>1
    <2>4. ~Forced'
      BY <2>1 DEF Forced
    <2> QED
      BY <2>1, <2>2, <2>3, <2>4 DEF Stays
  <1>8. CASE DeclineRegistries \/ RefuseInstall \/ CutShort
    BY <1>3, <1>8 DEF DeclineRegistries, RefuseInstall, CutShort
  <1>9. CASE Consent
    <2>1. /\ stage = "detect" /\ stage' = "add" /\ (Renames(snapshot) \/ Missing(snapshot) # <<>>)
          /\ UNCHANGED <<task, settled>> /\ (crowded => crowded') /\ todo' = Missing(snapshot)
          /\ ~Renames(snapshot) => disk' = disk
      BY <1>9 DEF Consent, Goto
    <2> SUFFICES ASSUME NEW s \in settled' PROVE SoundlySettled(s)' /\ Stays(s)'
      BY DEF SettledStays
    <2>2. SoundlySettled(s)'
      BY <1>2, <2>1
    <2>3. Forced /\ snapshot = disk
      BY <2>1, NothingToDetect DEF SetupInv, Installing
    <2>4. Doomed(disk) = {}
      BY <2>1, <2>3 DEF Relaid
    <2>5. disk' = disk /\ todo' = <<PoweredEntry, ExamplesEntry>>
      BY <1>0, <2>1, <2>3, <2>4, NothingDoomed, MissingParts
    <2>6. Forced'
      BY <2>1, <2>3 DEF Forced
    <2>7. ASSUME s.force, ~crowded' PROVE HalfWay(s.disk)'
      <3>1. SoundlySettled(s) /\ Stays(s)
        BY <2>1 DEF SettledStays
      <3>2. Lacks(disk, s.disk, Doomed(s.disk), {})
        BY <2>1, <2>3, <2>7, <3>1 DEF Stays, HalfWay
      <3>3. Doomed(s.disk) = NamesOf(s.disk, Entries)
        BY <2>7, <3>1 DEF SoundlySettled, LaidDown
      <3>4. Ahead(todo') = Entries
        BY <2>5, TodoInOrder
      <3> QED
        BY <2>1, <2>5, <3>2, <3>3, <3>4 DEF HalfWay
    <2> QED
      BY <2>1, <2>2, <2>6, <2>7 DEF Stays
  <1>10. CASE Install
    <2>1. /\ stage = "add" /\ stage' = "rank" /\ todo # <<>>
          /\ UNCHANGED <<task, settled, crowded, todo>>
          /\ disk' = Added(disk, NextName, Head(todo).url)
      BY <1>10 DEF Install, Goto, NextName
    <2> SUFFICES ASSUME NEW s \in settled' PROVE SoundlySettled(s)' /\ Stays(s)'
      BY DEF SettledStays
    <2>2. SoundlySettled(s)' /\ SoundlySettled(s) /\ Stays(s)
      BY <1>2, <2>1 DEF SettledStays
    <2>3. Forced'
      BY <2>1, <2>2 DEF Stays, Forced
    <2>4. ASSUME s.force, ~crowded PROVE HalfWay(s.disk)'
      <3>1. PICK e, d, f, n : e = s.disk /\ d = disk /\ f = disk' /\ n = NextName
        OBVIOUS
      <3>2. PICK X : X = NamesOf(e, Ahead(Tail(todo)))
        OBVIOUS
      <3>3. /\ SoundDisk(e) /\ LaidDown(e, Entries, Entries) /\ n = NameOf(e, Head(todo))
            /\ n \in Doomed(e) \ X /\ X \in SUBSET Doomed(e) /\ NamesOf(e, Ahead(todo)) = X \cup {n}
            /\ e.url[n] = Head(todo).url /\ Forced
        BY <2>1, <2>4, <3>1, <3>2, NameAsBefore
      <3>4. Lacks(d, e, X \cup {n}, {})
        BY <2>1, <2>2, <2>4, <3>1, <3>3 DEF Stays, HalfWay
      <3>5. f = Added(d, n, e.url[n])
        BY <2>1, <3>1, <3>3
      <3>6. Lacks(f, e, X, {n})
        BY <1>0, <3>1, <3>3, <3>4, <3>5, InstallingBack
      <3> QED
        BY <2>1, <3>1, <3>2, <3>3, <3>6 DEF HalfWay
    <2> QED
      BY <2>1, <2>2, <2>3, <2>4 DEF Stays
  <1>11. CASE Rank
    <2>1. /\ stage = "rank" /\ stage' = "add" /\ todo' = Tail(todo) /\ (crowded => crowded')
          /\ UNCHANGED <<task, settled>>
          /\ disk' = Ranked(disk, NextName, Head(todo).rank)
          /\ todo # <<>> /\ NextName \in disk.conf.sources
      BY <1>11 DEF Rank, Goto, NextName, SetupInv, Installing
    <2> SUFFICES ASSUME NEW s \in settled' PROVE SoundlySettled(s)' /\ Stays(s)'
      BY DEF SettledStays
    <2>2. SoundlySettled(s)' /\ SoundlySettled(s) /\ Stays(s)
      BY <1>2, <2>1 DEF SettledStays
    <2>3. Forced'
      BY <2>1, <2>2 DEF Stays, Forced
    <2>4. ASSUME s.force, ~crowded' PROVE HalfWay(s.disk)'
      <3>1. PICK e, d, f, n : e = s.disk /\ d = disk /\ f = disk' /\ n = NextName
        OBVIOUS
      <3>2. PICK X : X = NamesOf(e, Ahead(Tail(todo)))
        OBVIOUS
      <3>3. /\ SoundDisk(e) /\ Distinct(e.conf) /\ n = NameOf(e, Head(todo)) /\ n \notin X /\ Forced
            /\ e.conf.rank[n] = Head(todo).rank /\ e.conf.rank[n] \in Ranks
        BY <2>1, <2>4, <3>1, <3>2, NameAsBefore
      <3>4. Lacks(d, e, X, {n})
        BY <2>1, <2>2, <2>4, <3>1, <3>2, <3>3 DEF Stays, HalfWay
      <3>5. f = Ranked(d, n, e.conf.rank[n]) /\ n \in d.conf.sources
        BY <2>1, <3>1, <3>3
      <3>6. Lacks(f, e, X, {})
        BY <1>0, <3>1, <3>3, <3>4, <3>5, RankingBack
      <3> QED
        BY <2>1, <3>1, <3>2, <3>6 DEF HalfWay
    <2> QED
      BY <2>1, <2>2, <2>3, <2>4 DEF Stays
  <1>12. CASE Installed
    <2>1. /\ stage = "add" /\ todo = <<>> /\ stage' \in {"idle", "policy"} /\ UNCHANGED <<disk, crowded>>
          /\ settled' = {[disk |-> disk, force |-> task.opts.force]}
      BY <1>12 DEF Installed, Proceed, Exit, Goto
    <2> SUFFICES ASSUME NEW s \in settled' PROVE SoundlySettled(s)' /\ Stays(s)'
      BY DEF SettledStays
    <2>2. s.disk = disk /\ s.force = task.opts.force
      BY <2>1
    <2>3. ~Renames(disk) /\ \A u \in Canonical : Has(disk, u)
      BY <2>1, DueParts DEF SetupInv, Installing
    <2>4. s.force => LaidDown(disk, Entries, Entries)
      BY <2>1, <2>2, TodoInOrder DEF Relaid, Forced
    <2>5. crowded \/ Distinct(disk.conf)
      BY DEF SetupInv, UserKept, OrderStays
    <2>6. SoundlySettled(s)'
      BY <1>0, <2>1, <2>2, <2>3, <2>4, <2>5 DEF SoundlySettled
    <2> QED
      BY <2>1, <2>2, <2>6 DEF Stays, Forced
  <1>13. CASE KeepPolicy \/ ChoosePreset \/ RefuseEdit \/ Edit \/ TruncatePolicy \/ WritePolicy
    <2>1. /\ UNCHANGED <<disk, settled, crowded>> /\ stage \in {"policy", "edit", "truncate", "write"}
          /\ stage' \in {"idle", "truncate", "write"}
      BY <1>13 DEF KeepPolicy, ChoosePreset, RefuseEdit, Edit, TruncatePolicy, WritePolicy,
                   Exit, Goto, registry
    <2> QED
      BY <2>1, StillSettled
  <1> QED
    BY <1>1, <1>4, <1>5, <1>6, <1>7, <1>8, <1>9, <1>10, <1>11, <1>12, <1>13 DEF SetupNext

\* Of any first sources.toml, and after any commands, wherever they stopped: a complete
\* installation that is repeated ends in the file that it left, though --force takes both
\* registries away and installs them again (setup.rs:242, :298-327).
THEOREM InstallationsRepeat == SetupSpec => Repeatable
  <1>1. ASSUME SetupInv, Relaid, SettledStays, [SetupNext]_setupVars
        PROVE  [\A s \in settled :
                  /\ outcome = None /\ outcome' = "registered" /\ (task.opts.force => s.force)
                  /\ ~crowded
                  => disk' = s.disk]_setupVars
    <2> SUFFICES ASSUME SetupNext, NEW s \in settled, outcome = None, outcome' = "registered",
                        task.opts.force => s.force, ~crowded
                 PROVE  disk' = s.disk
      BY <1>1
    <2>1. AlreadyConfigured \/ Installed
      <3>1. None # "registered"
        BY Community
      <3> QED
        BY <3>1 DEF SetupNext, StartTask, LoadRegistries, RemoveOne, DeclineRegistries, Consent,
                    Install, RefuseInstall, Rank, KeepPolicy, ChoosePreset, RefuseEdit, Edit,
                    TruncatePolicy, WritePolicy, CutShort, registry
    <2>2. CASE AlreadyConfigured
      BY <1>1, <2>2, NothingToDetect DEF AlreadyConfigured
    <2>3. CASE Installed
      <3>1. stage = "add" /\ todo = <<>> /\ disk' = disk
        BY <2>3 DEF Installed
      <3>2. SoundlySettled(s) /\ Stays(s) /\ SoundDisk(disk)
        BY <1>1 DEF SettledStays, SetupInv, Placed
      <3>3. s.force
        BY <3>1, <3>2 DEF Stays, Forced
      <3>4. Lacks(disk, s.disk, NamesOf(s.disk, Ahead(todo)), {})
        BY <3>1, <3>2, <3>3 DEF Stays, HalfWay
      <3>5. NamesOf(s.disk, Ahead(todo)) = {}
        BY <3>1, TodoInOrder DEF NamesOf
      <3>6. Lacks(disk, s.disk, {}, {})
        BY <3>4, <3>5
      <3>7. disk = s.disk
        BY <3>2, <3>6, LacksNothing DEF SoundlySettled
      <3> QED
        BY <3>1, <3>7
    <2> QED
      BY <2>1, <2>2, <2>3
  <1>2. SetupInit => Relaid /\ SettledStays
    BY DEF SetupInit, Relaid, SettledStays
  <1>3. SetupSpec => [](SetupInv /\ Relaid /\ SettledStays)
    BY <1>2, SetupInvInit, SetupInvInductive, RelaidInductive, SettledInductive, PTL DEF SetupSpec
  <1> QED
    BY <1>1, <1>3, PTL DEF SetupSpec, Repeatable

----------------------------------------------------------------------------
\* Setup: sandbox.toml

\* A policy file in which every field is set, to what loads.
Policies == [clock : Bools, limit : Limits \ {0}, env : SUBSET Patterns]

\* What `set` starts from, when the file was as it was when the command began.
BaseOf(f) == IF f = Absent THEN Preset("recommended", Permitted) ELSE FromTable(f)

PolicyInv ==
  /\ sandbox \in Files \cup {Absent}
  /\ stage # "idle" => task \in Tasks /\ entry.sandbox \in Files \cup {Absent}
  /\ stage \notin {"idle", "write"} => sandbox = entry.sandbox
  /\ stage = "write" => sandbox = Truncated
  /\ stage = "edit" => task.kind = "set"
  /\ stage = "policy" => task.kind \in {"sandbox", "all"}
  /\ stage \in {"load", "remove", "detect", "add", "rank"} => task.kind \in {"registry", "all"}
  /\ stage \in {"truncate", "write"} =>
       \/ task.kind \in {"sandbox", "all"} /\ fresh = Preset(task.preset, Permitted)
       \/ /\ task.kind = "set" /\ BaseOf(entry.sandbox).limit # 0 /\ task.edit.limit # 0
          /\ fresh = Edited(BaseOf(entry.sandbox), task.edit)

LEMMA TasksAre ==
  ASSUME NEW c \in Tasks
  PROVE  /\ c.kind \in {"registry", "all", "sandbox", "set"}
         /\ c.kind = "set" => c.edit \in Files
         /\ c.kind \in {"sandbox", "all"} => c.preset \in Presets
  BY GivenAssumption DEF Tasks, Presets

LEMMA FilesAre ==
  ASSUME NEW f \in Files
  PROVE  /\ f.clock \in Bools \cup {Unset} /\ f.limit \in Limits \cup {Unset}
         /\ f.env \in (SUBSET Patterns) \cup {Unset} /\ f # Absent
  BY SetupAssumption DEF Files

LEMMA UnsetApart == Unset \notin Bools /\ Unset \notin Limits /\ Unset \notin SUBSET Patterns
  BY PolicyAssumption

LEMMA PresetsArePolicies == \A p \in Presets : Preset(p, Permitted) \in Policies
  <1>1. Permitted \subseteq Patterns
    BY SetupAssumption
  <1>2. Preset("recommended", Permitted) \in Policies
    BY DEF Preset, Policies, Bools, Limits, Hard
  <1>3. Preset("strict", Permitted) \in Policies
    BY DEF Preset, Policies, Bools, Limits, Hard
  <1>4. Preset("permissive", Permitted) \in Policies
    BY <1>1 DEF Preset, Policies, Bools, Limits, Hard
  <1> QED
    BY <1>2, <1>3, <1>4 DEF Presets

\* What the two readers of a file make of it is the same.
LEMMA FileAsRead ==
  ASSUME NEW f \in Files
  PROVE  /\ FromTable(f).clock \in Bools /\ FromTable(f).env \in SUBSET Patterns
         /\ FromTable(f).limit \in Limits /\ (FromTable(f).limit # 0 <=> Loads(f))
         /\ LoadFile(f) = FromTable(f)
         /\ Loads(f) => InForce(f, Absent) = FromTable(f)
  <1>1. /\ f.clock \in Bools \cup {Unset} /\ f.limit \in Limits \cup {Unset}
        /\ f.env \in (SUBSET Patterns) \cup {Unset} /\ f # Absent
    BY FilesAre
  <1>2. "no" \in Bools /\ Hard \in Limits /\ Hard # 0 /\ 0 \in Limits
    BY DEF Bools, Limits, Hard
  <1>3. /\ FromTable(f).clock = Or(f.clock, "no") /\ FromTable(f).limit = Or(f.limit, Hard)
        /\ FromTable(f).env = Or(f.env, {})
    BY DEF FromTable
  <1>4. Or(f.clock, "no") \in Bools /\ Or(f.env, {}) \in SUBSET Patterns
    BY <1>1, <1>2 DEF Or
  <1>5. Or(f.limit, Hard) \in Limits /\ (Or(f.limit, Hard) # 0 <=> f.limit # 0)
    BY <1>1, <1>2, UnsetApart DEF Or
  <1>6. LoadFile(f) = FromTable(f)
    BY DEF LoadFile, FromTable
  <1>7. Loads(f) => InForce(f, Absent) = LoadFile(f)
    BY <1>1 DEF InForce
  <1> QED
    BY <1>3, <1>4, <1>5, <1>6, <1>7 DEF Loads

\* A policy is in force as it is written.
LEMMA PolicyInForce ==
  ASSUME NEW p \in Policies
  PROVE  p \in Files /\ InForce(p, Absent) = p
  <1>1. p.clock \in Bools /\ p.limit \in Limits \ {0} /\ p.env \in SUBSET Patterns
    BY DEF Policies
  <1>2. p \in Files
    BY DEF Policies, Files
  <1>3. Or(p.clock, "no") = p.clock /\ Or(p.limit, Hard) = p.limit /\ Or(p.env, {}) = p.env
    BY <1>1, UnsetApart DEF Or
  <1>4. p = [clock |-> p.clock, limit |-> p.limit, env |-> p.env]
    BY DEF Policies
  <1>5. FromTable(p) = p
    BY <1>3, <1>4 DEF FromTable
  <1>6. Loads(p)
    BY <1>1 DEF Loads
  <1> QED
    BY <1>2, <1>5, <1>6, FileAsRead

LEMMA TruncatedFile == Truncated \in Files /\ InForce(Truncated, Absent) = ZeroAuthorization
  <1>1. Truncated \in Files
    BY DEF Truncated, Files
  <1>2. Truncated.limit # 0
    BY UnsetApart DEF Truncated, Limits
  <1>3. InForce(Truncated, Absent) = LoadFile(Truncated)
    BY <1>1, <1>2, FilesAre DEF InForce, Loads
  <1>4. LoadFile(Truncated) = ZeroAuthorization
    BY DEF LoadFile, Truncated, ZeroAuthorization, Or
  <1> QED
    BY <1>1, <1>3, <1>4

\* Editing: each field is as it is told, or as it was.
LEMMA EditedIsPolicy ==
  ASSUME NEW f \in Files \cup {Absent}, NEW e \in Files, BaseOf(f).limit # 0, e.limit # 0,
         NEW p, p = Edited(BaseOf(f), e)
  PROVE  /\ BaseOf(f) \in Policies /\ p \in Policies
         /\ p.clock = Or(e.clock, BaseOf(f).clock) /\ p.limit = Or(e.limit, BaseOf(f).limit)
         /\ p.env = Or(e.env, BaseOf(f).env)
         /\ f # Absent => InForce(f, Absent) = BaseOf(f)
  <1>1. PICK b : b = BaseOf(f)
    OBVIOUS
  <1>2. b \in Policies /\ (f # Absent => InForce(f, Absent) = b)
    <2>1. CASE f = Absent
      <3>1. b = Preset("recommended", Permitted)
        BY <1>1, <2>1 DEF BaseOf
      <3> QED
        BY <2>1, <3>1, PresetsArePolicies DEF Presets
    <2>2. CASE f # Absent
      <3>1. f \in Files /\ b = FromTable(f)
        BY <1>1, <2>2 DEF BaseOf
      <3>2. /\ b.clock \in Bools /\ b.env \in SUBSET Patterns /\ b.limit \in Limits /\ b.limit # 0
            /\ InForce(f, Absent) = b
        BY <1>1, <3>1, FileAsRead
      <3>3. b = [clock |-> b.clock, limit |-> b.limit, env |-> b.env]
        BY <3>1 DEF FromTable
      <3> QED
        BY <3>2, <3>3 DEF Policies
    <2> QED
      BY <2>1, <2>2
  <1>3. b.clock \in Bools /\ b.limit \in Limits \ {0} /\ b.env \in SUBSET Patterns
    BY <1>2 DEF Policies
  <1>4. /\ e.clock \in Bools \cup {Unset} /\ e.limit \in Limits \cup {Unset}
        /\ e.env \in (SUBSET Patterns) \cup {Unset}
    BY FilesAre
  <1>5. Or(e.clock, b.clock) \in Bools /\ Or(e.env, b.env) \in SUBSET Patterns
    BY <1>3, <1>4 DEF Or
  <1>6. Or(e.limit, b.limit) \in Limits \ {0}
    BY <1>3, <1>4 DEF Or
  <1>7. /\ p = [clock |-> Or(e.clock, b.clock), limit |-> Or(e.limit, b.limit), env |-> Or(e.env, b.env)]
        /\ p.clock = Or(e.clock, b.clock) /\ p.limit = Or(e.limit, b.limit) /\ p.env = Or(e.env, b.env)
    BY <1>1 DEF Edited
  <1>8. p \in Policies
    BY <1>5, <1>6, <1>7 DEF Policies
  <1> QED
    BY <1>1, <1>2, <1>7, <1>8

\* The file to be written.
LEMMA FreshIsPolicy ==
  ASSUME PolicyInv, stage \in {"truncate", "write"}
  PROVE  fresh \in Policies
  <1>0. task \in Tasks /\ entry.sandbox \in Files \cup {Absent}
    BY DEF PolicyInv
  <1>1. CASE task.kind \in {"sandbox", "all"}
    BY <1>0, <1>1, TasksAre, PresetsArePolicies DEF PolicyInv
  <1>2. CASE task.kind = "set"
    <2>1. /\ BaseOf(entry.sandbox).limit # 0 /\ task.edit.limit # 0 /\ task.edit \in Files
          /\ fresh = Edited(BaseOf(entry.sandbox), task.edit)
      BY <1>0, <1>2, TasksAre DEF PolicyInv
    <2> QED
      BY <1>0, <2>1, EditedIsPolicy
  <1> QED
    BY <1>1, <1>2 DEF PolicyInv

LEMMA PolicyInit == SetupInit => PolicyInv
  <1>1. HandWritten \subseteq Files \cup {Absent}
    BY SetupAssumption
  <1> QED
    BY <1>1 DEF SetupInit, PolicyInv

LEMMA PolicyInductive == PolicyInv /\ [SetupNext]_setupVars => PolicyInv'
  <1> SUFFICES ASSUME PolicyInv, [SetupNext]_setupVars PROVE PolicyInv'
    OBVIOUS
  <1>0. Truncated \in Files
    BY TruncatedFile
  <1>1. CASE UNCHANGED setupVars
    BY <1>1 DEF PolicyInv, setupVars
  <1>2. ASSUME stage' = "idle", sandbox' = sandbox PROVE PolicyInv'
    BY <1>2 DEF PolicyInv
  <1>3. CASE StartTask
    <2>1. PICK c \in Tasks : task' = c /\ stage' = IF c.kind = "set" THEN "edit"
                             ELSE IF c.kind = "sandbox" THEN "policy" ELSE "load"
      BY <1>3 DEF StartTask
    <2>2. c.kind \in {"registry", "all", "sandbox", "set"}
      BY TasksAre
    <2>3. sandbox' = sandbox /\ entry'.sandbox = sandbox
      BY <1>3 DEF StartTask, policy
    <2> QED
      BY <2>1, <2>2, <2>3 DEF PolicyInv
  <1>4. CASE LoadRegistries \/ RemoveOne \/ Consent \/ Install \/ Rank
    <2>1. /\ stage \in {"load", "remove", "detect", "add", "rank"}
          /\ stage' \in {"remove", "detect", "add", "rank"}
          /\ UNCHANGED <<task, entry, sandbox>>
      BY <1>4 DEF LoadRegistries, RemoveOne, Consent, Install, Rank, Goto, policy
    <2> QED
      BY <2>1 DEF PolicyInv
  <1>5. CASE AlreadyConfigured \/ DeclineRegistries \/ Installed
    <2>1. stage \in {"detect", "add"} /\ sandbox' = sandbox /\ Proceed
      BY <1>5 DEF AlreadyConfigured, DeclineRegistries, Installed
    <2>2. CASE task.kind = "all"
      <3>1. stage' = "policy" /\ UNCHANGED <<task, entry>>
        BY <2>1, <2>2 DEF Proceed, Goto
      <3> QED
        BY <2>1, <2>2, <3>1 DEF PolicyInv
    <2>3. CASE task.kind # "all"
      BY <1>2, <2>1, <2>3 DEF Proceed, Exit
    <2> QED
      BY <2>2, <2>3
  <1>6. CASE RefuseInstall \/ KeepPolicy \/ RefuseEdit \/ CutShort
    BY <1>2, <1>6 DEF RefuseInstall, KeepPolicy, RefuseEdit, CutShort, Exit
  <1>7. CASE ChoosePreset
    <2>1. /\ stage = "policy" /\ stage' = "truncate" /\ UNCHANGED <<task, entry, sandbox>>
          /\ fresh' = Preset(task.preset, Permitted)
      BY <1>7 DEF ChoosePreset, Goto
    <2> QED
      BY <2>1 DEF PolicyInv
  <1>8. CASE Edit
    <2>1. /\ stage = "edit" /\ stage' = "truncate" /\ UNCHANGED <<task, entry, sandbox>>
          /\ fresh' = Edited(Base, task.edit) /\ Base.limit # 0 /\ task.edit.limit # 0
      BY <1>8 DEF Edit, EditRefused, Goto
    <2>2. sandbox = entry.sandbox
      BY <2>1 DEF PolicyInv
    <2>3. Base = BaseOf(entry.sandbox)
      BY <2>2 DEF Base, BaseOf
    <2> QED
      BY <2>1, <2>3 DEF PolicyInv
  <1>9. CASE TruncatePolicy
    <2>1. /\ stage = "truncate" /\ stage' = "write" /\ sandbox' = Truncated
          /\ UNCHANGED <<task, entry, fresh>>
      BY <1>9 DEF TruncatePolicy, Goto
    <2> QED
      BY <1>0, <2>1 DEF PolicyInv
  <1>10. CASE WritePolicy
    <2>1. stage = "write" /\ stage' = "idle" /\ sandbox' = fresh
      BY <1>10 DEF WritePolicy, Exit
    <2>2. fresh \in Files
      BY <2>1, FreshIsPolicy, PolicyInForce
    <2> QED
      BY <2>1, <2>2 DEF PolicyInv
  <1> QED
    BY <1>1, <1>3, <1>4, <1>5, <1>6, <1>7, <1>8, <1>9, <1>10 DEF SetupNext

LEMMA PolicyHolds == SetupSpec => []PolicyInv
  BY PolicyInit, PolicyInductive, PTL DEF SetupSpec

\* What a command of whatever kind writes, whole or cut short between fs::write's
\* truncation and its write, lets no run do what it could not do before and the
\* command does not name.
THEOREM NothingIsGrantedUnasked == SetupSpec => NoUnaskedGrant
  <1>1. ASSUME PolicyInv, [SetupNext]_setupVars
        PROVE  [sandbox' # sandbox =>
                  Grants(InForce(sandbox', Absent)) \subseteq
                    Grants(InForce(entry.sandbox, Absent)) \cup Asked
                      \cup (IF task.kind = "set" /\ entry.sandbox = Absent
                            THEN {"clock"} ELSE {})]_setupVars
    <2> SUFFICES ASSUME SetupNext, sandbox' # sandbox
                 PROVE  Grants(InForce(sandbox', Absent)) \subseteq
                          Grants(InForce(entry.sandbox, Absent)) \cup Asked
                            \cup (IF task.kind = "set" /\ entry.sandbox = Absent
                                  THEN {"clock"} ELSE {})
      BY <1>1
    <2>1. TruncatePolicy \/ WritePolicy
      BY DEF SetupNext, StartTask, LoadRegistries, RemoveOne, AlreadyConfigured, DeclineRegistries,
             Consent, Install, RefuseInstall, Rank, Installed, KeepPolicy, ChoosePreset,
             RefuseEdit, Edit, CutShort, policy
    <2>2. CASE TruncatePolicy
      <3>1. InForce(sandbox', Absent) = ZeroAuthorization
        BY <2>2, TruncatedFile DEF TruncatePolicy
      <3>2. Grants(ZeroAuthorization) = {}
        BY DEF Grants, ZeroAuthorization
      <3> QED
        BY <3>1, <3>2
    <2>3. CASE WritePolicy
      <3>1. stage = "write" /\ sandbox' = fresh
        BY <2>3 DEF WritePolicy
      <3>2. fresh \in Policies
        BY <1>1, <3>1, FreshIsPolicy
      <3>3. InForce(sandbox', Absent) = fresh
        BY <3>1, <3>2, PolicyInForce
      <3>4. task \in Tasks /\ entry.sandbox \in Files \cup {Absent}
        BY <1>1, <3>1 DEF PolicyInv
      <3>5. CASE task.kind \in {"sandbox", "all"}
        <4>1. fresh = Preset(task.preset, Permitted)
          BY <1>1, <3>1, <3>5 DEF PolicyInv
        <4>2. Asked = Grants(fresh)
          BY <3>5, <4>1 DEF Asked
        <4> QED
          BY <3>3, <4>2
      <3>6. CASE task.kind = "set"
        <4>1. PICK f, e, b : f = entry.sandbox /\ e = task.edit /\ b = BaseOf(f)
          OBVIOUS
        <4>2. /\ f \in Files \cup {Absent} /\ e \in Files /\ b.limit # 0 /\ e.limit # 0
              /\ fresh = Edited(b, e)
          BY <1>1, <3>1, <3>4, <3>6, <4>1, TasksAre DEF PolicyInv
        <4>3. /\ fresh.clock = Or(e.clock, b.clock) /\ fresh.env = Or(e.env, b.env)
              /\ f # Absent => InForce(f, Absent) = b
          BY <4>1, <4>2, EditedIsPolicy
        <4>4. Asked = LoadFile(e).env \cup (IF LoadFile(e).clock = "yes" THEN {"clock"} ELSE {})
          BY <3>6, <4>1 DEF Asked, Grants
        <4>5. LoadFile(e).env = Or(e.env, {}) /\ LoadFile(e).clock = Or(e.clock, "no")
          BY DEF LoadFile
        <4>6. f = Absent => b.env = {}
          BY <4>1 DEF BaseOf, Preset
        <4>7. f # Absent =>
                Grants(InForce(f, Absent)) = b.env \cup (IF b.clock = "yes" THEN {"clock"} ELSE {})
          BY <4>3 DEF Grants
        <4>8. fresh.env \subseteq Asked \cup b.env
          BY <4>3, <4>4, <4>5 DEF Or
        <4>9. fresh.clock = "yes" => "clock" \in Asked \/ b.clock = "yes"
          BY <4>3, <4>4, <4>5 DEF Or
        <4>10. Grants(fresh) = fresh.env \cup (IF fresh.clock = "yes" THEN {"clock"} ELSE {})
          BY DEF Grants
        <4> QED
          BY <3>3, <3>6, <4>1, <4>6, <4>7, <4>8, <4>9, <4>10
      <3> QED
        BY <1>1, <3>1, <3>5, <3>6 DEF PolicyInv
    <2> QED
      BY <2>1, <2>2, <2>3
  <1> QED
    BY <1>1, PolicyHolds, PTL DEF SetupSpec, NoUnaskedGrant

\* For every policy file and every edit, `set` leaves in force what it is not told:
\* the two readers fill in absent fields alike.
THEOREM SetKeepsWhatIsNotTold == SetupSpec => SetKeepsTheRest
  <1>1. ASSUME PolicyInv
        PROVE  [stage = "write" /\ sandbox' = fresh /\ task.kind = "set" /\ entry.sandbox # Absent
                  => \A field \in DOMAIN Truncated :
                       task.edit[field] = Unset =>
                         InForce(sandbox', Absent)[field] = InForce(entry.sandbox, Absent)[field]]_setupVars
    <2> SUFFICES ASSUME stage = "write", sandbox' = fresh, task.kind = "set", entry.sandbox # Absent,
                        NEW field \in DOMAIN Truncated, task.edit[field] = Unset
                 PROVE  InForce(sandbox', Absent)[field] = InForce(entry.sandbox, Absent)[field]
      OBVIOUS
    <2>1. PICK f, e, b : f = entry.sandbox /\ e = task.edit /\ b = BaseOf(f)
      OBVIOUS
    <2>2. /\ f \in Files \cup {Absent} /\ e \in Files /\ b.limit # 0 /\ e.limit # 0
          /\ fresh = Edited(b, e)
      BY <1>1, <2>1, TasksAre DEF PolicyInv
    <2>3. /\ fresh.clock = Or(e.clock, b.clock) /\ fresh.env = Or(e.env, b.env)
          /\ fresh.limit = Or(e.limit, b.limit) /\ fresh \in Policies
          /\ f # Absent => InForce(f, Absent) = b
      BY <2>1, <2>2, EditedIsPolicy
    <2>4. InForce(sandbox', Absent) = fresh
      BY <2>3, PolicyInForce
    <2>5. field \in {"clock", "limit", "env"}
      BY DEF Truncated
    <2>6. fresh[field] = b[field]
      <3>1. CASE field = "clock"
        BY <2>1, <2>3, <3>1 DEF Or
      <3>2. CASE field = "limit"
        BY <2>1, <2>3, <3>2 DEF Or
      <3>3. CASE field = "env"
        BY <2>1, <2>3, <3>3 DEF Or
      <3> QED
        BY <2>5, <3>1, <3>2, <3>3
    <2> QED
      BY <2>1, <2>3, <2>4, <2>6
  <1> QED
    BY <1>1, PolicyHolds, PTL DEF SetupSpec, SetKeepsTheRest
=============================================================================
