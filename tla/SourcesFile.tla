------------------------------ MODULE SourcesFile ------------------------------
(***************************************************************************)
(* What sources.toml says, and what the registry commands make of it       *)
(* (registry/config.rs).  A registry's name is its place in the alphabet:  *)
(* the maps of SourcesConfig are BTreeMaps, iterated in that order.        *)
(***************************************************************************)
EXTENDS Integers, FiniteSets

CONSTANTS
  Names,        \* names of registries, as numbers
  MaxRank,      \* ranks are of a width: 0 .. MaxRank
  Official, Examples, ExamplesRank,  \* what setup migrates, and to which rank
  Unranked, None

ASSUME SourcesAssumption ==
  /\ Names \subseteq Nat /\ IsFiniteSet(Names) /\ MaxRank \in Nat /\ ExamplesRank \in 0 .. MaxRank
  /\ {Official, Examples} \subseteq Names /\ Official # Examples
  /\ Unranked \notin Nat /\ None \notin Nat

Ranks == 0 .. MaxRank

\* `default`: the field of older versions.
Configs ==
  [sources : SUBSET Names, rank : [Names -> Ranks \cup {Unranked}],
   default : Names \cup {None}]

\* A file that is missing, or empty, is a configuration without registries.
Empty == [sources |-> {}, rank |-> [n \in Names |-> Unranked], default |-> None]

\* save_config never writes `default`.
Saved(c) == [c EXCEPT !.default = None]

\* load_config turns `default` into rank 0, whoever has it.
Migrated(c) ==
  IF c.default \in c.sources /\ c.rank[c.default] = Unranked
  THEN Saved([c EXCEPT !.rank[c.default] = 0])
  ELSE Saved(c)

\* ordered_sources: a is asked before b.
Before(c, a, b) ==
  \/ c.rank[a] # Unranked /\ c.rank[b] = Unranked
  \/ c.rank[a] # Unranked /\ c.rank[b] # Unranked /\ c.rank[a] < c.rank[b]
  \/ c.rank[a] = c.rank[b] /\ a < b

Distinct(c) ==
  \A a, b \in Names : a # b /\ c.rank[a] # Unranked => c.rank[a] # c.rank[b]

----------------------------------------------------------------------------
\* Commands, each on what it loaded

AddTo(c, n) == [c EXCEPT !.sources = @ \cup {n}]

RemoveFrom(c, n) == [c EXCEPT !.sources = @ \ {n}, !.rank[n] = Unranked]

ClearIn(c, n) == [c EXCEPT !.rank[n] = Unranked]

Holders(c, n, r) == {m \in Names \ {n} : c.rank[m] = r}

First(S, m) == m \in S /\ \A k \in S : m <= k

\* Mutant: a gap does not end the shift.
MakesWayAcrossGaps(c, n, r, m) ==
  m # n /\ c.rank[m] # Unranked /\ r <= c.rank[m]

\* Every rank from r to that of m is held: m makes way, and of those that share
\* a rank only the first.
MakesWay(c, n, r, m) ==
  /\ m # n /\ c.rank[m] # Unranked /\ r <= c.rank[m]
  /\ \A s \in r .. c.rank[m] : Holders(c, n, s) # {}
  /\ First(Holders(c, n, c.rank[m]), m)

\* u32 arithmetic of a release build: the last rank wraps around.
NextRank(r) == IF r = MaxRank THEN 0 ELSE r + 1

\* The loop of set_priority: over the other ranked registries by rank, ties by name,
\* with next_rank.  `left` is what it has not come to yet.
Others(c, n) == {m \in Names \ {n} : c.rank[m] # Unranked}

Sooner(c, a, b) == c.rank[a] < c.rank[b] \/ (c.rank[a] = c.rank[b] /\ a < b)

Turned(c, at) ==
  LET m == CHOOSE m \in at.left : \A k \in at.left \ {m} : Sooner(c, m, k)
      shifts == at.rank[m] = at.next
  IN  [rank |-> IF shifts THEN [at.rank EXCEPT ![m] = NextRank(at.next)] ELSE at.rank,
       next |-> IF shifts THEN NextRank(at.next) ELSE at.next,
       left |-> at.left \ {m}]

CascadeLoop(c, n, r) ==
  LET at[k \in Nat] == IF k = 0 THEN [rank |-> c.rank, next |-> r, left |-> Others(c, n)]
                       ELSE Turned(c, at[k - 1])
  IN  [c EXCEPT !.rank = [at[Cardinality(Others(c, n))].rank EXCEPT ![n] = r]]

\* Mutant: only the holder of the rank makes way.
CascadeOnce(c, n, r) ==
  [c EXCEPT !.rank = [m \in Names |->
     IF m = n THEN r
     ELSE IF c.rank[m] = r THEN NextRank(r) ELSE c.rank[m]]]

\* What the loop comes to (CascadeIsTheLoop).
Cascade(c, n, r) ==
  [c EXCEPT !.rank = [m \in Names |->
     IF m = n THEN r
     ELSE IF MakesWay(c, n, r, m) THEN NextRank(c.rank[m]) ELSE c.rank[m]]]

Swap(c, n, r) ==
  [c EXCEPT !.rank = [m \in Names |->
     IF m = n THEN r
     ELSE IF First(Holders(c, n, r), m) THEN c.rank[n] ELSE c.rank[m]]]

\* Mutant: --cascade is forgotten where there is a rank to swap.
SetPriorityBySwap(c, n, r, cascade) ==
  IF c.rank[n] = Unranked THEN Cascade(c, n, r) ELSE Swap(c, n, r)

SetPriority(c, n, r, cascade) ==
  IF cascade \/ c.rank[n] = Unranked THEN Cascade(c, n, r) ELSE Swap(c, n, r)

\* The shift of the last rank wraps around to the first.
Wraps(c, n, r, cascade) ==
  /\ cascade \/ c.rank[n] = Unranked
  /\ \E m \in Names : MakesWay(c, n, r, m) /\ c.rank[m] = MaxRank

\* `setup registry defaults` renames official, and ranks it without a cascade.
RenameOfficial(c) ==
  [c EXCEPT !.sources = (@ \ {Official}) \cup {Examples},
            !.rank[Official] = Unranked, !.rank[Examples] = ExamplesRank]
=============================================================================
