---------------------------- MODULE CompileCache ----------------------------
(***************************************************************************)
(* The process-wide caches of compiled things built on LruCache: regexes   *)
(* (compile_regex, src/regex.rs), templates (get_or_compile_env,           *)
(* src/template.rs) and HTTP clients (build_client, src/http.rs).  A       *)
(* behaviour is about one of them.                                         *)
(*                                                                         *)
(* A regex is compiled between two holds of the cache's mutex, so other    *)
(* threads of a program that uses the library get in between; the others   *)
(* hold the mutex while they compile.  A template is stored under a hash   *)
(* of its source, with the source.                                         *)
(***************************************************************************)
EXTENDS LruCache

CONSTANTS
  Callers,    \* threads
  Sources,    \* patterns, template texts, client options
  Invalid,    \* sources that do not compile
  Hash,       \* the hash of a source
  None

ASSUME CompileAssumption ==
  /\ Invalid \subseteq Sources
  /\ Hash \in [Sources -> Keys] /\ Sources \subseteq Keys
  /\ Sources \subseteq Values /\ None \notin Sources

VARIABLES
  kind,     \* "regex", "template" or "http"
  cache,
  want,     \* the source a caller asked for
  pc,       \* "idle" or "compiling" (a regex, outside the mutex)
  got,      \* what the caller's last request returned: a source or "error"
  recency   \* history: for every key ever used, the keys used since its last use

vars == <<kind, cache, want, pc, got, recency>>

Init ==
  /\ kind \in {"regex", "template", "http"}
  /\ cache = Empty
  /\ want = [c \in Callers |-> None]
  /\ pc = [c \in Callers |-> "idle"]
  /\ got = [c \in Callers |-> None]
  /\ recency = [k \in {} |-> {}]

KeyOf(s) == IF kind = "template" THEN Hash[s] ELSE s

AfterUse(rec, k) == [q \in DOMAIN rec \cup {k} |-> IF q = k THEN {} ELSE rec[q] \cup {k}]
Used(k) == AfterUse(recency, k)

\* A hit: the template cache compares the source it finds with the one wanted.
\* Deviation: it trusts the hash.
HitByHash(s) == Has(cache, KeyOf(s))
Hit(s) ==
  /\ Has(cache, KeyOf(s))
  /\ kind = "template" => cache.entries[KeyOf(s)] = s

\* get() promotes what it finds, wanted or not.
AfterGet(s) == IF Has(cache, KeyOf(s)) THEN Touched(cache, KeyOf(s)) ELSE cache
UsedByGet(s) == IF Has(cache, KeyOf(s)) THEN Used(KeyOf(s)) ELSE recency

Answer(c, s, a) ==
  /\ want' = [want EXCEPT ![c] = s]
  /\ got' = [got EXCEPT ![c] = a]

Lookup(c, s) ==
  /\ pc[c] = "idle" /\ Hit(s)
  /\ cache' = AfterGet(s) /\ recency' = Used(KeyOf(s))
  /\ Answer(c, s, cache.entries[KeyOf(s)])
  /\ UNCHANGED <<kind, pc>>

\* Templates and clients are compiled and stored under the lookup's lock.
CompileLocked(c, s) ==
  /\ pc[c] = "idle" /\ ~Hit(s) /\ kind # "regex" /\ s \notin Invalid
  /\ cache' = Inserted(AfterGet(s), KeyOf(s), s)
  /\ recency' = Used(KeyOf(s))
  /\ Answer(c, s, s)
  /\ UNCHANGED <<kind, pc>>

CompileLockedFails(c, s) ==
  /\ pc[c] = "idle" /\ ~Hit(s) /\ kind # "regex" /\ s \in Invalid
  /\ cache' = AfterGet(s) /\ recency' = UsedByGet(s)
  /\ Answer(c, s, "error")
  /\ UNCHANGED <<kind, pc>>

\* A regex that is not there is compiled outside the lock.
Miss(c, s) ==
  /\ pc[c] = "idle" /\ ~Hit(s) /\ kind = "regex"
  /\ pc' = [pc EXCEPT ![c] = "compiling"]
  /\ Answer(c, s, None)
  /\ UNCHANGED <<kind, cache, recency>>

Store(c) ==
  /\ pc[c] = "compiling" /\ want[c] \notin Invalid
  /\ cache' = Inserted(cache, KeyOf(want[c]), want[c])
  /\ recency' = Used(KeyOf(want[c]))
  /\ pc' = [pc EXCEPT ![c] = "idle"]
  /\ Answer(c, want[c], want[c])
  /\ UNCHANGED kind

CompileFails(c) ==
  /\ pc[c] = "compiling" /\ want[c] \in Invalid
  /\ pc' = [pc EXCEPT ![c] = "idle"]
  /\ Answer(c, want[c], "error")
  /\ UNCHANGED <<kind, cache, recency>>

Next ==
  \E c \in Callers :
    \/ \E s \in Sources : \/ Lookup(c, s) \/ Miss(c, s)
                          \/ CompileLocked(c, s) \/ CompileLockedFails(c, s)
    \/ Store(c) \/ CompileFails(c)

Spec == Init /\ [][Next]_vars

----------------------------------------------------------------------------
\* Properties

\* The map and the queue of keys agree whatever the callers interleave, so that
\* neither expect() of insert nor of promote can fail, and the cache never holds
\* more than its capacity (lru_cache.rs:43-75).
CacheWellFormed == WellFormed(cache)

\* lru_cache.rs:7: eviction "can only change the hit rate, never observable
\* results".  A caller gets what its own source compiles to, or the error if it
\* does not, through evictions, hash collisions and others' insertions.
Lossless ==
  \A c \in Callers : got[c] # None =>
    got[c] = IF want[c] \in Invalid THEN "error" ELSE want[c]

\* The queue has the keys in the order of their last use, and only a full cache has
\* let go of any, each of which was used longer ago than all that it holds: what is
\* evicted is always the least recently used entry, whoever used it, whether a use
\* was a hit, an insertion or a collision (lru_cache.rs:29-75).
Later(rec, a, b) == a \in rec[b] /\ b \notin rec[a]
Ranked(order, rec) ==
  /\ \A n \in 1..Len(order) : order[n] \in DOMAIN rec
  /\ \A m, n \in 1..Len(order) : m < n => Later(rec, order[n], order[m])
  /\ \A k \in DOMAIN rec \ {order[n] : n \in 1..Len(order)} :
       Len(order) = Capacity /\ \A n \in 1..Len(order) : Later(rec, order[n], k)
EvictsLeastRecent == Ranked(cache.order, recency)
=============================================================================
