------------------------------ MODULE LruCache ------------------------------
(***************************************************************************)
(* The bounded cache of src/lru_cache.rs: a map of entries beside a queue  *)
(* of its keys, least recently used first.  Operators on a cache value;    *)
(* CompileCache is a program that uses them.                               *)
(***************************************************************************)
EXTENDS Naturals, Sequences, FiniteSets

CONSTANTS Keys, Values, Capacity

ASSUME CapacityAssumption == Capacity \in Nat \ {0}

\* LruCache::new
Empty == [entries |-> [k \in {} |-> k], order |-> <<>>]

Has(cache, k) == k \in DOMAIN cache.entries

\* A queue without its n-th element.
Without(q, n) == SubSeq(q, 1, n - 1) \o SubSeq(q, n + 1, Len(q))

\* The key moves to the back of the queue; a key at the back stays there.
\* Deviation: a promoted key leaves its old place behind as well.
PromoteKept(order, k) == IF order[Len(order)] = k THEN order ELSE Append(order, k)
Promote(order, k) ==
  IF order[Len(order)] = k THEN order
  ELSE LET at == CHOOSE n \in 1..Len(order) :
                   order[n] = k /\ \A m \in n + 1..Len(order) : order[m] # k
       IN  Append(Without(order, at), k)

\* What get() does to the cache on a hit.
TouchedNot(cache, k) == cache
Touched(cache, k) == [cache EXCEPT !.order = Promote(@, k)]

\* At capacity the front of the queue goes.
Evict(cache) ==
  [entries |-> [k \in DOMAIN cache.entries \ {cache.order[1]} |-> cache.entries[k]],
   order   |-> Tail(cache.order)]

Full(cache) == Cardinality(DOMAIN cache.entries) = Capacity
Room(cache) == IF Full(cache) THEN Evict(cache) ELSE cache

Put(entries, k, v) ==
  [q \in DOMAIN entries \cup {k} |-> IF q = k THEN v ELSE entries[q]]

Inserted(cache, k, v) ==
  IF Has(cache, k)
  THEN [entries |-> Put(cache.entries, k, v), order |-> Promote(cache.order, k)]
  ELSE [entries |-> Put(Room(cache).entries, k, v),
        order   |-> Append(Room(cache).order, k)]

\* The map and the queue agree: each key is queued exactly once.  The expect()s
\* of insert and promote rest on it.
WellFormed(cache) ==
  /\ cache = [entries |-> cache.entries, order |-> cache.order]
  /\ cache.entries \in [DOMAIN cache.entries -> Values]
  /\ cache.order \in Seq(Keys)
  /\ \A n \in 1..Len(cache.order) : cache.order[n] \in DOMAIN cache.entries
  /\ \A k \in DOMAIN cache.entries : \E n \in 1..Len(cache.order) : cache.order[n] = k
  /\ \A m, n \in 1..Len(cache.order) : cache.order[m] = cache.order[n] => m = n
  /\ Len(cache.order) <= Capacity
=============================================================================
