----------------------------- MODULE IterHelpers -----------------------------
(***************************************************************************)
(* it_sort_by, it_min_by, it_max_by, it_group_by, it_count_by, it_unique   *)
(* and it_unique_by (iter_helpers.rs).  Of an item only its value under    *)
(* the key matters, and an item that is returned is its place in the       *)
(* array.  The helpers that loop are recursive functions: what they have   *)
(* after so many items.                                                    *)
(***************************************************************************)
EXTENDS Integers, Sequences, FiniteSets, SequencesExt

\* Values by the way JSON writes them.  "missing": an item without the key, or that
\* is no object.  1 and 1.0 are one number to f64, as are two integers beyond 2^53.
FieldValues ==
  {"missing", "null", "true", "1", "1.0", "2", "\"1\"", "\"null\"", "[]", "[1]", "{}"}

\* OrderingKey: the rank of the type, then the order within it; all arrays are equal.
OrderingKey ==
  [v \in FieldValues |->
     CASE v \in {"missing", "null"} -> <<0, 0>>
       [] v = "true" -> <<1, 1>>
       [] v \in {"1", "1.0"} -> <<2, 1>> [] v = "2" -> <<2, 2>>
       [] v = "\"1\"" -> <<3, 1>> [] v = "\"null\"" -> <<3, 2>>
       [] v \in {"[]", "[1]"} -> <<4, 0>> [] v = "{}" -> <<5, 0>>]

Less(a, b) ==
  LET k == OrderingKey[a] l == OrderingKey[b]
  IN  k[1] < l[1] \/ (k[1] = l[1] /\ k[2] < l[2])

\* stringify_group_key: strings lose their quotes.
Bucket == [v \in FieldValues |-> CASE v = "missing" -> "null" [] v = "\"1\"" -> "1" [] v = "\"null\"" -> "null" [] OTHER -> v]

\* What tells values apart for it_unique_by.
Json == [v \in FieldValues |-> IF v = "missing" THEN "null" ELSE v]

\* The order asked for: ascending, or std::cmp::Reverse.
Ahead(reverse, a, b) == IF reverse THEN Less(b, a) ELSE Less(a, b)

\* Mutant: descending is ascending read backwards.
SoonerReversed(items, reverse, i, j) ==
  \/ Ahead(reverse, items[i], items[j])
  \/ ~Ahead(reverse, items[j], items[i]) /\ (IF reverse THEN j < i ELSE i < j)

\* A stable sort in both directions.
Sooner(items, reverse, i, j) ==
  \/ Ahead(reverse, items[i], items[j])
  \/ ~Ahead(reverse, items[j], items[i]) /\ i < j

\* In place k is the item that k - 1 others come before.
SortBy(items, reverse) ==
  [k \in DOMAIN items |->
     CHOOSE i \in DOMAIN items : Cardinality({j \in DOMAIN items : Sooner(items, reverse, j, i)}) = k - 1]

\* 0 for an empty array.
ExtremumBy(items, max) ==
  LET best[n \in 0 .. Len(items)] ==
        IF n = 0 THEN 0
        ELSE IF best[n - 1] = 0 \/ Ahead(max, items[n], items[best[n - 1]]) THEN n ELSE best[n - 1]
  IN  best[Len(items)]

\* A map in insertion order: `entry(k).or(empty)`.
Entry(map, k, empty) ==
  IF \E n \in DOMAIN map : map[n].key = k THEN map ELSE Append(map, [key |-> k, value |-> empty])

\* One turn of the loop of it_group_by, and of it_count_by.
Grouped(map, k, i) ==
  LET m == Entry(map, k, <<>>)
  IN  [n \in DOMAIN m |-> IF m[n].key = k THEN [key |-> k, value |-> Append(m[n].value, i)] ELSE m[n]]

Counted(map, k) ==
  LET m == Entry(map, k, 0)
  IN  [n \in DOMAIN m |-> IF m[n].key = k THEN [key |-> k, value |-> m[n].value + 1] ELSE m[n]]

GroupBy(items) ==
  LET groups[n \in 0 .. Len(items)] ==
        IF n = 0 THEN <<>> ELSE Grouped(groups[n - 1], Bucket[items[n]], n)
  IN  groups[Len(items)]

\* Counts with a conversion of its own to the same text.
CountBy(items) ==
  LET counts[n \in 0 .. Len(items)] ==
        IF n = 0 THEN <<>> ELSE Counted(counts[n - 1], Bucket[items[n]])
  IN  counts[Len(items)]

Kept(items, kept, i) ==
  IF \E n \in DOMAIN kept : Json[items[kept[n]]] = Json[items[i]] THEN kept ELSE Append(kept, i)

UniqueBy(items) ==
  LET kept[n \in 0 .. Len(items)] == IF n = 0 THEN <<>> ELSE Kept(items, kept[n - 1], n)
  IN  kept[Len(items)]
=============================================================================
