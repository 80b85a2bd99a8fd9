------------------------------- MODULE DotPath -------------------------------
(***************************************************************************)
(* dp_get, dp_has, dp_set and dp_delete (dotpath.rs) on JSON trees.  A     *)
(* path is the sequence of its segments; dp_get and dp_has walk the tree   *)
(* of the interpreter, dp_set and dp_delete a copy of it in JSON.  The     *)
(* walks are recursive functions of how many segments they have taken.     *)
(***************************************************************************)
EXTENDS Integers, Sequences

CONSTANTS
  Index,       \* segments that are i64 numbers, with the number
  FieldNames   \* segments that are not

ASSUME PathAssumption ==
  /\ Index \in [DOMAIN Index -> Int]
  /\ FieldNames \cap DOMAIN Index = {}

Segments == DOMAIN Index \cup FieldNames

Leaf(x) == [leaf |-> x]
Null == Leaf("null")
Array(s) == [items |-> s]
Object(f) == [fields |-> f]

IsArray(v) == "items" \in DOMAIN v
IsObject(v) == "fields" \in DOMAIN v

Items(v) == IF IsArray(v) THEN v.items ELSE <<>>
Fields(v) == IF IsObject(v) THEN v.fields ELSE [k \in {} |-> Null]

\* What is not there: neither array nor object, and no leaf.
Absent == [absent |-> TRUE]

\* The place of segment s in a sequence of length n; 0: it has none.
PlaceOf(s, n) ==
  LET i == IF Index[s] < 0 THEN n + Index[s] ELSE Index[s]
  IN  IF i \in 0 .. n - 1 THEN i + 1 ELSE 0

----------------------------------------------------------------------------
\* get_at_path_monty.  In an object a number is a key like any other.
Below(v, s) ==
  IF IsObject(v) /\ s \in DOMAIN v.fields THEN v.fields[s]
  ELSE IF IsArray(v) /\ s \in DOMAIN Index /\ PlaceOf(s, Len(v.items)) # 0
  THEN v.items[PlaceOf(s, Len(v.items))]
  ELSE Absent

Walk(v, path) ==
  LET at[n \in 0 .. Len(path)] == IF n = 0 THEN v ELSE Below(at[n - 1], path[n])
  IN  at

Get(v, path) == Walk(v, path)[Len(path)]

HasPath(v, path) == Get(v, path) # Absent

----------------------------------------------------------------------------
\* set_recursive

\* Mutant: the last item is the one before the last.
TargetBeforeLast(s, n) ==
  IF Index[s] >= 0 THEN Index[s] + 1 ELSE IF n + Index[s] < 1 THEN 1 ELSE n + Index[s]

\* Where dp_set writes for index s: below the first item it is the first.
Target(s, n) ==
  IF Index[s] >= 0 THEN Index[s] + 1 ELSE IF n + Index[s] < 0 THEN 1 ELSE n + Index[s] + 1

\* What is written into: null where there is nothing yet.
Met(v, s) ==
  IF s \in DOMAIN Index
  THEN IF Target(s, Len(Items(v))) <= Len(Items(v)) THEN Items(v)[Target(s, Len(Items(v)))] ELSE Null
  ELSE IF s \in DOMAIN Fields(v) THEN Fields(v)[s] ELSE Null

\* What is not the container the segment asks for is replaced by one.
Written(v, s, x) ==
  IF s \in DOMAIN Index
  THEN LET items == Items(v) at == Target(s, Len(items))
       IN  Array([i \in 1 .. (IF at > Len(items) THEN at ELSE Len(items)) |->
                    IF i = at THEN x ELSE IF i <= Len(items) THEN items[i] ELSE Null])
  ELSE Object([k \in DOMAIN Fields(v) \cup {s} |-> IF k = s THEN x ELSE Fields(v)[k]])

Descent(v, path) ==
  LET at[n \in 0 .. Len(path)] == IF n = 0 THEN v ELSE Met(at[n - 1], path[n])
  IN  at

\* What has become of the value so many segments above the end of the path.
Rewritten(v, path, x) ==
  LET N == Len(path)
      new[n \in 0 .. N] ==
        IF n = 0 THEN x ELSE Written(Descent(v, path)[N - n], path[N - n + 1], new[n - 1])
  IN  new

Set(v, path, x) == Rewritten(v, path, x)[Len(path)]

----------------------------------------------------------------------------
\* delete_recursive.  In an object a number is nothing.
Child(v, s) ==
  IF s \in DOMAIN Index
  THEN IF PlaceOf(s, Len(Items(v))) = 0 THEN Absent ELSE Items(v)[PlaceOf(s, Len(Items(v)))]
  ELSE IF s \in DOMAIN Fields(v) THEN Fields(v)[s] ELSE Absent

WithoutChild(v, s) ==
  IF s \in DOMAIN Index
  THEN LET at == PlaceOf(s, Len(v.items))
       IN  Array([j \in 1 .. Len(v.items) - 1 |-> IF j < at THEN v.items[j] ELSE v.items[j + 1]])
  ELSE Object([k \in DOMAIN v.fields \ {s} |-> v.fields[k]])

Replaced(v, s, x) ==
  IF s \in DOMAIN Index
  THEN Array([v.items EXCEPT ![PlaceOf(s, Len(v.items))] = x])
  ELSE Object([v.fields EXCEPT ![s] = x])

Approach(v, path) ==
  LET at[n \in 0 .. Len(path)] == IF n = 0 THEN v ELSE Child(at[n - 1], path[n])
  IN  at

\* As Rewritten: the value at the path goes, and where the path leads nowhere nothing
\* changes.
Deleted(v, path) ==
  LET N == Len(path)
      new[n \in 0 .. N] ==
        LET w == Approach(v, path)[N - n] s == path[N - n + 1]
        IN  IF n = 0 THEN Absent
            ELSE IF Child(w, s) = Absent THEN w
            ELSE IF n = 1 THEN WithoutChild(w, s) ELSE Replaced(w, s, new[n - 1])
  IN  new

Delete(v, path) == Deleted(v, path)[Len(path)]
=============================================================================
