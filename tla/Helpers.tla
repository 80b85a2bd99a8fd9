------------------------------- MODULE Helpers -------------------------------
(***************************************************************************)
(* A mold asks a helper and reads what it answers: IterHelpers on an       *)
(* array, DotPath on a tree and a path.                                    *)
(***************************************************************************)
EXTENDS IterHelpers, DotPath

CONSTANTS
  MaxItems,  \* bound: length of an array
  Trees,
  MaxPath,   \* bound: length of a path
  NoAnswer

\* Every part of a tree is one.
ASSUME HelpersAssumption ==
  /\ MaxItems \in Nat /\ MaxPath \in Nat
  /\ Null \in Trees
  /\ \A t \in Trees :
       \/ t \in [leaf : STRING]
       \/ t \in [items : Seq(Trees)]
       \/ \E K \in SUBSET Segments : t \in [fields : [K -> Trees]]

VARIABLES ask, answer

helpersVars == <<ask, answer>>

Paths == SeqOf(Segments, MaxPath)
New == Leaf("new")

HelpersInit ==
  /\ answer = NoAnswer
  /\ \/ ask \in [items : SeqOf(FieldValues, MaxItems)]
     \/ ask \in [data : Trees, path : Paths]

AskItems ==
  /\ answer = NoAnswer /\ "items" \in DOMAIN ask
  /\ LET items == ask.items
     IN  answer' = [sorted |-> SortBy(items, FALSE), descending |-> SortBy(items, TRUE),
                    min |-> ExtremumBy(items, FALSE), max |-> ExtremumBy(items, TRUE),
                    groups |-> GroupBy(items), counts |-> CountBy(items), unique |-> UniqueBy(items)]
  /\ UNCHANGED ask

\* dp_delete refuses the empty path.
AskPath ==
  /\ answer = NoAnswer /\ "path" \in DOMAIN ask
  /\ answer' = [get |-> Get(ask.data, ask.path), set |-> Set(ask.data, ask.path, New),
                delete |-> IF ask.path = <<>> THEN ask.data ELSE Delete(ask.data, ask.path)]
  /\ UNCHANGED ask

HelpersNext == AskItems \/ AskPath

HelpersSpec == HelpersInit /\ [][HelpersNext]_helpersVars

----------------------------------------------------------------------------
\* Properties

Heads(first, order) == IF order = <<>> THEN first = 0 ELSE first = Head(order)

CountsAreGroups ==
  LET g == answer.groups c == answer.counts
  IN  /\ Len(g) = Len(c)
      /\ \A n \in DOMAIN g : g[n].key = c[n].key /\ Len(g[n].value) = c[n].value

\* Taken apart by key the items keep their order, and each is in one group.
GroupsPartition ==
  LET g == answer.groups
  IN  /\ \A i \in DOMAIN ask.items : Cardinality({n \in DOMAIN g : i \in Range(g[n].value)}) = 1
      /\ \A n \in DOMAIN g : \A i, j \in DOMAIN g[n].value : i < j => g[n].value[i] < g[n].value[j]
      /\ \A n, k \in DOMAIN g : n < k => Head(g[n].value) < Head(g[k].value)

UniqueHeadsGroups ==
  LET kept == Range(answer.unique)
  IN  \A n \in DOMAIN answer.groups :
        LET group == answer.groups[n].value
        IN  /\ Head(group) \in kept
            /\ Cardinality(kept \cap Range(group)) = Cardinality({Json[ask.items[i]] : i \in Range(group)})

\* The helpers agree where several of them answer the same question, ties, missing
\* fields, values of several types and values that are only written alike included:
\* min_by and max_by return the first item of it_sort_by ascending and descending,
\* it_count_by has the keys of it_group_by, in its order, with the sizes of its groups,
\* and it_unique_by keeps of each group its first item and one per distinct value.
IterHelpersAgree ==
  answer # NoAnswer /\ "items" \in DOMAIN ask =>
    /\ Heads(answer.min, answer.sorted) /\ Heads(answer.max, answer.descending)
    /\ CountsAreGroups /\ GroupsPartition /\ UniqueHeadsGroups

Prefix(p, q) == Len(p) <= Len(q) /\ \A i \in DOMAIN p : p[i] = q[i]

\* Along the path every index meets an array, or nothing yet, and every key an object.
Fits(v, path) ==
  \A n \in DOMAIN path :
    LET w == Descent(v, path)[n - 1]
    IN  w = Null \/ IF path[n] \in DOMAIN Index THEN IsArray(w) ELSE IsObject(w)

\* An index from the end that lies before the first item, of an empty array -2.
FallsOff(v, path) ==
  \E n \in DOMAIN path :
    LET size == Len(Items(Descent(v, path)[n - 1]))
    IN  /\ path[n] \in DOMAIN Index /\ Index[path[n]] < 0
        /\ size + Index[path[n]] < (IF size = 0 THEN -1 ELSE 0)

\* A number that names a field: dp_get takes it for a key, dp_set and dp_delete do not.
NumberedField(v, path) ==
  \E n \in DOMAIN path :
    LET w == Walk(v, path)[n - 1]
    IN  path[n] \in DOMAIN Index /\ IsObject(w) /\ path[n] \in DOMAIN w.fields

\* The path with its places instead of its indices, as dp_set finds them.
Located(v, path) ==
  [n \in DOMAIN path |->
     IF path[n] \in DOMAIN Index
     THEN [place |-> Target(path[n], Len(Items(Descent(v, path)[n - 1])))]
     ELSE [key |-> path[n]]]

FromStart == {p \in Paths : \A i \in DOMAIN p : p[i] \in DOMAIN Index => Index[p[i]] >= 0}

\* What dp_set has written dp_get reads at the same path, unless an index from the end
\* falls off the array; where the containers are what the path takes them for, dp_set
\* changes nothing beside the path; and dp_delete changes the data exactly where dp_has
\* finds something, unless a number names a field of an object.
PathHelpersAgree ==
  answer # NoAnswer /\ "path" \in DOMAIN ask =>
    /\ FallsOff(ask.data, ask.path) \/ Get(answer.set, ask.path) = New
    /\ Fits(ask.data, ask.path) =>
         \A q \in FromStart :
           LET here == Located(ask.data, ask.path) there == Located(ask.data, q)
           IN  HasPath(ask.data, q) /\ ~Prefix(here, there) /\ ~Prefix(there, here) =>
                 Get(answer.set, q) = Get(ask.data, q)
    /\ ask.path # <<>> /\ ~NumberedField(ask.data, ask.path) =>
         ((answer.delete # ask.data) <=> (answer.get # Absent))
=============================================================================
