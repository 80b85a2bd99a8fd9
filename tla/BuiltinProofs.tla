---------------------------- MODULE BuiltinProofs ----------------------------
(***************************************************************************)
(* What molds call without leaving the program.  The caches of compiled    *)
(* objects: the map and the queue stay together for every capacity, the    *)
(* caches return what was asked for, and what they evict is the least      *)
(* recently used entry.  The iteration and path helpers: they agree on     *)
(* every array, tree and path, of whatever size.                           *)
(***************************************************************************)
EXTENDS CompileCache, Helpers, FunctionTheorems, FiniteSetTheorems, SequenceTheorems, Iteration, TLAPS

\* Part 1: the caches of compiled objects.

----------------------------------------------------------------------------
\* The operators of LruCache.

\* The map holds as many entries as the queue has keys, so the two capacity
\* checks (of the map) and limits (of the queue) are the same.
LEMMA SizeIsLength ==
  ASSUME NEW lru, WellFormed(lru)
  PROVE  Cardinality(DOMAIN lru.entries) = Len(lru.order)
  <1> DEFINE n == Len(lru.order)
             f == [m \in 1..n |-> lru.order[m]]
             D == DOMAIN lru.entries
  <1>1. n \in Nat
    BY DEF WellFormed
  <1>2. f \in Bijection(1..n, D)
    BY DEF WellFormed, Bijection, Injection, Surjection, IsInjective
  <1>3. IsFiniteSet(1..n) /\ Cardinality(1..n) = n
    BY <1>1, FS_Interval
  <1> HIDE DEF n, f, D
  <1>4. Cardinality(D) = Cardinality(1..n)
    BY <1>2, <1>3, FS_Bijection DEF ExistsBijection
  <1> QED
    BY <1>3, <1>4 DEF n, D

\* Taking one element out of a queue keeps the others, in their order.
LEMMA WithoutProperties ==
  ASSUME NEW S, NEW q \in Seq(S), NEW n \in 1..Len(q)
  PROVE  /\ Without(q, n) \in Seq(S)
         /\ Len(Without(q, n)) = Len(q) - 1
         /\ \A m \in 1..Len(q) - 1 :
              Without(q, n)[m] = IF m < n THEN q[m] ELSE q[m + 1]
  <1> DEFINE front == SubSeq(q, 1, n - 1)
             back  == SubSeq(q, n + 1, Len(q))
  <1>1. /\ front \in Seq(S) /\ Len(front) = n - 1
        /\ \A m \in 1..n - 1 : front[m] = q[m]
    BY SubSeqProperties
  <1>2. /\ back \in Seq(S) /\ Len(back) = Len(q) - n
        /\ \A m \in 1..Len(q) - n : back[m] = q[n + m]
    BY SubSeqProperties
  <1> HIDE DEF front, back
  <1>3. /\ front \o back \in Seq(S) /\ Len(front \o back) = Len(front) + Len(back)
        /\ \A m \in 1..Len(front) + Len(back) : (front \o back)[m] =
             IF m <= Len(front) THEN front[m] ELSE back[m - Len(front)]
    BY <1>1, <1>2, ConcatProperties
  <1>4. Without(q, n) = front \o back
    BY DEF Without, front, back
  <1>5. Len(q) \in Nat /\ n \in Nat
    OBVIOUS
  <1>6. Len(front \o back) = Len(q) - 1
    BY <1>1, <1>2, <1>3, <1>5
  <1>7. ASSUME NEW m \in 1..Len(q) - 1
        PROVE  (front \o back)[m] = IF m < n THEN q[m] ELSE q[m + 1]
    <2>1. CASE m < n
      BY <1>1, <1>2, <1>3, <1>5, <2>1
    <2>2. CASE ~(m < n)
      <3>1. m - (n - 1) \in 1..Len(q) - n /\ n + (m - (n - 1)) = m + 1
        BY <1>5, <2>2
      <3>2. (front \o back)[m] = back[m - (n - 1)]
        BY <1>1, <1>2, <1>3, <1>5, <2>2
      <3> QED
        BY <1>2, <2>2, <3>1, <3>2
    <2> QED
      BY <2>1, <2>2
  <1> QED
    BY <1>3, <1>4, <1>6, <1>7

\* Promoting a queued key takes it from its place to the end of the queue.
LEMMA PromoteMoves ==
  ASSUME NEW q \in Seq(Keys), NEW k \in Keys,
         NEW a \in 1..Len(q), q[a] = k,
         \A m, n \in 1..Len(q) : q[m] = q[n] => m = n
  PROVE  \E at \in 1..Len(q) :
           /\ q[at] = k
           /\ Promote(q, k) \in Seq(Keys) /\ Len(Promote(q, k)) = Len(q)
           /\ Promote(q, k)[Len(q)] = k
           /\ \A m \in 1..Len(q) - 1 : Promote(q, k)[m] = IF m < at THEN q[m] ELSE q[m + 1]
  <1>0. Len(q) \in Nat \ {0}
    OBVIOUS
  <1>1. CASE q[Len(q)] = k
    <2>1. Promote(q, k) = q
      BY <1>1 DEF Promote
    <2>2. Len(q) \in 1..Len(q) /\ \A m \in 1..Len(q) - 1 : m < Len(q)
      BY <1>0
    <2> QED
      BY <1>1, <2>1, <2>2
  <1>2. CASE q[Len(q)] # k
    <2> DEFINE Place(n) == q[n] = k /\ \A m \in n + 1..Len(q) : q[m] # k
    <2>1. Place(a)
      OBVIOUS
    <2>2. PICK at : at = CHOOSE n \in 1..Len(q) : Place(n)
      OBVIOUS
    <2>3. at \in 1..Len(q) /\ q[at] = k
      BY <2>1, <2>2
    <2>4. Promote(q, k) = Append(Without(q, at), k)
      BY <1>2, <2>2 DEF Promote
    <2> HIDE DEF Place
    <2>5. /\ Without(q, at) \in Seq(Keys) /\ Len(Without(q, at)) = Len(q) - 1
          /\ \A m \in 1..Len(q) - 1 :
               Without(q, at)[m] = IF m < at THEN q[m] ELSE q[m + 1]
      BY <2>3, WithoutProperties
    <2>6. PICK w : w = Without(q, at)
      OBVIOUS
    <2>7. /\ Append(w, k) \in Seq(Keys) /\ Len(Append(w, k)) = Len(q) /\ Append(w, k)[Len(q)] = k
          /\ \A m \in 1..Len(q) - 1 : Append(w, k)[m] = w[m]
      BY <1>0, <2>5, <2>6
    <2> QED
      BY <2>3, <2>4, <2>5, <2>6, <2>7
  <1> QED
    BY <1>1, <1>2

\* Promoting a queued key permutes the queue.
LEMMA PromoteProperties ==
  ASSUME NEW q \in Seq(Keys), NEW k \in Keys,
         NEW a \in 1..Len(q), q[a] = k,
         \A m, n \in 1..Len(q) : q[m] = q[n] => m = n
  PROVE  /\ Promote(q, k) \in Seq(Keys)
         /\ Len(Promote(q, k)) = Len(q)
         /\ \A m \in 1..Len(q) : \E n \in 1..Len(q) : Promote(q, k)[m] = q[n]
         /\ \A n \in 1..Len(q) : \E m \in 1..Len(q) : Promote(q, k)[m] = q[n]
         /\ \A m, n \in 1..Len(q) : Promote(q, k)[m] = Promote(q, k)[n] => m = n
  <1>1. PICK at \in 1..Len(q) :
          /\ q[at] = k
          /\ Promote(q, k) \in Seq(Keys) /\ Len(Promote(q, k)) = Len(q)
          /\ Promote(q, k)[Len(q)] = k
          /\ \A m \in 1..Len(q) - 1 : Promote(q, k)[m] = IF m < at THEN q[m] ELSE q[m + 1]
    BY PromoteMoves
  <1> DEFINE r == Promote(q, k)
             L == Len(q)
  <1>2. L \in Nat \ {0} /\ at \in 1..L
    BY <1>1
  <1> DEFINE src == [m \in 1..L |-> IF m = L THEN at ELSE IF m < at THEN m ELSE m + 1]
  <1>3. ASSUME NEW m \in 1..L PROVE src[m] \in 1..L /\ r[m] = q[src[m]]
    <2>1. CASE m = L
      BY <1>1, <1>2, <2>1
    <2>2. CASE m # L
      BY <1>1, <1>2, <2>2
    <2> QED
      BY <2>1, <2>2
  <1>4. ASSUME NEW m \in 1..L, NEW n \in 1..L, src[m] = src[n] PROVE m = n
    BY <1>2, <1>4
  <1>5. ASSUME NEW n \in 1..L PROVE \E m \in 1..L : src[m] = n
    <2>1. CASE n = at
      <3>1. L \in 1..L /\ src[L] = n
        BY <1>2, <2>1
      <3> QED
        BY <3>1
    <2>2. CASE n < at
      <3>1. n \in 1..L /\ src[n] = n
        BY <1>2, <2>2
      <3> QED
        BY <3>1
    <2>3. CASE n > at
      <3>1. n - 1 \in 1..L /\ src[n - 1] = n
        BY <1>2, <2>3
      <3> QED
        BY <3>1
    <2> QED
      BY <1>2, <2>1, <2>2, <2>3
  <1>6. /\ \A m \in 1..L : src[m] \in 1..L /\ r[m] = q[src[m]]
        /\ \A m, n \in 1..L : src[m] = src[n] => m = n
        /\ \A n \in 1..L : \E m \in 1..L : src[m] = n
    BY <1>3, <1>4, <1>5
  <1> HIDE DEF r, src, L
  <1>7. /\ \A m \in 1..L : \E n \in 1..L : r[m] = q[n]
        /\ \A n \in 1..L : \E m \in 1..L : r[m] = q[n]
    <2>1. ASSUME NEW m \in 1..L PROVE \E n \in 1..L : r[m] = q[n]
      BY <1>6
    <2>2. ASSUME NEW n \in 1..L PROVE \E m \in 1..L : r[m] = q[n]
      <3>1. PICK m \in 1..L : src[m] = n
        BY <1>6
      <3>2. r[m] = q[n]
        BY <1>6, <3>1
      <3> QED
        BY <3>2
    <2> QED
      BY <2>1, <2>2
  <1>8. \A m, n \in 1..L : r[m] = r[n] => m = n
    <2>1. ASSUME NEW m \in 1..L, NEW n \in 1..L, r[m] = r[n] PROVE m = n
      <3>1. q[src[m]] = q[src[n]] /\ src[m] \in 1..L /\ src[n] \in 1..L
        BY <1>6, <2>1
      <3>2. src[m] = src[n]
        BY <3>1 DEF L
      <3> QED
        BY <1>6, <3>2
    <2> QED
      BY <2>1
  <1> QED
    BY <1>1, <1>7, <1>8 DEF r, L

\* A hit keeps the cache well formed.
LEMMA TouchedWellFormed ==
  ASSUME NEW lru, WellFormed(lru), NEW k \in Keys, Has(lru, k)
  PROVE  WellFormed(Touched(lru, k)) /\ Touched(lru, k).entries = lru.entries
  <1>1. /\ lru.order \in Seq(Keys) /\ \E n \in 1..Len(lru.order) : lru.order[n] = k
        /\ \A m, n \in 1..Len(lru.order) : lru.order[m] = lru.order[n] => m = n
    BY DEF WellFormed, Has
  <1> DEFINE p == Promote(lru.order, k)
  <1>2. Touched(lru, k) = [entries |-> lru.entries, order |-> p]
    BY DEF Touched, WellFormed
  <1>3. /\ p \in Seq(Keys) /\ Len(p) = Len(lru.order)
        /\ \A m \in 1..Len(p) : \E n \in 1..Len(p) : p[m] = lru.order[n]
        /\ \A n \in 1..Len(p) : \E m \in 1..Len(p) : p[m] = lru.order[n]
        /\ \A m, n \in 1..Len(p) : p[m] = p[n] => m = n
    <2> HIDE DEF p
    <2>1. /\ p \in Seq(Keys) /\ Len(p) = Len(lru.order)
          /\ \A m \in 1..Len(lru.order) :
               \E n \in 1..Len(lru.order) : p[m] = lru.order[n]
          /\ \A n \in 1..Len(lru.order) :
               \E m \in 1..Len(lru.order) : p[m] = lru.order[n]
          /\ \A m, n \in 1..Len(lru.order) : p[m] = p[n] => m = n
      <3>1. PICK a \in 1..Len(lru.order) : lru.order[a] = k
        BY <1>1
      <3> DEFINE q == lru.order
      <3>2. q \in Seq(Keys) /\ a \in 1..Len(q) /\ q[a] = k
            /\ \A m, n \in 1..Len(q) : q[m] = q[n] => m = n
        BY <1>1, <3>1
      <3> HIDE DEF q
      <3>3. /\ Promote(q, k) \in Seq(Keys)
            /\ Len(Promote(q, k)) = Len(q)
            /\ \A m \in 1..Len(q) : \E n \in 1..Len(q) : Promote(q, k)[m] = q[n]
            /\ \A n \in 1..Len(q) : \E m \in 1..Len(q) : Promote(q, k)[m] = q[n]
            /\ \A m, n \in 1..Len(q) : Promote(q, k)[m] = Promote(q, k)[n] => m = n
        BY <3>2, PromoteProperties, ZenonT(30)
      <3> QED
        BY <3>3 DEF p, q
    <2> QED
      BY <2>1, Zenon
  <1> HIDE DEF p
  <1>4. /\ Touched(lru, k).entries = lru.entries /\ Touched(lru, k).order = p
    BY <1>2
  <1>5. /\ \A n \in 1..Len(p) : p[n] \in DOMAIN lru.entries
        /\ \A e \in DOMAIN lru.entries : \E n \in 1..Len(p) : p[n] = e
    <2>1. ASSUME NEW e \in DOMAIN lru.entries PROVE \E n \in 1..Len(p) : p[n] = e
      <3>1. PICK n \in 1..Len(p) : e = lru.order[n]
        BY <1>3 DEF WellFormed
      <3>2. PICK m \in 1..Len(p) : p[m] = lru.order[n]
        BY <1>3
      <3> QED
        BY <3>1, <3>2
    <2>2. ASSUME NEW m \in 1..Len(p) PROVE p[m] \in DOMAIN lru.entries
      <3>1. PICK n \in 1..Len(p) : p[m] = lru.order[n]
        BY <1>3
      <3> QED
        BY <1>3, <3>1 DEF WellFormed
    <2> QED
      BY <2>1, <2>2
  <1>6. WellFormed([entries |-> lru.entries, order |-> p])
    <2> DEFINE t == [entries |-> lru.entries, order |-> p]
    <2>1. t.entries = lru.entries /\ t.order = p
      OBVIOUS
    <2>2. lru.entries \in [DOMAIN lru.entries -> Values] /\ Len(p) <= Capacity
      BY <1>3 DEF WellFormed
    <2>3. t = [entries |-> t.entries, order |-> t.order]
      BY <2>1
    <2> HIDE DEF t
    <2>4. WellFormed(t)
      BY <1>3, <1>5, <2>1, <2>2, <2>3 DEF WellFormed
    <2> QED
      BY <2>4 DEF t
  <1> QED
    BY <1>2, <1>4, <1>6
----------------------------------------------------------------------------
\* Without its front, a full cache is well formed and has room for one more.
LEMMA EvictWellFormed ==
  ASSUME NEW lru, WellFormed(lru), Len(lru.order) = Capacity
  PROVE  /\ WellFormed(Evict(lru)) /\ Len(Evict(lru).order) = Capacity - 1
         /\ DOMAIN Evict(lru).entries \subseteq DOMAIN lru.entries
         /\ \A k \in DOMAIN Evict(lru).entries :
              Evict(lru).entries[k] = lru.entries[k]
  <1> DEFINE q == lru.order
             t == Evict(lru)
             D == DOMAIN lru.entries
  <1>1. /\ q \in Seq(Keys) /\ q # <<>> /\ Len(q) \in Nat \ {0}
        /\ Tail(q) \in Seq(Keys) /\ Len(Tail(q)) = Len(q) - 1
        /\ \A n \in 1..Len(q) - 1 : Tail(q)[n] = q[n + 1]
        /\ \A n \in 1..Len(q) : q[n] \in D
        /\ \A k \in D : \E n \in 1..Len(q) : q[n] = k
        /\ \A m, n \in 1..Len(q) : q[m] = q[n] => m = n
    BY CapacityAssumption DEF WellFormed
  <1>2. /\ t = [entries |-> t.entries, order |-> t.order]
        /\ t.order = Tail(q)
        /\ t.entries = [k \in D \ {q[1]} |-> lru.entries[k]]
    BY DEF Evict
  <1>3. /\ \A n \in 1..Len(Tail(q)) : Tail(q)[n] \in D \ {q[1]}
        /\ \A k \in D \ {q[1]} : \E n \in 1..Len(Tail(q)) : Tail(q)[n] = k
    <2>1. ASSUME NEW k \in D \ {q[1]} PROVE \E n \in 1..Len(Tail(q)) : Tail(q)[n] = k
      <3>1. PICK n \in 1..Len(q) : k = q[n]
        BY <1>1
      <3>2. n - 1 \in 1..Len(Tail(q)) /\ Tail(q)[n - 1] = k
        BY <1>1, <3>1
      <3> QED
        BY <3>2
    <2>2. ASSUME NEW n \in 1..Len(Tail(q)) PROVE Tail(q)[n] \in D \ {q[1]}
      <3>1. /\ n + 1 \in 1..Len(q) /\ 1 \in 1..Len(q) /\ n + 1 # 1
            /\ Tail(q)[n] = q[n + 1]
        BY <1>1
      <3> QED
        BY <1>1, <3>1
    <2> QED
      BY <2>1, <2>2
  <1>4. \A m, n \in 1..Len(Tail(q)) : Tail(q)[m] = Tail(q)[n] => m = n
    BY <1>1
  <1>5. /\ DOMAIN t.entries = D \ {q[1]}
        /\ \A k \in D \ {q[1]} : t.entries[k] = lru.entries[k]
    BY <1>2
  <1>6. t.entries \in [DOMAIN t.entries -> Values]
    BY <1>2, <1>5 DEF WellFormed
  <1> HIDE DEF t
  <1>7. WellFormed(t)
    BY <1>1, <1>2, <1>3, <1>4, <1>5, <1>6, CapacityAssumption DEF WellFormed
  <1>8. Len(t.order) = Capacity - 1
    BY <1>1, <1>2
  <1> QED
    BY <1>5, <1>7, <1>8 DEF t

\* A cache with room takes a new key.
LEMMA AddWellFormed ==
  ASSUME NEW lru, WellFormed(lru), Len(lru.order) < Capacity,
         NEW k \in Keys, ~Has(lru, k), NEW v \in Values
  PROVE  WellFormed([entries |-> Put(lru.entries, k, v), order |-> Append(lru.order, k)])
  <1> DEFINE q == lru.order
             u == Append(q, k)
             D == DOMAIN lru.entries
             f == Put(lru.entries, k, v)
             t == [entries |-> f, order |-> u]
  <1>1. /\ q \in Seq(Keys) /\ Len(q) \in Nat
        /\ \A n \in 1..Len(q) : q[n] \in D
        /\ \A e \in D : \E n \in 1..Len(q) : q[n] = e
        /\ k \notin D
        /\ \A m, n \in 1..Len(q) : q[m] = q[n] => m = n
    BY DEF WellFormed, Has
  <1>2. /\ u \in Seq(Keys) /\ Len(u) = Len(q) + 1 /\ u[Len(q) + 1] = k
        /\ \A n \in 1..Len(q) : u[n] = q[n]
    BY <1>1
  <1>3. DOMAIN f = D \cup {k} /\ f \in [D \cup {k} -> Values]
    BY DEF Put, WellFormed
  <1>4. /\ \A n \in 1..Len(u) : u[n] \in D \cup {k}
        /\ \A e \in D \cup {k} : \E n \in 1..Len(u) : u[n] = e
    <2>1. ASSUME NEW e \in D \cup {k} PROVE \E n \in 1..Len(u) : u[n] = e
      <3>1. CASE e = k
        <4>1. Len(q) + 1 \in 1..Len(u) /\ u[Len(q) + 1] = e
          BY <1>1, <1>2, <3>1
        <4> QED
          BY <4>1
      <3>2. CASE e \in D
        <4>1. PICK n \in 1..Len(q) : e = q[n]
          BY <1>1, <3>2
        <4>2. n \in 1..Len(u) /\ u[n] = e
          BY <1>1, <1>2, <4>1
        <4> QED
          BY <4>2
      <3> QED
        BY <3>1, <3>2
    <2>2. ASSUME NEW n \in 1..Len(u) PROVE u[n] \in D \cup {k}
      BY <1>1, <1>2
    <2> QED
      BY <2>1, <2>2
  <1>5. \A m, n \in 1..Len(u) : u[m] = u[n] => m = n
    <2>1. ASSUME NEW m \in 1..Len(u), NEW n \in 1..Len(u), u[m] = u[n] PROVE m = n
      <3>1. CASE m \in 1..Len(q) /\ n \in 1..Len(q)
        BY <1>1, <1>2, <2>1, <3>1
      <3>2. CASE m = Len(q) + 1 \/ n = Len(q) + 1
        <4>1. \A j \in 1..Len(q) : u[j] # k
          BY <1>1, <1>2
        <4>2. u[m] = k /\ u[n] = k
          BY <1>2, <2>1, <3>2
        <4> QED
          BY <1>1, <1>2, <4>1, <4>2
      <3>3. /\ m \in 1..Len(q) \/ m = Len(q) + 1
            /\ n \in 1..Len(q) \/ n = Len(q) + 1
        BY <1>1, <1>2
      <3> QED
        BY <3>1, <3>2, <3>3
    <2> QED
      BY <2>1
  <1>6. t.entries = f /\ t.order = u /\ t = [entries |-> t.entries, order |-> t.order]
    OBVIOUS
  <1>7. Len(u) <= Capacity
    BY <1>1, <1>2, CapacityAssumption
  <1> HIDE DEF t, f, u
  <1>8. WellFormed(t)
    BY <1>2, <1>3, <1>4, <1>5, <1>6, <1>7 DEF WellFormed
  <1> QED
    BY <1>8 DEF t, f, u

\* insert() keeps the cache well formed, whether it replaces, fills or evicts.
LEMMA InsertedWellFormed ==
  ASSUME NEW lru, WellFormed(lru), NEW k \in Keys, NEW v \in Values
  PROVE  WellFormed(Inserted(lru, k, v))
  <1>1. CASE Has(lru, k)
    <2> DEFINE t == Touched(lru, k)
               w == [entries |-> Put(t.entries, k, v), order |-> t.order]
    <2>1. WellFormed(t) /\ t.entries = lru.entries
      BY <1>1, TouchedWellFormed
    <2>2. t.order = Promote(lru.order, k)
      BY DEF Touched, WellFormed
    <2>3. Inserted(lru, k, v) = w
      BY <1>1, <2>1, <2>2 DEF Inserted
    <2> HIDE DEF t
    <2>4. DOMAIN w.entries = DOMAIN t.entries /\ w.order = t.order
      BY <1>1, <2>1 DEF Put, Has
    <2>5. w.entries \in [DOMAIN w.entries -> Values]
      BY <2>1 DEF Put, WellFormed
    <2>6. w = [entries |-> w.entries, order |-> w.order]
      BY <2>4
    <2> HIDE DEF w
    <2>7. WellFormed(w)
      BY <2>1, <2>4, <2>5, <2>6 DEF WellFormed
    <2> QED
      BY <2>3, <2>7
  <1>2. CASE ~Has(lru, k)
    <2> DEFINE room == Room(lru)
    <2>1. WellFormed(room) /\ Len(room.order) < Capacity /\ ~Has(room, k)
      <3>1. Len(lru.order) \in Nat /\ Len(lru.order) <= Capacity
        BY DEF WellFormed
      <3>2. CASE Full(lru)
        <4>1. Len(lru.order) = Capacity
          BY <3>2, SizeIsLength DEF Full
        <4> QED
          BY <1>2, <3>2, <4>1, EvictWellFormed, CapacityAssumption DEF Room, Has
      <3>3. CASE ~Full(lru)
        <4>1. Len(lru.order) # Capacity
          BY <3>3, SizeIsLength DEF Full
        <4> QED
          BY <1>2, <3>1, <3>3, <4>1, CapacityAssumption DEF Room
      <3> QED
        BY <3>2, <3>3
    <2>2. Inserted(lru, k, v) =
            [entries |-> Put(room.entries, k, v), order |-> Append(room.order, k)]
      BY <1>2 DEF Inserted
    <2> HIDE DEF room
    <2> QED
      BY <2>1, <2>2, AddWellFormed
  <1> QED
    BY <1>1, <1>2

\* What a cache holds after an insertion it held before, but for the new entry.
LEMMA InsertedEntries ==
  ASSUME NEW lru, WellFormed(lru), NEW k \in Keys, NEW v \in Values
  PROVE  \A q \in DOMAIN Inserted(lru, k, v).entries :
           \/ q = k /\ Inserted(lru, k, v).entries[q] = v
           \/ q \in DOMAIN lru.entries /\ Inserted(lru, k, v).entries[q] = lru.entries[q]
  <1>1. CASE Has(lru, k)
    BY <1>1 DEF Inserted, Put, Has
  <1>2. CASE ~Has(lru, k) /\ Full(lru)
    <2>1. Len(lru.order) = Capacity
      BY <1>2, SizeIsLength DEF Full
    <2>2. Inserted(lru, k, v).entries = Put(Evict(lru).entries, k, v)
      BY <1>2 DEF Inserted, Room
    <2> QED
      BY <2>1, <2>2, EvictWellFormed DEF Put
  <1>3. CASE ~Has(lru, k) /\ ~Full(lru)
    BY <1>3 DEF Inserted, Room, Put
  <1> QED
    BY <1>1, <1>2, <1>3

----------------------------------------------------------------------------
\* The order of use.

\* A use of k changes nothing between two other keys, and puts k after all.
LEMMA UseKeepsOrder ==
  ASSUME NEW rec, NEW k, NEW a \in DOMAIN rec \ {k}, NEW b \in DOMAIN rec \ {k}
  PROVE  /\ Later(rec, a, b) => Later(AfterUse(rec, k), a, b)
         /\ Later(AfterUse(rec, k), k, b)
  <1>1. /\ AfterUse(rec, k)[a] = rec[a] \cup {k} /\ AfterUse(rec, k)[b] = rec[b] \cup {k}
        /\ AfterUse(rec, k)[k] = {}
    BY DEF AfterUse
  <1> QED
    BY <1>1 DEF Later

\* A queue that ends in the key just used is in the order of use if the rest is.
LEMMA UsedLastRanked ==
  ASSUME NEW rec, NEW k, NEW r, NEW L \in Nat \ {0}, Len(r) = L, r[L] = k,
         \A m \in 1..L - 1 : r[m] \in DOMAIN rec \ {k},
         \A m, n \in 1..L - 1 : m < n => Later(rec, r[n], r[m]),
         \A e \in DOMAIN rec \ {k} :
           (\A n \in 1..L - 1 : r[n] # e) =>
             L = Capacity /\ \A n \in 1..L - 1 : Later(rec, r[n], e)
  PROVE  Ranked(r, AfterUse(rec, k))
  <1> DEFINE after == AfterUse(rec, k)
  <1>1. DOMAIN after = DOMAIN rec \cup {k}
    BY DEF AfterUse
  <1>2. ASSUME NEW a \in DOMAIN rec \ {k}, NEW b \in DOMAIN rec \ {k}
        PROVE  (Later(rec, a, b) => Later(after, a, b)) /\ Later(after, k, b)
    BY UseKeepsOrder
  <1> HIDE DEF after
  <1>3. \A n \in 1..L : n = L \/ n \in 1..L - 1
    OBVIOUS
  <1>4. \A n \in 1..Len(r) : r[n] \in DOMAIN after
    BY <1>1, <1>3
  <1>5. ASSUME NEW m \in 1..L, NEW n \in 1..L, m < n PROVE Later(after, r[n], r[m])
    <2>1. m \in 1..L - 1
      BY <1>5
    <2>2. CASE n = L
      BY <1>2, <2>1, <2>2
    <2>3. CASE n \in 1..L - 1
      BY <1>2, <1>5, <2>1, <2>3
    <2> QED
      BY <1>3, <2>2, <2>3
  <1>6. ASSUME NEW e \in DOMAIN after \ {r[n] : n \in 1..Len(r)}
        PROVE  Len(r) = Capacity /\ \A n \in 1..Len(r) : Later(after, r[n], e)
    <2>1. L \in 1..L /\ 1..L - 1 \subseteq 1..L
      OBVIOUS
    <2>2. e \in DOMAIN rec \ {k} /\ \A n \in 1..L - 1 : r[n] # e
      BY <1>1, <2>1
    <2>3. L = Capacity /\ \A n \in 1..L - 1 : Later(rec, r[n], e)
      BY <2>2
    <2>4. ASSUME NEW n \in 1..L PROVE Later(after, r[n], e)
      <3>1. CASE n = L
        BY <1>2, <2>2, <3>1
      <3>2. CASE n \in 1..L - 1
        BY <1>2, <2>2, <2>3, <3>2
      <3> QED
        BY <1>3, <3>1, <3>2
    <2> QED
      BY <2>3, <2>4
  <1> QED
    BY <1>4, <1>5, <1>6 DEF Ranked, after

\* A hit keeps the queue in the order of use.
LEMMA PromotedRanked ==
  ASSUME NEW q \in Seq(Keys), NEW k \in Keys, NEW a \in 1..Len(q), q[a] = k,
         \A m, n \in 1..Len(q) : q[m] = q[n] => m = n,
         NEW rec, Ranked(q, rec)
  PROVE  Ranked(Promote(q, k), AfterUse(rec, k))
  <1>1. PICK at \in 1..Len(q) :
          /\ q[at] = k
          /\ Promote(q, k) \in Seq(Keys) /\ Len(Promote(q, k)) = Len(q)
          /\ Promote(q, k)[Len(q)] = k
          /\ \A m \in 1..Len(q) - 1 : Promote(q, k)[m] = IF m < at THEN q[m] ELSE q[m + 1]
    BY PromoteMoves
  <1> DEFINE r == Promote(q, k)
             L == Len(q)
             from == [m \in 1..L - 1 |-> IF m < at THEN m ELSE m + 1]
  <1>2. L \in Nat \ {0} /\ at \in 1..L
    BY <1>1
  <1>3. ASSUME NEW m \in 1..L - 1
        PROVE  from[m] \in 1..L /\ from[m] # at /\ r[m] = q[from[m]]
    BY <1>1, <1>2
  <1>4. ASSUME NEW m \in 1..L - 1, NEW n \in 1..L - 1, m < n PROVE from[m] < from[n]
    BY <1>2, <1>4
  <1>5. ASSUME NEW n \in 1..L, n # at PROVE \E m \in 1..L - 1 : from[m] = n
    <2>1. CASE n < at
      <3>1. n \in 1..L - 1 /\ from[n] = n
        BY <1>2, <2>1
      <3> QED
        BY <3>1
    <2>2. CASE n > at
      <3>1. n - 1 \in 1..L - 1 /\ from[n - 1] = n
        BY <1>2, <2>2
      <3> QED
        BY <3>1
    <2> QED
      BY <1>2, <1>5, <2>1, <2>2
  <1>6. /\ Len(r) = L /\ r[L] = k
        /\ q[at] = k /\ \A m, n \in 1..L : q[m] = q[n] => m = n
    BY <1>1
  <1>7. /\ \A n \in 1..L : q[n] \in DOMAIN rec
        /\ \A m, n \in 1..L : m < n => Later(rec, q[n], q[m])
        /\ \A e \in DOMAIN rec \ {q[n] : n \in 1..L} :
             L = Capacity /\ \A n \in 1..L : Later(rec, q[n], e)
    BY DEF Ranked
  <1> HIDE DEF r, L, from
  <1>8. \A m \in 1..L - 1 : r[m] \in DOMAIN rec \ {k}
    BY <1>2, <1>3, <1>6, <1>7
  <1>9. \A m, n \in 1..L - 1 : m < n => Later(rec, r[n], r[m])
    BY <1>3, <1>4, <1>7
  <1>10. ASSUME NEW e \in DOMAIN rec \ {k}, \A n \in 1..L - 1 : r[n] # e
         PROVE  L = Capacity /\ \A n \in 1..L - 1 : Later(rec, r[n], e)
    <2>1. ASSUME NEW n \in 1..L PROVE q[n] # e
      <3>1. CASE n = at
        BY <1>6, <3>1
      <3>2. CASE n # at
        <4>1. PICK m \in 1..L - 1 : from[m] = n
          BY <1>5, <3>2
        <4> QED
          BY <1>3, <1>10, <4>1
      <3> QED
        BY <3>1, <3>2
    <2>2. e \in DOMAIN rec \ {q[n] : n \in 1..L}
      BY <2>1
    <2>3. L = Capacity /\ \A n \in 1..L : Later(rec, q[n], e)
      BY <1>7, <2>2
    <2> QED
      BY <1>3, <2>3
  <1>11. Ranked(r, AfterUse(rec, k))
    BY <1>2, <1>6, <1>8, <1>9, <1>10, UsedLastRanked
  <1> QED
    BY <1>11 DEF r

\* So does a new key in a cache with room, which has let go of none,
LEMMA AddedRanked ==
  ASSUME NEW q \in Seq(Keys), NEW k \in Keys, \A n \in 1..Len(q) : q[n] # k,
         Len(q) # Capacity, NEW rec, Ranked(q, rec)
  PROVE  Ranked(Append(q, k), AfterUse(rec, k))
  <1> DEFINE r == Append(q, k)
             L == Len(q) + 1
  <1>1. Len(q) \in Nat /\ L \in Nat \ {0} /\ 1..L - 1 = 1..Len(q)
    OBVIOUS
  <1>2. Len(r) = L /\ r[L] = k /\ \A n \in 1..Len(q) : r[n] = q[n]
    OBVIOUS
  <1> HIDE DEF r, L
  <1>3. /\ \A m \in 1..L - 1 : r[m] \in DOMAIN rec \ {k}
        /\ \A m, n \in 1..L - 1 : m < n => Later(rec, r[n], r[m])
    <2>1. /\ \A m \in 1..Len(q) : q[m] \in DOMAIN rec \ {k}
          /\ \A m, n \in 1..Len(q) : m < n => Later(rec, q[n], q[m])
      BY DEF Ranked
    <2>2. ASSUME NEW m \in 1..L - 1, NEW n \in 1..L - 1, m < n
          PROVE  Later(rec, r[n], r[m])
      <3>1. m \in 1..Len(q) /\ n \in 1..Len(q)
        BY <1>1
      <3> QED
        BY <1>2, <2>1, <2>2, <3>1
    <2>3. ASSUME NEW m \in 1..L - 1 PROVE r[m] \in DOMAIN rec \ {k}
      <3>1. m \in 1..Len(q)
        BY <1>1
      <3> QED
        BY <1>2, <2>1, <3>1
    <2> QED
      BY <2>2, <2>3
  <1>4. ASSUME NEW e \in DOMAIN rec \ {k}, \A n \in 1..L - 1 : r[n] # e PROVE FALSE
    <2>1. e \in DOMAIN rec \ {q[n] : n \in 1..Len(q)}
      BY <1>1, <1>2, <1>4
    <2> QED
      BY <2>1 DEF Ranked
  <1>5. Ranked(r, AfterUse(rec, k))
    BY <1>1, <1>2, <1>3, <1>4, UsedLastRanked
  <1> QED
    BY <1>5 DEF r

\* and a new key in a full cache, which lets go of the key at the front.
LEMMA ReplacedRanked ==
  ASSUME NEW q \in Seq(Keys), NEW k \in Keys, \A n \in 1..Len(q) : q[n] # k,
         Len(q) = Capacity, NEW rec, Ranked(q, rec)
  PROVE  Ranked(Append(Tail(q), k), AfterUse(rec, k))
  <1> DEFINE r == Append(Tail(q), k)
             L == Len(q)
  <1>1. L \in Nat \ {0} /\ q # <<>>
    BY CapacityAssumption
  <1>2. PICK t : t = Tail(q)
    OBVIOUS
  <1>3. t \in Seq(Keys) /\ Len(t) = L - 1 /\ \A n \in 1..L - 1 : t[n] = q[n + 1]
    BY <1>1, <1>2
  <1>4. Len(Append(t, k)) = L /\ Append(t, k)[L] = k
        /\ \A n \in 1..L - 1 : Append(t, k)[n] = t[n]
    BY <1>1, <1>3
  <1>5. Len(r) = L /\ r[L] = k /\ \A n \in 1..L - 1 : r[n] = q[n + 1]
    BY <1>2, <1>3, <1>4
  <1>6. /\ \A n \in 1..L : q[n] \in DOMAIN rec /\ q[n] # k
        /\ \A m, n \in 1..L : m < n => Later(rec, q[n], q[m])
        /\ \A e \in DOMAIN rec \ {q[n] : n \in 1..L} :
             L = Capacity /\ \A n \in 1..L : Later(rec, q[n], e)
    BY DEF Ranked
  <1>7. \A n \in 1..L - 1 : n + 1 \in 1..L /\ 1 \in 1..L /\ 1 < n + 1
    BY <1>1
  <1>8. L = Capacity
    OBVIOUS
  <1> HIDE DEF r, L
  <1>9. \A m \in 1..L - 1 : r[m] \in DOMAIN rec \ {k}
    BY <1>5, <1>6, <1>7
  <1>10. ASSUME NEW m \in 1..L - 1, NEW n \in 1..L - 1, m < n PROVE Later(rec, r[n], r[m])
    <2>1. m + 1 < n + 1
      BY <1>1, <1>10
    <2> QED
      BY <1>5, <1>6, <1>7, <2>1
  <1>11. ASSUME NEW e \in DOMAIN rec \ {k}, \A n \in 1..L - 1 : r[n] # e
         PROVE  \A n \in 1..L - 1 : Later(rec, r[n], e)
    <2>1. CASE e = q[1]
      BY <1>5, <1>6, <1>7, <2>1
    <2>2. CASE e # q[1]
      <3>1. ASSUME NEW n \in 1..L PROVE q[n] # e
        <4>1. CASE n = 1
          BY <2>2, <4>1
        <4>2. CASE n # 1
          <5>1. n - 1 \in 1..L - 1 /\ (n - 1) + 1 = n
            BY <1>1, <4>2
          <5> QED
            BY <1>5, <1>11, <5>1
        <4> QED
          BY <4>1, <4>2
      <3>2. e \in DOMAIN rec \ {q[n] : n \in 1..L}
        BY <3>1
      <3>3. \A n \in 1..L : Later(rec, q[n], e)
        BY <1>6, <3>2
      <3> QED
        BY <1>5, <1>7, <3>3
    <2> QED
      BY <2>1, <2>2
  <1>12. Ranked(r, AfterUse(rec, k))
    BY <1>1, <1>5, <1>8, <1>9, <1>10, <1>11, UsedLastRanked
  <1> QED
    BY <1>12 DEF r

\* get() and insert() keep the order of use.
LEMMA TouchedRanked ==
  ASSUME NEW lru, WellFormed(lru), NEW k \in Keys, Has(lru, k),
         NEW rec, Ranked(lru.order, rec)
  PROVE  /\ Touched(lru, k).order = Promote(lru.order, k)
         /\ Ranked(Promote(lru.order, k), AfterUse(rec, k))
  <1> DEFINE q == lru.order
  <1>1. /\ q \in Seq(Keys) /\ \A m, n \in 1..Len(q) : q[m] = q[n] => m = n
        /\ \E n \in 1..Len(q) : q[n] = k
    BY DEF WellFormed, Has
  <1>2. Touched(lru, k).order = Promote(q, k)
    BY DEF Touched, WellFormed
  <1>3. PICK a \in 1..Len(q) : q[a] = k
    BY <1>1
  <1>4. Ranked(q, rec)
    OBVIOUS
  <1> HIDE DEF q
  <1>5. Ranked(Promote(q, k), AfterUse(rec, k))
    BY <1>1, <1>3, <1>4, PromotedRanked
  <1> QED
    BY <1>2, <1>5 DEF q

LEMMA InsertedRanked ==
  ASSUME NEW lru, WellFormed(lru), NEW k \in Keys, NEW v \in Values,
         NEW rec, Ranked(lru.order, rec)
  PROVE  Ranked(Inserted(lru, k, v).order, AfterUse(rec, k))
  <1>1. CASE Has(lru, k)
    <2>1. Inserted(lru, k, v).order = Promote(lru.order, k)
      BY <1>1 DEF Inserted
    <2> QED
      BY <1>1, <2>1, TouchedRanked
  <1>2. CASE ~Has(lru, k)
    <2> DEFINE q == lru.order
    <2>1. q \in Seq(Keys) /\ \A n \in 1..Len(q) : q[n] # k
      BY <1>2 DEF WellFormed, Has
    <2>2. Full(lru) <=> Len(q) = Capacity
      BY SizeIsLength DEF Full
    <2>3. Inserted(lru, k, v).order = Append(IF Full(lru) THEN Tail(q) ELSE q, k)
      BY <1>2 DEF Inserted, Room, Evict
    <2>4. Ranked(q, rec)
      OBVIOUS
    <2> HIDE DEF q
    <2>5. CASE Full(lru)
      BY <2>1, <2>2, <2>3, <2>4, <2>5, ReplacedRanked
    <2>6. CASE ~Full(lru)
      BY <2>1, <2>2, <2>3, <2>4, <2>6, AddedRanked
    <2> QED
      BY <2>5, <2>6
  <1> QED
    BY <1>1, <1>2

\* An insertion of the key that was just looked up moves nothing again.
LEMMA TouchedTwice ==
  ASSUME NEW lru, WellFormed(lru), NEW k \in Keys, Has(lru, k), NEW v
  PROVE  Inserted(Touched(lru, k), k, v).order = Touched(lru, k).order
  <1> DEFINE q == lru.order
  <1>1. /\ q \in Seq(Keys) /\ \A m, n \in 1..Len(q) : q[m] = q[n] => m = n
        /\ \E n \in 1..Len(q) : q[n] = k
    BY DEF WellFormed, Has
  <1>2. Touched(lru, k) = [entries |-> lru.entries, order |-> Promote(q, k)]
    BY DEF Touched, WellFormed
  <1>3. Has(Touched(lru, k), k) /\ Touched(lru, k).order = Promote(q, k)
    BY <1>2 DEF Has
  <1>4. PICK a \in 1..Len(q) : q[a] = k
    BY <1>1
  <1> HIDE DEF q
  <1>5. Len(Promote(q, k)) = Len(q) /\ Promote(q, k)[Len(q)] = k
    BY <1>1, <1>4, PromoteMoves
  <1>6. PICK p : p = Promote(q, k)
    OBVIOUS
  <1>7. Promote(p, k) = p
    BY <1>5, <1>6 DEF Promote
  <1> QED
    BY <1>3, <1>6, <1>7 DEF Inserted

----------------------------------------------------------------------------
\* The caches.

\* The inductive invariant: the cache is well formed and holds only what valid
\* sources compile to, under the source itself except for templates.
CacheInv ==
  /\ kind \in {"regex", "template", "http"}
  /\ WellFormed(cache)
  /\ \A k \in DOMAIN cache.entries :
       /\ cache.entries[k] \in Sources \ Invalid
       /\ kind # "template" => cache.entries[k] = k
  /\ want \in [Callers -> Sources \cup {None}]
  /\ pc \in [Callers -> {"idle", "compiling"}]
  /\ got \in [Callers -> Sources \cup {None, "error"}]
  /\ \A c \in Callers : pc[c] = "compiling" =>
       want[c] \in Sources /\ got[c] = None /\ kind = "regex"
  /\ Lossless

LEMMA InitCacheInv == Init => CacheInv
  <1> SUFFICES ASSUME Init PROVE CacheInv
    OBVIOUS
  <1>1. WellFormed(Empty)
    BY CapacityAssumption DEF WellFormed, Empty
  <1> QED
    BY <1>1 DEF Init, CacheInv, Empty, Lossless

\* A lookup changes no entry.
LEMMA AfterGetKeeps ==
  ASSUME CacheInv, NEW s \in Sources
  PROVE  WellFormed(AfterGet(s)) /\ AfterGet(s).entries = cache.entries
  BY CompileAssumption, TouchedWellFormed DEF CacheInv, AfterGet, KeyOf

\* An insertion of a compiled source keeps the cache's part of the invariant.
LEMMA InsertKeeps ==
  ASSUME CacheInv, NEW s \in Sources \ Invalid, NEW lru, WellFormed(lru),
         lru.entries = cache.entries
  PROVE  LET new == Inserted(lru, KeyOf(s), s)
         IN  /\ WellFormed(new)
             /\ \A k \in DOMAIN new.entries :
                  /\ new.entries[k] \in Sources \ Invalid
                  /\ kind # "template" => new.entries[k] = k
  <1> DEFINE key == KeyOf(s)
             new == Inserted(lru, key, s)
  <1>1. key \in Keys /\ s \in Values /\ (kind # "template" => key = s)
    BY CompileAssumption DEF KeyOf
  <1> HIDE DEF key
  <1>2. WellFormed(new)
    BY <1>1, InsertedWellFormed
  <1>3. \A q \in DOMAIN new.entries :
          \/ q = key /\ new.entries[q] = s
          \/ q \in DOMAIN cache.entries /\ new.entries[q] = cache.entries[q]
    BY <1>1, InsertedEntries
  <1> HIDE DEF new
  <1>4. \A k \in DOMAIN new.entries :
          /\ new.entries[k] \in Sources \ Invalid
          /\ kind # "template" => new.entries[k] = k
    BY <1>1, <1>3 DEF CacheInv
  <1> QED
    BY <1>2, <1>4 DEF new, key

LEMMA CacheInvInductive == CacheInv /\ [Next]_vars => CacheInv'
  <1> SUFFICES ASSUME CacheInv, [Next]_vars PROVE CacheInv'
    OBVIOUS
  <1> USE CompileAssumption
  <1>1. ASSUME NEW c \in Callers, NEW s \in Sources, Lookup(c, s) PROVE CacheInv'
    <2>1. cache.entries[KeyOf(s)] = s /\ s \notin Invalid
      BY <1>1 DEF Lookup, Hit, Has, KeyOf, CacheInv
    <2>2. WellFormed(cache') /\ cache'.entries = cache.entries
      BY <1>1, AfterGetKeeps DEF Lookup
    <2> QED
      BY <1>1, <2>1, <2>2 DEF Lookup, Answer, CacheInv, Lossless
  <1>2. ASSUME NEW c \in Callers, NEW s \in Sources, CompileLocked(c, s) PROVE CacheInv'
    <2>1. /\ WellFormed(cache')
          /\ \A k \in DOMAIN cache'.entries :
               /\ cache'.entries[k] \in Sources \ Invalid
               /\ kind # "template" => cache'.entries[k] = k
      BY <1>2, AfterGetKeeps, InsertKeeps DEF CompileLocked
    <2> QED
      BY <1>2, <2>1 DEF CompileLocked, Answer, CacheInv, Lossless
  <1>3. ASSUME NEW c \in Callers, NEW s \in Sources, CompileLockedFails(c, s)
        PROVE  CacheInv'
    <2>1. WellFormed(cache') /\ cache'.entries = cache.entries
      BY <1>3, AfterGetKeeps DEF CompileLockedFails
    <2> QED
      BY <1>3, <2>1 DEF CompileLockedFails, Answer, CacheInv, Lossless
  <1>4. ASSUME NEW c \in Callers, NEW s \in Sources, Miss(c, s) PROVE CacheInv'
    BY <1>4 DEF Miss, Answer, CacheInv, Lossless
  <1>5. ASSUME NEW c \in Callers, Store(c) PROVE CacheInv'
    <2>1. want[c] \in Sources \ Invalid
      BY <1>5 DEF Store, CacheInv
    <2>2. /\ WellFormed(cache')
          /\ \A k \in DOMAIN cache'.entries :
               /\ cache'.entries[k] \in Sources \ Invalid
               /\ kind # "template" => cache'.entries[k] = k
      BY <1>5, <2>1, InsertKeeps DEF Store, CacheInv
    <2> QED
      BY <1>5, <2>1, <2>2 DEF Store, Answer, CacheInv, Lossless
  <1>6. ASSUME NEW c \in Callers, CompileFails(c) PROVE CacheInv'
    BY <1>6 DEF CompileFails, Answer, CacheInv, Lossless
  <1>7. CASE UNCHANGED vars
    BY <1>7 DEF vars, CacheInv, Lossless
  <1> QED
    BY <1>1, <1>2, <1>3, <1>4, <1>5, <1>6, <1>7 DEF Next

\* Map and queue of a cache agree for every capacity, so none of the expect()s of
\* lru_cache.rs can panic and no cache outgrows its capacity.
THEOREM CacheStaysWellFormed == Spec => []CacheWellFormed
  <1>1. CacheInv => CacheWellFormed
    BY DEF CacheInv, CacheWellFormed
  <1> QED
    BY <1>1, InitCacheInv, CacheInvInductive, PTL DEF Spec

\* Every caller gets what its own source compiles to, whatever was evicted, has
\* the same hash or was stored by another caller in between.
THEOREM CacheIsLossless == Spec => []Lossless
  <1>1. CacheInv => Lossless
    BY DEF CacheInv
  <1> QED
    BY <1>1, InitCacheInv, CacheInvInductive, PTL DEF Spec

\* What a request does to the cache keeps the order of use.
LEMMA RankedInductive ==
  CacheInv /\ EvictsLeastRecent /\ [Next]_vars => EvictsLeastRecent'
  <1> SUFFICES ASSUME CacheInv, EvictsLeastRecent, [Next]_vars PROVE EvictsLeastRecent'
    OBVIOUS
  <1>1. WellFormed(cache) /\ Ranked(cache.order, recency)
    BY DEF CacheInv, EvictsLeastRecent
  <1>2. \A s \in Sources : KeyOf(s) \in Keys /\ s \in Values
    BY CompileAssumption DEF KeyOf
  <1>3. ASSUME NEW s \in Sources, Has(cache, KeyOf(s))
        PROVE  /\ WellFormed(AfterGet(s))
               /\ Ranked(AfterGet(s).order, Used(KeyOf(s)))
    BY <1>1, <1>2, <1>3, TouchedWellFormed, TouchedRanked DEF AfterGet, Used
  <1>4. ASSUME NEW s \in Sources
        PROVE  Ranked(Inserted(cache, KeyOf(s), s).order, Used(KeyOf(s)))
    BY <1>1, <1>2, InsertedRanked DEF Used
  <1>5. ASSUME NEW c \in Callers, NEW s \in Sources, Lookup(c, s)
        PROVE  EvictsLeastRecent'
    <2>1. Ranked(AfterGet(s).order, Used(KeyOf(s)))
      BY <1>3, <1>5 DEF Lookup, Hit
    <2> QED
      BY <1>5, <2>1 DEF Lookup, EvictsLeastRecent
  <1>6. ASSUME NEW c \in Callers, NEW s \in Sources, CompileLocked(c, s)
        PROVE  EvictsLeastRecent'
    <2>1. CASE Has(cache, KeyOf(s))
      <3>1. Inserted(AfterGet(s), KeyOf(s), s).order = AfterGet(s).order
        BY <1>1, <1>2, <2>1, TouchedTwice DEF AfterGet
      <3>2. Ranked(Inserted(AfterGet(s), KeyOf(s), s).order, Used(KeyOf(s)))
        BY <1>3, <2>1, <3>1
      <3> QED
        BY <1>6, <3>2 DEF CompileLocked, EvictsLeastRecent
    <2>2. CASE ~Has(cache, KeyOf(s))
      <3>1. Ranked(Inserted(AfterGet(s), KeyOf(s), s).order, Used(KeyOf(s)))
        BY <1>4, <2>2 DEF AfterGet
      <3> QED
        BY <1>6, <3>1 DEF CompileLocked, EvictsLeastRecent
    <2> QED
      BY <2>1, <2>2
  <1>7. ASSUME NEW c \in Callers, NEW s \in Sources, CompileLockedFails(c, s)
        PROVE  EvictsLeastRecent'
    <2>1. Ranked(AfterGet(s).order, UsedByGet(s))
      BY <1>1, <1>3 DEF AfterGet, UsedByGet
    <2> QED
      BY <1>7, <2>1 DEF CompileLockedFails, EvictsLeastRecent
  <1>8. ASSUME NEW c \in Callers, Store(c) PROVE EvictsLeastRecent'
    <2>1. want[c] \in Sources
      BY <1>8 DEF Store, CacheInv
    <2>2. Ranked(Inserted(cache, KeyOf(want[c]), want[c]).order, Used(KeyOf(want[c])))
      BY <1>4, <2>1
    <2> QED
      BY <1>8, <2>2 DEF Store, EvictsLeastRecent
  <1>9. ASSUME UNCHANGED <<cache, recency>> PROVE EvictsLeastRecent'
    BY <1>9 DEF EvictsLeastRecent
  <1> QED
    BY <1>5, <1>6, <1>7, <1>8, <1>9 DEF Next, Miss, CompileFails, vars

\* Whatever the capacity, the callers and their order, the queue is in the order of
\* last use and what has gone from the cache was used before all that is in it.
THEOREM EvictionIsLeastRecent == Spec => []EvictsLeastRecent
  <1>1. Init => EvictsLeastRecent
    BY DEF Init, Empty, EvictsLeastRecent, Ranked
  <1> QED
    BY <1>1, InitCacheInv, CacheInvInductive, RankedInductive, PTL DEF Spec

----------------------------------------------------------------------------
\* Part 2: the iteration helpers.  The order, and what comes first in it

Arrays == Seq(FieldValues)

LEMMA KeysAreNumbers == \A v \in FieldValues : OrderingKey[v] \in Nat \X Nat
  <1>1. \A v \in FieldValues : OrderingKey[v] \in {<<0, 0>>, <<1, 1>>, <<2, 1>>, <<2, 2>>, <<3, 1>>, <<3, 2>>, <<4, 0>>, <<5, 0>>}
    BY DEF FieldValues, OrderingKey
  <1>2. {<<0, 0>>, <<1, 1>>, <<2, 1>>, <<2, 2>>, <<3, 1>>, <<3, 2>>, <<4, 0>>, <<5, 0>>} \subseteq Nat \X Nat
    OBVIOUS
  <1> QED
    BY <1>1, <1>2

\* Values of one rank are alike, so the order is one of classes.
LEMMA AheadIsOrder ==
  ASSUME NEW r \in BOOLEAN, NEW a \in FieldValues, NEW b \in FieldValues, NEW c \in FieldValues
  PROVE  /\ ~Ahead(r, a, a)
         /\ Ahead(r, a, b) => ~Ahead(r, b, a)
         /\ Ahead(r, a, b) /\ Ahead(r, b, c) => Ahead(r, a, c)
         /\ ~Ahead(r, a, b) /\ ~Ahead(r, b, c) => ~Ahead(r, a, c)
  <1>1. /\ OrderingKey[a][1] \in Nat /\ OrderingKey[a][2] \in Nat
        /\ OrderingKey[b][1] \in Nat /\ OrderingKey[b][2] \in Nat
        /\ OrderingKey[c][1] \in Nat /\ OrderingKey[c][2] \in Nat
    BY KeysAreNumbers
  <1> QED
    BY <1>1 DEF Ahead, Less

\* The order of the stable sort is total.
LEMMA SoonerIsTotal ==
  ASSUME NEW items \in Arrays, NEW r \in BOOLEAN,
         NEW i \in DOMAIN items, NEW j \in DOMAIN items, NEW k \in DOMAIN items
  PROVE  /\ ~Sooner(items, r, i, i)
         /\ Sooner(items, r, i, j) => ~Sooner(items, r, j, i)
         /\ i # j => Sooner(items, r, i, j) \/ Sooner(items, r, j, i)
         /\ Sooner(items, r, i, j) /\ Sooner(items, r, j, k) => Sooner(items, r, i, k)
  <1>1. /\ items[i] \in FieldValues /\ items[j] \in FieldValues /\ items[k] \in FieldValues
        /\ i \in Nat /\ j \in Nat /\ k \in Nat
    BY DEF Arrays
  <1>2. PICK a, b, c : a = items[i] /\ b = items[j] /\ c = items[k]
    OBVIOUS
  <1>3. /\ ~Ahead(r, a, a) /\ ~Ahead(r, b, b) /\ ~Ahead(r, c, c)
        /\ Ahead(r, a, b) => ~Ahead(r, b, a)
        /\ Ahead(r, b, c) => ~Ahead(r, c, b)
        /\ Ahead(r, a, b) /\ Ahead(r, b, c) => Ahead(r, a, c)
        /\ ~Ahead(r, c, b) /\ ~Ahead(r, b, a) => ~Ahead(r, c, a)
        /\ Ahead(r, a, b) /\ Ahead(r, a, c) => TRUE
    BY <1>1, <1>2, AheadIsOrder
  <1>4. /\ Ahead(r, a, b) /\ ~Ahead(r, c, b) => Ahead(r, a, c)
        /\ ~Ahead(r, b, a) /\ Ahead(r, b, c) => Ahead(r, a, c)
    <2>1. /\ ~Ahead(r, a, c) /\ ~Ahead(r, c, b) => ~Ahead(r, a, b)
          /\ ~Ahead(r, b, a) /\ ~Ahead(r, a, c) => ~Ahead(r, b, c)
      BY <1>1, <1>2, AheadIsOrder
    <2> QED
      BY <2>1
  <1> QED
    BY <1>1, <1>2, <1>3, <1>4 DEF Sooner

IsFirst(items, r, m) ==
  m \in DOMAIN items /\ \A j \in DOMAIN items \ {m} : Sooner(items, r, m, j)

\* it_min_by and it_max_by return the first item in the order of the stable sort.
LEMMA ExtremumIsFirst ==
  ASSUME NEW items \in Arrays, NEW r \in BOOLEAN
  PROVE  IF items = <<>> THEN ExtremumBy(items, r) = 0 ELSE IsFirst(items, r, ExtremumBy(items, r))
  <1> DEFINE N == Len(items)
             V == 0 .. N
             better(k, b) == b = 0 \/ Ahead(r, items[k], items[b])
             step == [p \in (1 .. N) \X V |-> IF better(p[1], p[2]) THEN p[1] ELSE p[2]]
             best[n \in 0 .. Len(items)] ==
               IF n = 0 THEN 0
               ELSE IF best[n - 1] = 0 \/ Ahead(r, items[n], items[best[n - 1]]) THEN n ELSE best[n - 1]
  <1>1. ExtremumBy(items, r) = best[N]
    BY DEF ExtremumBy
  <1>2. N \in Nat /\ DOMAIN items = 1 .. N
    BY DEF Arrays
  <1>3. Turning(N, V, step)
    BY DEF Turning
  <1>4. PICK g \in [0 .. N -> V] : g[0] = 0 /\ \A k \in 1 .. N : g[k] = step[<<k, g[k - 1]>>]
    <2>1. 0 \in V
      BY <1>2
    <2> HIDE DEF step, best, N, V
    <2>2. \E g : Run(N, V, 0, step, g)
      BY <1>2, <1>3, <2>1, Turns
    <2> QED
      BY <2>2 DEF Run
  <1>5. best = [n \in 0 .. N |-> IF n = 0 THEN 0 ELSE IF better(n, best[n - 1]) THEN n ELSE best[n - 1]]
    <2> DEFINE f == [n \in 0 .. N |-> IF n = 0 THEN 0 ELSE IF better(n, g[n - 1]) THEN n ELSE g[n - 1]]
    <2>1. ASSUME NEW n \in 0 .. N PROVE g[n] = f[n]
      <3>1. CASE n = 0
        BY <1>4, <3>1
      <3>2. CASE n # 0
        <4>1. n \in 1 .. N /\ n - 1 \in 0 .. N
          BY <1>2, <3>2
        <4>2. g[n] = step[<<n, g[n - 1]>>] /\ g[n - 1] \in V
          BY <1>4, <4>1
        <4> QED
          BY <3>2, <4>1, <4>2
      <3> QED
        BY <3>1, <3>2
    <2>2. g = f
      BY <2>1
    <2> QED
      BY <2>2
  <1> HIDE DEF best
  <1> DEFINE S == {n \in 0 .. N :
                     IF n = 0 THEN best[n] = 0
                     ELSE best[n] \in 1 .. n /\ \A j \in (1 .. n) \ {best[n]} : Sooner(items, r, best[n], j)}
  <1>6. 0 \in S
    BY <1>2, <1>5
  <1>7. ASSUME NEW n \in 1 .. N, n - 1 \in S PROVE n \in S
    <2>1. n - 1 \in 0 .. N /\ n \in DOMAIN items /\ n # 0
      BY <1>2
    <2>2. best[n] = IF better(n, best[n - 1]) THEN n ELSE best[n - 1]
      <3> HIDE DEF better
      <3> QED
        BY <1>2, <1>5, <2>1
    <2>3. CASE n = 1
      <3>1. best[n - 1] = 0
        BY <1>7, <2>3
      <3> QED
        BY <1>2, <2>2, <2>3, <3>1
    <2>4. CASE n # 1
      <3>1. PICK b : b = best[n - 1]
        OBVIOUS
      <3>2. b \in 1 .. n - 1 /\ \A j \in (1 .. n - 1) \ {b} : Sooner(items, r, b, j)
        BY <1>7, <2>4, <3>1
      <3>3. b \in DOMAIN items /\ b < n /\ b # 0
        BY <1>2, <3>2
      <3>4. CASE Ahead(r, items[n], items[b])
        <4>1. best[n] = n
          BY <2>2, <3>1, <3>4
        <4>2. Sooner(items, r, n, b)
          BY <3>4 DEF Sooner
        <4>3. ASSUME NEW j \in (1 .. n) \ {n} PROVE Sooner(items, r, n, j)
          <5>1. j = b \/ Sooner(items, r, b, j)
            BY <3>2
          <5>2. j \in DOMAIN items
            BY <1>2
          <5> QED
            BY <2>1, <3>3, <4>2, <5>1, <5>2, SoonerIsTotal
        <4> QED
          BY <2>1, <4>1, <4>3
      <3>5. CASE ~Ahead(r, items[n], items[b])
        <4>1. best[n] = b
          BY <2>2, <3>1, <3>3, <3>5
        <4>2. Sooner(items, r, b, n)
          BY <3>3, <3>5 DEF Sooner
        <4> QED
          BY <2>1, <3>2, <4>1, <4>2
      <3> QED
        BY <3>4, <3>5
    <2> QED
      BY <2>3, <2>4
  <1>8. N \in S
    <2> HIDE DEF S
    <2>1. \A n \in 0 .. N : n \in S
      BY <1>2, <1>6, <1>7, EveryTurn
    <2> QED
      BY <1>2, <2>1
  <1>9. CASE items = <<>>
    BY <1>1, <1>8, <1>9
  <1>10. CASE items # <<>>
    <2>1. N # 0
      BY <1>10 DEF Arrays
    <2> QED
      BY <1>1, <1>2, <1>8, <1>10, <2>1 DEF IsFirst
  <1> QED
    BY <1>9, <1>10

\* So does it_sort_by.
LEMMA SortedFirst ==
  ASSUME NEW items \in Arrays, NEW r \in BOOLEAN, NEW m, IsFirst(items, r, m)
  PROVE  SortBy(items, r) # <<>> /\ m = Head(SortBy(items, r))
  <1> DEFINE before(i) == {j \in DOMAIN items : Sooner(items, r, j, i)}
  <1>1. m \in DOMAIN items /\ DOMAIN items = 1 .. Len(items) /\ Len(items) \in Nat /\ 1 \in DOMAIN items
    BY DEF IsFirst, Arrays
  <1>2. ASSUME NEW i \in DOMAIN items PROVE Cardinality(before(i)) = 0 <=> before(i) = {}
    <2>1. IsFiniteSet(before(i))
      <3>1. IsFiniteSet(DOMAIN items)
        BY <1>1, FS_Interval
      <3> QED
        BY <3>1, FS_Subset
    <2> QED
      BY <2>1, FS_EmptySet
  <1>3. before(m) = {}
    <2>1. ASSUME NEW j \in DOMAIN items PROVE ~Sooner(items, r, j, m)
      BY <1>1, SoonerIsTotal DEF IsFirst
    <2> QED
      BY <2>1
  <1>4. ASSUME NEW i \in DOMAIN items, before(i) = {} PROVE i = m
    BY <1>1, <1>4 DEF IsFirst
  <1>5. \A i \in DOMAIN items : Cardinality(before(i)) = 1 - 1 <=> i = m
    BY <1>1, <1>2, <1>3, <1>4
  <1>6. m = CHOOSE i \in DOMAIN items : Cardinality(before(i)) = 1 - 1
    <2> HIDE DEF before
    <2> QED
      BY <1>1, <1>5
  <1> DEFINE s == SortBy(items, r)
  <1>7. s[1] = m /\ DOMAIN s = 1 .. Len(items)
    BY <1>1, <1>6 DEF SortBy
  <1>8. s \in Seq({s[k] : k \in 1 .. Len(items)}) /\ Len(s) = Len(items)
    <2> DEFINE S == {s[k] : k \in 1 .. Len(items)}
    <2>1. s \in [1 .. Len(items) -> S]
      BY <1>1 DEF SortBy
    <2> HIDE DEF s, S
    <2>2. s \in Seq(S) /\ Len(s) = Len(items)
      BY <1>1, <2>1
    <2> QED
      BY <2>2 DEF S
  <1> QED
    BY <1>1, <1>7, <1>8

----------------------------------------------------------------------------
\* Iteration helpers: groups

Texts == {Bucket[v] : v \in FieldValues}
Groups == [key : Texts, value : Seq(Nat)]
Counts == [key : Texts, value : Nat]

\* Where the key had a group, and where it had none.
Joins(m, k, i, t) ==
  /\ \E q \in 1 .. Len(m) : m[q].key = k
  /\ Len(t) = Len(m)
  /\ \A n \in 1 .. Len(m) :
       t[n] = IF m[n].key = k THEN [key |-> k, value |-> Append(m[n].value, i)] ELSE m[n]

Begins(m, k, i, t) ==
  /\ \A n \in 1 .. Len(m) : m[n].key # k
  /\ Len(t) = Len(m) + 1
  /\ \A n \in 1 .. Len(m) : t[n] = m[n]
  /\ t[Len(m) + 1] = [key |-> k, value |-> <<i>>]

\* A turn appends to the group of that key, or appends a group.
LEMMA GroupedType ==
  ASSUME NEW m \in Seq(Groups), NEW k \in Texts, NEW i \in Nat
  PROVE  /\ Grouped(m, k, i) \in Seq(Groups)
         /\ Joins(m, k, i, Grouped(m, k, i)) \/ Begins(m, k, i, Grouped(m, k, i))
  <1> DEFINE e == Entry(m, k, <<>>)
             new == [key |-> k, value |-> <<>>]
             f(g) == IF g.key = k THEN [key |-> k, value |-> Append(g.value, i)] ELSE g
             t == [n \in DOMAIN e |-> f(e[n])]
  <1>1. Len(m) \in Nat /\ DOMAIN m = 1 .. Len(m) /\ \A n \in 1 .. Len(m) : m[n] \in Groups
    OBVIOUS
  <1>2. new \in Groups
    BY DEF Groups
  <1>3. ASSUME NEW g \in Groups PROVE f(g) \in Groups
    BY DEF Groups
  <1>4. /\ f(new) = [key |-> k, value |-> Append(<<>>, i)]
        /\ Append(<<>>, i) = <<i>>
    OBVIOUS
  <1>5. ASSUME e \in Seq(Groups)
        PROVE  /\ t \in Seq(Groups) /\ Len(t) = Len(e)
               /\ \A n \in 1 .. Len(e) : t[n] = f(e[n])
    <2> HIDE DEF e, f
    <2>1. Len(e) \in Nat /\ DOMAIN e = 1 .. Len(e) /\ \A n \in 1 .. Len(e) : e[n] \in Groups
      BY <1>5
    <2>2. t \in [1 .. Len(e) -> Groups]
      BY <1>3, <2>1
    <2>3. \A n \in 1 .. Len(e) : t[n] = f(e[n])
      BY <2>1
    <2> HIDE DEF t
    <2> QED
      BY <2>1, <2>2, <2>3
  <1>6. Grouped(m, k, i) = t
    BY DEF Grouped
  <1>7. CASE \E q \in 1 .. Len(m) : m[q].key = k
    <2>1. e = m
      BY <1>1, <1>7 DEF Entry
    <2> QED
      BY <1>5, <1>6, <1>7, <2>1 DEF Joins
  <1>8. CASE \A q \in 1 .. Len(m) : m[q].key # k
    <2>1. e = Append(m, new)
      BY <1>1, <1>8 DEF Entry
    <2>2. /\ e \in Seq(Groups) /\ Len(e) = Len(m) + 1 /\ e[Len(m) + 1] = new
          /\ \A n \in 1 .. Len(m) : e[n] = m[n]
      <3> HIDE DEF new, e
      <3> QED
        BY <1>1, <1>2, <2>1, AppendProperties
    <2> HIDE DEF e
    <2>3. \A n \in 1 .. Len(m) : t[n] = m[n]
      <3> SUFFICES ASSUME NEW n \in 1 .. Len(m) PROVE t[n] = m[n]
        OBVIOUS
      <3>1. n \in 1 .. Len(e) /\ e[n] = m[n]
        BY <1>1, <2>2
      <3>2. t[n] = f(e[n])
        BY <1>5, <2>2, <3>1
      <3> QED
        BY <1>8, <3>1, <3>2
    <2>4. t[Len(m) + 1] = f(new)
      <3>1. Len(m) + 1 \in 1 .. Len(e)
        BY <1>1, <2>2
      <3>2. t[Len(m) + 1] = f(e[Len(m) + 1])
        BY <1>5, <2>2, <3>1
      <3> QED
        BY <2>2, <3>2
    <2> HIDE DEF t, f
    <2> QED
      BY <1>4, <1>5, <1>6, <1>8, <2>2, <2>3, <2>4 DEF Begins
  <1> QED
    BY <1>7, <1>8

CountJoins(m, k, t) ==
  /\ \E q \in 1 .. Len(m) : m[q].key = k
  /\ Len(t) = Len(m)
  /\ \A n \in 1 .. Len(m) :
       t[n] = IF m[n].key = k THEN [key |-> k, value |-> m[n].value + 1] ELSE m[n]

CountBegins(m, k, t) ==
  /\ \A n \in 1 .. Len(m) : m[n].key # k
  /\ Len(t) = Len(m) + 1
  /\ \A n \in 1 .. Len(m) : t[n] = m[n]
  /\ t[Len(m) + 1] = [key |-> k, value |-> 1]

LEMMA CountedType ==
  ASSUME NEW m \in Seq(Counts), NEW k \in Texts
  PROVE  /\ Counted(m, k) \in Seq(Counts)
         /\ CountJoins(m, k, Counted(m, k)) \/ CountBegins(m, k, Counted(m, k))
  <1> DEFINE e == Entry(m, k, 0)
             new == [key |-> k, value |-> 0]
             f(g) == IF g.key = k THEN [key |-> k, value |-> g.value + 1] ELSE g
             t == [n \in DOMAIN e |-> f(e[n])]
  <1>1. Len(m) \in Nat /\ DOMAIN m = 1 .. Len(m) /\ \A n \in 1 .. Len(m) : m[n] \in Counts
    OBVIOUS
  <1>2. new \in Counts
    BY DEF Counts
  <1>3. ASSUME NEW g \in Counts PROVE f(g) \in Counts
    BY DEF Counts
  <1>4. f(new) = [key |-> k, value |-> 1]
    OBVIOUS
  <1>5. ASSUME e \in Seq(Counts)
        PROVE  /\ t \in Seq(Counts) /\ Len(t) = Len(e)
               /\ \A n \in 1 .. Len(e) : t[n] = f(e[n])
    <2> HIDE DEF e, f
    <2>1. Len(e) \in Nat /\ DOMAIN e = 1 .. Len(e) /\ \A n \in 1 .. Len(e) : e[n] \in Counts
      BY <1>5
    <2>2. t \in [1 .. Len(e) -> Counts]
      BY <1>3, <2>1
    <2>3. \A n \in 1 .. Len(e) : t[n] = f(e[n])
      BY <2>1
    <2> HIDE DEF t
    <2> QED
      BY <2>1, <2>2, <2>3
  <1>6. Counted(m, k) = t
    BY DEF Counted
  <1>7. CASE \E q \in 1 .. Len(m) : m[q].key = k
    <2>1. e = m
      BY <1>1, <1>7 DEF Entry
    <2> QED
      BY <1>5, <1>6, <1>7, <2>1 DEF CountJoins
  <1>8. CASE \A q \in 1 .. Len(m) : m[q].key # k
    <2>1. e = Append(m, new)
      BY <1>1, <1>8 DEF Entry
    <2>2. /\ e \in Seq(Counts) /\ Len(e) = Len(m) + 1 /\ e[Len(m) + 1] = new
          /\ \A n \in 1 .. Len(m) : e[n] = m[n]
      <3> HIDE DEF new, e
      <3> QED
        BY <1>1, <1>2, <2>1, AppendProperties
    <2> HIDE DEF e
    <2>3. \A n \in 1 .. Len(m) : t[n] = m[n]
      <3> SUFFICES ASSUME NEW n \in 1 .. Len(m) PROVE t[n] = m[n]
        OBVIOUS
      <3>1. n \in 1 .. Len(e) /\ e[n] = m[n]
        BY <1>1, <2>2
      <3>2. t[n] = f(e[n])
        BY <1>5, <2>2, <3>1
      <3> QED
        BY <1>8, <3>1, <3>2
    <2>4. t[Len(m) + 1] = f(new)
      <3>1. Len(m) + 1 \in 1 .. Len(e)
        BY <1>1, <2>2
      <3>2. t[Len(m) + 1] = f(e[Len(m) + 1])
        BY <1>5, <2>2, <3>1
      <3> QED
        BY <2>2, <3>2
    <2> HIDE DEF t, f
    <2> QED
      BY <1>4, <1>5, <1>6, <1>8, <2>2, <2>3, <2>4 DEF CountBegins
  <1> QED
    BY <1>7, <1>8

\* What the two loops have after each item.
LEMMA GroupLoop ==
  ASSUME NEW items \in Arrays
  PROVE  \E at \in [0 .. Len(items) -> Seq(Groups)] :
           /\ at[0] = <<>>
           /\ \A n \in 1 .. Len(items) : at[n] = Grouped(at[n - 1], Bucket[items[n]], n)
           /\ GroupBy(items) = at[Len(items)]
  <1> DEFINE N == Len(items)
             V == Seq(Groups)
             step == [p \in (1 .. N) \X V |-> Grouped(p[2], Bucket[items[p[1]]], p[1])]
             groups[n \in 0 .. Len(items)] ==
               IF n = 0 THEN <<>> ELSE Grouped(groups[n - 1], Bucket[items[n]], n)
  <1>1. GroupBy(items) = groups[N]
    BY DEF GroupBy
  <1>2. N \in Nat /\ \A n \in 1 .. N : n \in Nat /\ items[n] \in FieldValues /\ Bucket[items[n]] \in Texts
    BY DEF Arrays, Texts
  <1>3. Turning(N, V, step)
    <2>1. ASSUME NEW n \in 1 .. N, NEW v \in V PROVE Grouped(v, Bucket[items[n]], n) \in V
      BY <1>2, GroupedType
    <2> QED
      BY <2>1 DEF Turning
  <1>4. PICK g \in [0 .. N -> V] : g[0] = <<>> /\ \A n \in 1 .. N : g[n] = step[<<n, g[n - 1]>>]
    <2>1. <<>> \in V
      OBVIOUS
    <2> HIDE DEF step, groups, N, V
    <2>2. \E g : Run(N, V, <<>>, step, g)
      BY <1>2, <1>3, <2>1, Turns
    <2> QED
      BY <2>2 DEF Run
  <1>5. \A n \in 1 .. N : g[n] = Grouped(g[n - 1], Bucket[items[n]], n)
    <2> SUFFICES ASSUME NEW n \in 1 .. N PROVE g[n] = Grouped(g[n - 1], Bucket[items[n]], n)
      OBVIOUS
    <2>1. n - 1 \in 0 .. N /\ g[n - 1] \in V
      BY <1>2
    <2> QED
      BY <1>4, <2>1
  <1>6. groups = [n \in 0 .. N |-> IF n = 0 THEN <<>> ELSE Grouped(groups[n - 1], Bucket[items[n]], n)]
    <2>1. g = [n \in 0 .. N |-> IF n = 0 THEN <<>> ELSE Grouped(g[n - 1], Bucket[items[n]], n)]
      <3>1. ASSUME NEW n \in 0 .. N
            PROVE  g[n] = IF n = 0 THEN <<>> ELSE Grouped(g[n - 1], Bucket[items[n]], n)
        BY <1>2, <1>4, <1>5
      <3> QED
        BY <3>1
    <2> QED
      BY <2>1
  <1> HIDE DEF groups
  <1>7. groups[0] = <<>> /\ \A n \in 1 .. N : groups[n] = Grouped(groups[n - 1], Bucket[items[n]], n)
    <2>1. 0 \in 0 .. N /\ \A n \in 1 .. N : n \in 0 .. N /\ n # 0
      BY <1>2
    <2> QED
      BY <1>6, <2>1
  <1> DEFINE S == {n \in 0 .. N : groups[n] \in V}
  <1>8. 0 \in S
    <2>1. <<>> \in V /\ 0 \in 0 .. N
      BY <1>2
    <2> QED
      BY <1>7, <2>1
  <1>9. ASSUME NEW n \in 1 .. N, n - 1 \in S PROVE n \in S
    <2>1. groups[n] = Grouped(groups[n - 1], Bucket[items[n]], n) /\ groups[n - 1] \in V
      BY <1>7, <1>9
    <2>2. Grouped(groups[n - 1], Bucket[items[n]], n) \in V
      BY <1>2, <2>1, GroupedType
    <2> QED
      BY <2>1, <2>2
  <1>10. groups \in [0 .. N -> V]
    <2> HIDE DEF S
    <2>1. \A n \in 0 .. N : n \in S
      BY <1>2, <1>8, <1>9, EveryTurn
    <2> QED
      BY <1>6, <2>1 DEF S
  <1> QED
    BY <1>1, <1>7, <1>10

LEMMA CountLoop ==
  ASSUME NEW items \in Arrays
  PROVE  \E at \in [0 .. Len(items) -> Seq(Counts)] :
           /\ at[0] = <<>>
           /\ \A n \in 1 .. Len(items) : at[n] = Counted(at[n - 1], Bucket[items[n]])
           /\ CountBy(items) = at[Len(items)]
  <1> DEFINE N == Len(items)
             V == Seq(Counts)
             step == [p \in (1 .. N) \X V |-> Counted(p[2], Bucket[items[p[1]]])]
             counts[n \in 0 .. Len(items)] ==
               IF n = 0 THEN <<>> ELSE Counted(counts[n - 1], Bucket[items[n]])
  <1>1. CountBy(items) = counts[N]
    BY DEF CountBy
  <1>2. N \in Nat /\ \A n \in 1 .. N : n \in Nat /\ items[n] \in FieldValues /\ Bucket[items[n]] \in Texts
    BY DEF Arrays, Texts
  <1>3. Turning(N, V, step)
    <2>1. ASSUME NEW n \in 1 .. N, NEW v \in V PROVE Counted(v, Bucket[items[n]]) \in V
      BY <1>2, CountedType
    <2> QED
      BY <2>1 DEF Turning
  <1>4. PICK g \in [0 .. N -> V] : g[0] = <<>> /\ \A n \in 1 .. N : g[n] = step[<<n, g[n - 1]>>]
    <2>1. <<>> \in V
      OBVIOUS
    <2> HIDE DEF step, counts, N, V
    <2>2. \E g : Run(N, V, <<>>, step, g)
      BY <1>2, <1>3, <2>1, Turns
    <2> QED
      BY <2>2 DEF Run
  <1>5. \A n \in 1 .. N : g[n] = Counted(g[n - 1], Bucket[items[n]])
    <2> SUFFICES ASSUME NEW n \in 1 .. N PROVE g[n] = Counted(g[n - 1], Bucket[items[n]])
      OBVIOUS
    <2>1. n - 1 \in 0 .. N /\ g[n - 1] \in V
      BY <1>2
    <2> QED
      BY <1>4, <2>1
  <1>6. counts = [n \in 0 .. N |-> IF n = 0 THEN <<>> ELSE Counted(counts[n - 1], Bucket[items[n]])]
    <2>1. g = [n \in 0 .. N |-> IF n = 0 THEN <<>> ELSE Counted(g[n - 1], Bucket[items[n]])]
      <3>1. ASSUME NEW n \in 0 .. N
            PROVE  g[n] = IF n = 0 THEN <<>> ELSE Counted(g[n - 1], Bucket[items[n]])
        BY <1>2, <1>4, <1>5
      <3> QED
        BY <3>1
    <2> QED
      BY <2>1
  <1> HIDE DEF counts
  <1>7. counts[0] = <<>> /\ \A n \in 1 .. N : counts[n] = Counted(counts[n - 1], Bucket[items[n]])
    <2>1. 0 \in 0 .. N /\ \A n \in 1 .. N : n \in 0 .. N /\ n # 0
      BY <1>2
    <2> QED
      BY <1>6, <2>1
  <1> DEFINE S == {n \in 0 .. N : counts[n] \in V}
  <1>8. 0 \in S
    <2>1. <<>> \in V /\ 0 \in 0 .. N
      BY <1>2
    <2> QED
      BY <1>7, <2>1
  <1>9. ASSUME NEW n \in 1 .. N, n - 1 \in S PROVE n \in S
    <2>1. counts[n] = Counted(counts[n - 1], Bucket[items[n]]) /\ counts[n - 1] \in V
      BY <1>7, <1>9
    <2>2. Counted(counts[n - 1], Bucket[items[n]]) \in V
      BY <1>2, <2>1, CountedType
    <2> QED
      BY <2>1, <2>2
  <1>10. counts \in [0 .. N -> V]
    <2> HIDE DEF S
    <2>1. \A n \in 0 .. N : n \in S
      BY <1>2, <1>8, <1>9, EveryTurn
    <2> QED
      BY <1>6, <2>1 DEF S
  <1> QED
    BY <1>1, <1>7, <1>10

\* A group, when the first i items have been told apart.
GroupOf(items, i, g) ==
  /\ g.value # <<>>
  /\ \A a \in 1 .. Len(g.value) : g.value[a] \in 1 .. i /\ Bucket[items[g.value[a]]] = g.key
  /\ \A a, b \in 1 .. Len(g.value) : a < b => g.value[a] < g.value[b]

GroupsOf(items, i, m) ==
  /\ m \in Seq(Groups)
  /\ \A q \in 1 .. Len(m) : GroupOf(items, i, m[q])
  /\ \A p, q \in 1 .. Len(m) : m[p].key = m[q].key => p = q
  /\ \A j \in 1 .. i : \E q \in 1 .. Len(m) : j \in Range(m[q].value)
  /\ \A p, q \in 1 .. Len(m) : p < q => m[p].value[1] < m[q].value[1]

LEMMA GroupGrows ==
  ASSUME NEW items, NEW i \in Nat \ {0}, NEW g \in Groups, GroupOf(items, i - 1, g),
         Bucket[items[i]] = g.key
  PROVE  /\ GroupOf(items, i, [key |-> g.key, value |-> Append(g.value, i)])
         /\ Append(g.value, i)[1] = g.value[1] /\ i \in Range(Append(g.value, i))
         /\ Range(g.value) \subseteq Range(Append(g.value, i))
  <1> DEFINE h == [key |-> g.key, value |-> Append(g.value, i)]
             v == g.value
             w == Append(v, i)
  <1>1. v \in Seq(Nat) /\ Len(v) \in Nat \ {0} /\ h.value = w /\ h.key = g.key
    BY DEF Groups, GroupOf
  <1>2. /\ w \in Seq(Nat) /\ w # <<>> /\ Len(w) = Len(v) + 1 /\ w[Len(v) + 1] = i
        /\ \A a \in 1 .. Len(v) : w[a] = v[a]
    BY <1>1, AppendProperties
  <1>3. \A a \in 1 .. Len(v) : v[a] \in 1 .. i - 1 /\ Bucket[items[v[a]]] = g.key
    BY DEF GroupOf
  <1>4. \A a, b \in 1 .. Len(v) : a < b => v[a] < v[b]
    BY DEF GroupOf
  <1> HIDE DEF v, w
  <1>0. Len(v) \in Nat \ {0} /\ Len(w) = Len(v) + 1
    BY <1>1, <1>2
  <1>5. \A a \in 1 .. Len(w) : w[a] \in 1 .. i /\ Bucket[items[w[a]]] = g.key
    <2> SUFFICES ASSUME NEW a \in 1 .. Len(w)
                 PROVE  w[a] \in 1 .. i /\ Bucket[items[w[a]]] = g.key
      OBVIOUS
    <2>1. a \in 1 .. Len(v) \/ a = Len(v) + 1
      BY <1>1, <1>2
    <2> QED
      BY <1>2, <1>3, <2>1
  <1>6. \A a, b \in 1 .. Len(w) : a < b => w[a] < w[b]
    <2> SUFFICES ASSUME NEW a \in 1 .. Len(w), NEW b \in 1 .. Len(w), a < b PROVE w[a] < w[b]
      OBVIOUS
    <2>1. a \in 1 .. Len(v) /\ (b \in 1 .. Len(v) \/ b = Len(v) + 1)
      BY <1>0
    <2>2. w[a] = v[a] /\ v[a] \in 1 .. i - 1
      BY <1>2, <1>3, <2>1
    <2>3. CASE b \in 1 .. Len(v)
      BY <1>2, <1>4, <2>1, <2>2, <2>3
    <2>4. CASE b = Len(v) + 1
      BY <1>2, <2>2, <2>4
    <2> QED
      BY <2>1, <2>3, <2>4
  <1>7. DOMAIN v = 1 .. Len(v) /\ DOMAIN w = 1 .. Len(w)
    BY <1>1, <1>2
  <1>8. w[1] = v[1] /\ i \in Range(w) /\ Range(v) \subseteq Range(w)
    <2>1. 1 \in 1 .. Len(v) /\ Len(v) + 1 \in 1 .. Len(w) /\ \A a \in 1 .. Len(v) : a \in 1 .. Len(w)
      BY <1>1, <1>2
    <2> QED
      BY <1>2, <1>7, <2>1 DEF Range
  <1> QED
    BY <1>1, <1>2, <1>5, <1>6, <1>8 DEF GroupOf, v, w

LEMMA GroupStays ==
  ASSUME NEW items, NEW i \in Nat \ {0}, NEW g, GroupOf(items, i - 1, g)
  PROVE  GroupOf(items, i, g)
  <1>1. \A j \in 1 .. i - 1 : j \in 1 .. i
    OBVIOUS
  <1> QED
    BY <1>1 DEF GroupOf

LEMMA GroupBegins ==
  ASSUME NEW items, NEW i \in Nat \ {0}
  PROVE  /\ GroupOf(items, i, [key |-> Bucket[items[i]], value |-> <<i>>])
         /\ i \in Range(<<i>>)
  BY DEF GroupOf, Range

LEMMA TurnGroups ==
  ASSUME NEW items \in Arrays, NEW i \in 1 .. Len(items), NEW m, GroupsOf(items, i - 1, m)
  PROVE  GroupsOf(items, i, Grouped(m, Bucket[items[i]], i))
  <1> DEFINE k == Bucket[items[i]]
             t == Grouped(m, k, i)
  <1>1. i \in Nat \ {0} /\ k \in Texts /\ m \in Seq(Groups) /\ Len(m) \in Nat
    BY DEF Arrays, Texts, GroupsOf
  <1>2. /\ \A q \in 1 .. Len(m) : GroupOf(items, i - 1, m[q]) /\ m[q] \in Groups
        /\ \A p, q \in 1 .. Len(m) : m[p].key = m[q].key => p = q
        /\ \A j \in 1 .. i - 1 : \E q \in 1 .. Len(m) : j \in Range(m[q].value)
        /\ \A p, q \in 1 .. Len(m) : p < q => m[p].value[1] < m[q].value[1]
    BY DEF GroupsOf
  <1>3. t \in Seq(Groups)
    BY <1>1, GroupedType
  <1>4. Joins(m, k, i, t) \/ Begins(m, k, i, t)
    <2> HIDE DEF k
    <2>1. m \in Seq(Groups) /\ k \in Texts /\ i \in Nat
      BY <1>1
    <2> QED
      BY <2>1, GroupedType
  <1>5. Bucket[items[i]] = k
    OBVIOUS
  <1> HIDE DEF t, k
  <1>6. CASE Joins(m, k, i, t)
    <2>0. /\ \E q \in 1 .. Len(m) : m[q].key = k
          /\ Len(t) = Len(m)
          /\ \A n \in 1 .. Len(m) :
               t[n] = IF m[n].key = k THEN [key |-> k, value |-> Append(m[n].value, i)] ELSE m[n]
      BY <1>6 DEF Joins
    <2>1. ASSUME NEW n \in 1 .. Len(m)
          PROVE  /\ GroupOf(items, i, t[n]) /\ t[n].key = m[n].key /\ t[n].value[1] = m[n].value[1]
                 /\ m[n].key = k => i \in Range(t[n].value)
                 /\ Range(m[n].value) \subseteq Range(t[n].value)
      <3>1. CASE m[n].key = k
        <4>1. t[n] = [key |-> m[n].key, value |-> Append(m[n].value, i)]
          BY <2>0, <3>1
        <4>2. /\ GroupOf(items, i, t[n]) /\ t[n].value[1] = m[n].value[1] /\ i \in Range(t[n].value)
              /\ Range(m[n].value) \subseteq Range(t[n].value)
          <5>1. /\ i \in Nat \ {0} /\ m[n] \in Groups /\ GroupOf(items, i - 1, m[n])
                /\ Bucket[items[i]] = m[n].key
            BY <1>1, <1>2, <1>5, <3>1
          <5> DEFINE w == Append(m[n].value, i)
          <5>2. /\ GroupOf(items, i, [key |-> m[n].key, value |-> w]) /\ w[1] = m[n].value[1]
                /\ i \in Range(w) /\ Range(m[n].value) \subseteq Range(w)
            BY <5>1, GroupGrows
          <5>3. t[n] = [key |-> m[n].key, value |-> w] /\ t[n].value = w
            BY <4>1
          <5> HIDE DEF w
          <5> QED
            BY <5>2, <5>3
        <4> QED
          BY <4>1, <4>2
      <3>2. CASE m[n].key # k
        <4>1. t[n] = m[n]
          BY <2>0, <3>2
        <4> QED
          BY <1>1, <1>2, <3>2, <4>1, GroupStays
      <3> QED
        BY <3>1, <3>2
    <2>2. ASSUME NEW j \in 1 .. i PROVE \E q \in 1 .. Len(t) : j \in Range(t[q].value)
      <3>1. CASE j = i
        BY <2>0, <2>1, <3>1
      <3>2. CASE j # i
        <4>1. j \in 1 .. i - 1
          BY <1>1, <3>2
        <4> QED
          BY <1>2, <2>0, <2>1, <4>1
      <3> QED
        BY <3>1, <3>2
    <2>3. \A p, q \in 1 .. Len(t) : t[p].key = t[q].key => p = q
      BY <1>2, <2>0, <2>1
    <2>4. \A p, q \in 1 .. Len(t) : p < q => t[p].value[1] < t[q].value[1]
      BY <1>2, <2>0, <2>1
    <2> QED
      BY <1>3, <2>0, <2>1, <2>2, <2>3, <2>4 DEF GroupsOf, t, k
  <1>7. CASE Begins(m, k, i, t)
    <2>9. /\ \A n \in 1 .. Len(m) : m[n].key # k
          /\ Len(t) = Len(m) + 1
          /\ \A n \in 1 .. Len(m) : t[n] = m[n]
          /\ t[Len(m) + 1] = [key |-> k, value |-> <<i>>]
      BY <1>7 DEF Begins
    <2> DEFINE L == Len(m) + 1
    <2>1. /\ L \in 1 .. Len(t) /\ t[L] = [key |-> k, value |-> <<i>>]
          /\ \A n \in 1 .. Len(t) : n = L \/ (n \in 1 .. Len(m) /\ t[n] = m[n] /\ m[n].key # k)
          /\ \A n \in 1 .. Len(m) : n \in 1 .. Len(t)
      BY <1>1, <2>9
    <2>2. \A n \in 1 .. Len(m) : n < L
      BY <1>1
    <2> HIDE DEF L
    <2>0. GroupOf(items, i, t[L]) /\ i \in Range(t[L].value)
      <3>1. t[L] = [key |-> Bucket[items[i]], value |-> <<i>>]
        BY <1>5, <2>1
      <3>2. GroupOf(items, i, [key |-> Bucket[items[i]], value |-> <<i>>]) /\ i \in Range(<<i>>)
        BY <1>1, GroupBegins
      <3> QED
        BY <3>1, <3>2
    <2>3. ASSUME NEW n \in 1 .. Len(t) PROVE GroupOf(items, i, t[n])
      <3>1. CASE n = L
        BY <2>0, <3>1
      <3>2. CASE n # L
        <4>1. t[n] = m[n] /\ GroupOf(items, i - 1, m[n])
          BY <1>2, <2>1, <3>2
        <4> QED
          BY <1>1, <4>1, GroupStays
      <3> QED
        BY <3>1, <3>2
    <2>4. ASSUME NEW j \in 1 .. i PROVE \E q \in 1 .. Len(t) : j \in Range(t[q].value)
      <3>1. CASE j = i
        BY <2>0, <2>1, <3>1
      <3>2. CASE j # i
        <4>1. j \in 1 .. i - 1
          BY <1>1, <3>2
        <4> QED
          BY <1>2, <2>9, <2>1, <4>1
      <3> QED
        BY <3>1, <3>2
    <2>5. \A p, q \in 1 .. Len(t) : t[p].key = t[q].key => p = q
      BY <1>2, <2>1, SMTT(30)
    <2>6. ASSUME NEW p \in 1 .. Len(t), NEW q \in 1 .. Len(t), p < q
          PROVE  t[p].value[1] < t[q].value[1]
      <3>1. p \in 1 .. Len(m)
        <4>1. q = L \/ q < L
          BY <2>1, <2>2
        <4> QED
          BY <1>1, <2>1, <2>6, <4>1 DEF L
      <3>2. m[p].value[1] \in 1 .. i - 1
        <4>1. 1 \in 1 .. Len(m[p].value)
          BY <1>2, <3>1 DEF GroupOf, Groups
        <4> QED
          BY <1>2, <3>1, <4>1 DEF GroupOf
      <3>3. CASE q = L
        BY <1>1, <2>1, <2>9, <3>1, <3>2, <3>3
      <3>4. CASE q # L
        BY <1>2, <2>1, <2>6, <2>9, <3>1, <3>4
      <3> QED
        BY <3>3, <3>4
    <2> QED
      BY <1>3, <2>3, <2>4, <2>5, <2>6 DEF GroupsOf, t, k
  <1> QED
    BY <1>4, <1>6, <1>7

\* it_count_by counts the items of the groups.
Matches(m, c) ==
  /\ m \in Seq(Groups) /\ c \in Seq(Counts) /\ Len(m) = Len(c)
  /\ \A n \in 1 .. Len(m) : m[n].key = c[n].key /\ Len(m[n].value) = c[n].value

LEMMA TurnMatches ==
  ASSUME NEW m, NEW c, Matches(m, c), NEW k \in Texts, NEW i \in Nat
  PROVE  Matches(Grouped(m, k, i), Counted(c, k))
  <1> DEFINE t == Grouped(m, k, i)
             u == Counted(c, k)
  <1>1. /\ m \in Seq(Groups) /\ c \in Seq(Counts) /\ Len(m) = Len(c) /\ Len(m) \in Nat
        /\ \A n \in 1 .. Len(m) :
             /\ m[n].key = c[n].key /\ Len(m[n].value) = c[n].value
             /\ m[n] \in Groups
    BY DEF Matches
  <1>2. t \in Seq(Groups) /\ (Joins(m, k, i, t) \/ Begins(m, k, i, t))
    BY <1>1, GroupedType
  <1>3. u \in Seq(Counts) /\ (CountJoins(c, k, u) \/ CountBegins(c, k, u))
    BY <1>1, CountedType
  <1>4. ASSUME NEW n \in 1 .. Len(m) PROVE Len(Append(m[n].value, i)) = Len(m[n].value) + 1
    BY <1>1 DEF Groups
  <1> HIDE DEF t, u
  <1>5. CASE Joins(m, k, i, t)
    <2>1. CountJoins(c, k, u)
      BY <1>1, <1>3, <1>5 DEF Joins, CountBegins
    <2>2. ASSUME NEW n \in 1 .. Len(t) PROVE t[n].key = u[n].key /\ Len(t[n].value) = u[n].value
      <3>1. n \in 1 .. Len(m) /\ n \in 1 .. Len(c)
        BY <1>1, <1>5 DEF Joins
      <3>2. t[n] = IF m[n].key = k THEN [key |-> k, value |-> Append(m[n].value, i)] ELSE m[n]
        BY <1>5, <3>1 DEF Joins
      <3>3. u[n] = IF c[n].key = k THEN [key |-> k, value |-> c[n].value + 1] ELSE c[n]
        BY <2>1, <3>1 DEF CountJoins
      <3>4. CASE m[n].key = k
        <4>1. t[n].key = k /\ t[n].value = Append(m[n].value, i) /\ u[n].key = k /\ u[n].value = c[n].value + 1
          BY <1>1, <3>1, <3>2, <3>3, <3>4
        <4> QED
          BY <1>1, <1>4, <3>1, <4>1
      <3>5. CASE m[n].key # k
        BY <1>1, <3>1, <3>2, <3>3, <3>5
      <3> QED
        BY <3>4, <3>5
    <2> QED
      BY <1>1, <1>2, <1>3, <1>5, <2>1, <2>2 DEF Matches, Joins, CountJoins, t, u
  <1>6. CASE Begins(m, k, i, t)
    <2>1. CountBegins(c, k, u)
      BY <1>1, <1>3, <1>6 DEF Begins, CountJoins
    <2>2. ASSUME NEW n \in 1 .. Len(t) PROVE t[n].key = u[n].key /\ Len(t[n].value) = u[n].value
      <3>1. CASE n = Len(m) + 1
        <4>1. t[n] = [key |-> k, value |-> <<i>>] /\ u[n] = [key |-> k, value |-> 1]
          BY <1>1, <1>6, <2>1, <3>1 DEF Begins, CountBegins
        <4>2. Len(<<i>>) = 1
          OBVIOUS
        <4> QED
          BY <4>1, <4>2
      <3>2. CASE n # Len(m) + 1
        <4>1. n \in 1 .. Len(m)
          BY <1>1, <1>6, <3>2 DEF Begins
        <4> QED
          BY <1>1, <1>6, <2>1, <4>1 DEF Begins, CountBegins
      <3> QED
        BY <3>1, <3>2
    <2> QED
      BY <1>1, <1>2, <1>3, <1>6, <2>1, <2>2 DEF Matches, Begins, CountBegins, t, u
  <1> QED
    BY <1>2, <1>5, <1>6

LEMMA GroupsAndCounts ==
  ASSUME NEW items \in Arrays
  PROVE  GroupsOf(items, Len(items), GroupBy(items)) /\ Matches(GroupBy(items), CountBy(items))
  <1>1. PICK g \in [0 .. Len(items) -> Seq(Groups)] :
          /\ g[0] = <<>>
          /\ \A n \in 1 .. Len(items) : g[n] = Grouped(g[n - 1], Bucket[items[n]], n)
          /\ GroupBy(items) = g[Len(items)]
    BY GroupLoop
  <1>2. PICK c \in [0 .. Len(items) -> Seq(Counts)] :
          /\ c[0] = <<>>
          /\ \A n \in 1 .. Len(items) : c[n] = Counted(c[n - 1], Bucket[items[n]])
          /\ CountBy(items) = c[Len(items)]
    BY CountLoop
  <1> DEFINE S == {n \in 0 .. Len(items) : GroupsOf(items, n, g[n]) /\ Matches(g[n], c[n])}
  <1>3. Len(items) \in Nat /\ \A n \in 1 .. Len(items) : n \in Nat /\ Bucket[items[n]] \in Texts
    BY DEF Arrays, Texts
  <1>4. 0 \in S
    <2>1. GroupsOf(items, 0, <<>>) /\ Matches(<<>>, <<>>)
      BY DEF GroupsOf, Matches
    <2> QED
      BY <1>1, <1>2, <1>3, <2>1
  <1>5. ASSUME NEW n \in 1 .. Len(items), n - 1 \in S PROVE n \in S
    <2>1. GroupsOf(items, n - 1, g[n - 1]) /\ Matches(g[n - 1], c[n - 1])
      BY <1>5
    <2>2. GroupsOf(items, n, Grouped(g[n - 1], Bucket[items[n]], n))
      BY <2>1, TurnGroups
    <2>3. Matches(Grouped(g[n - 1], Bucket[items[n]], n), Counted(c[n - 1], Bucket[items[n]]))
      BY <1>3, <2>1, TurnMatches
    <2> QED
      BY <1>1, <1>2, <1>3, <2>2, <2>3
  <1> HIDE DEF S
  <1>6. \A n \in 0 .. Len(items) : n \in S
    BY <1>3, <1>4, <1>5, EveryTurn
  <1> QED
    BY <1>1, <1>2, <1>3, <1>6 DEF S

----------------------------------------------------------------------------
\* Iteration helpers: what it_unique_by keeps

Firsts(items, i) == {j \in 1 .. i : \A l \in 1 .. j - 1 : Json[items[l]] # Json[items[j]]}

\* Before every item stands the first one like it.
LEMMA FirstAlike ==
  ASSUME NEW items, NEW i \in Nat, NEW j \in 1 .. i
  PROVE  \E l \in Firsts(items, i) : l <= j /\ Json[items[l]] = Json[items[j]]
  <1> DEFINE S == {l \in 1 .. j : Json[items[l]] = Json[items[j]]}
  <1>1. PICK l \in S : \A n \in S : l <= n
    <2>1. S \in SUBSET Nat /\ S # {}
      OBVIOUS
    <2> HIDE DEF S
    <2> QED
      BY <2>1, LeastNumber
  <1>2. l \in 1 .. i /\ l <= j /\ Json[items[l]] = Json[items[j]]
    OBVIOUS
  <1>3. ASSUME NEW n \in 1 .. l - 1 PROVE Json[items[n]] # Json[items[l]]
    BY <1>1, <1>2
  <1> QED
    BY <1>2, <1>3 DEF Firsts

LEMMA TurnFirsts ==
  ASSUME NEW items, NEW i \in Nat \ {0}, NEW kept \in Seq(Nat), Range(kept) = Firsts(items, i - 1)
  PROVE  /\ Kept(items, kept, i) \in Seq(Nat)
         /\ Range(Kept(items, kept, i)) = Firsts(items, i)
  <1>1. /\ DOMAIN kept = 1 .. Len(kept) /\ Len(kept) \in Nat
        /\ \A n \in DOMAIN kept : kept[n] \in Firsts(items, i - 1)
    BY DEF Range
  <1>2. Firsts(items, i) \ {i} = Firsts(items, i - 1)
    BY DEF Firsts
  <1>3. CASE \E n \in DOMAIN kept : Json[items[kept[n]]] = Json[items[i]]
    <2>1. Kept(items, kept, i) = kept
      BY <1>3 DEF Kept
    <2>2. i \notin Firsts(items, i)
      BY <1>1, <1>3 DEF Firsts
    <2> QED
      BY <1>2, <2>1, <2>2
  <1>4. CASE \A n \in DOMAIN kept : Json[items[kept[n]]] # Json[items[i]]
    <2>1. Kept(items, kept, i) = Append(kept, i)
      BY <1>4 DEF Kept
    <2>2. ASSUME NEW l \in 1 .. i - 1 PROVE Json[items[l]] # Json[items[i]]
      <3>1. i - 1 \in Nat
        OBVIOUS
      <3>2. PICK f \in Firsts(items, i - 1) : f <= l /\ Json[items[f]] = Json[items[l]]
        BY <3>1, FirstAlike
      <3>3. \E n \in DOMAIN kept : kept[n] = f
        BY DEF Range
      <3> QED
        BY <1>4, <3>2, <3>3
    <2>3. i \in Firsts(items, i)
      BY <2>2 DEF Firsts
    <2>4. Append(kept, i) \in Seq(Nat) /\ Range(Append(kept, i)) = Range(kept) \cup {i}
      <3> DEFINE w == Append(kept, i)
      <3>1. /\ w \in Seq(Nat) /\ Len(w) = Len(kept) + 1 /\ w[Len(kept) + 1] = i
            /\ \A n \in 1 .. Len(kept) : w[n] = kept[n]
        BY AppendProperties
      <3>2. DOMAIN w = 1 .. Len(kept) + 1
        BY <3>1
      <3> HIDE DEF w
      <3>3. /\ \A n \in DOMAIN w : n \in DOMAIN kept \/ n = Len(kept) + 1
            /\ \A n \in DOMAIN kept : n \in DOMAIN w /\ w[n] = kept[n]
            /\ Len(kept) + 1 \in DOMAIN w
        BY <1>1, <3>1, <3>2
      <3>4. Range(w) = Range(kept) \cup {i}
        BY <3>1, <3>3 DEF Range
      <3> QED
        BY <3>1, <3>4 DEF w
    <2> QED
      BY <1>2, <2>1, <2>3, <2>4
  <1> QED
    BY <1>3, <1>4

LEMMA UniqueLoop ==
  ASSUME NEW items \in Arrays
  PROVE  UniqueBy(items) \in Seq(Nat) /\ Range(UniqueBy(items)) = Firsts(items, Len(items))
  <1> DEFINE N == Len(items)
             V == Seq(Nat)
             step == [p \in (1 .. N) \X V |-> Kept(items, p[2], p[1])]
             kept[n \in 0 .. Len(items)] == IF n = 0 THEN <<>> ELSE Kept(items, kept[n - 1], n)
  <1>1. UniqueBy(items) = kept[N]
    BY DEF UniqueBy
  <1>2. N \in Nat /\ \A n \in 1 .. N : n \in Nat \ {0}
    BY DEF Arrays
  <1>3. Turning(N, V, step)
    <2>1. ASSUME NEW n \in 1 .. N, NEW v \in V PROVE Kept(items, v, n) \in V
      BY <1>2 DEF Kept
    <2> QED
      BY <2>1 DEF Turning
  <1>4. PICK g \in [0 .. N -> V] : g[0] = <<>> /\ \A n \in 1 .. N : g[n] = step[<<n, g[n - 1]>>]
    <2>1. <<>> \in V
      OBVIOUS
    <2> HIDE DEF step, kept, N, V
    <2>2. \E g : Run(N, V, <<>>, step, g)
      BY <1>2, <1>3, <2>1, Turns
    <2> QED
      BY <2>2 DEF Run
  <1>5. \A n \in 1 .. N : g[n] = Kept(items, g[n - 1], n)
    <2> SUFFICES ASSUME NEW n \in 1 .. N PROVE g[n] = Kept(items, g[n - 1], n)
      OBVIOUS
    <2>1. n - 1 \in 0 .. N
      BY <1>2
    <2>2. g[n - 1] \in V
      <3> HIDE DEF V
      <3> QED
        BY <2>1
    <2> QED
      BY <1>4, <2>1, <2>2
  <1>6. kept = [n \in 0 .. N |-> IF n = 0 THEN <<>> ELSE Kept(items, kept[n - 1], n)]
    <2>1. g = [n \in 0 .. N |-> IF n = 0 THEN <<>> ELSE Kept(items, g[n - 1], n)]
      <3>1. ASSUME NEW n \in 0 .. N
            PROVE  g[n] = IF n = 0 THEN <<>> ELSE Kept(items, g[n - 1], n)
        BY <1>2, <1>4, <1>5
      <3> QED
        BY <3>1
    <2> QED
      BY <2>1
  <1> HIDE DEF kept
  <1>7. kept[0] = <<>> /\ \A n \in 1 .. N : kept[n] = Kept(items, kept[n - 1], n)
    <2>1. 0 \in 0 .. N /\ \A n \in 1 .. N : n \in 0 .. N /\ n # 0
      BY <1>2
    <2> QED
      BY <1>6, <2>1
  <1> DEFINE S == {n \in 0 .. N : kept[n] \in V /\ Range(kept[n]) = Firsts(items, n)}
  <1>8. 0 \in S
    <2>1. <<>> \in V /\ 0 \in 0 .. N /\ Range(<<>>) = {} /\ Firsts(items, 0) = {}
      BY <1>2 DEF Range, Firsts
    <2> QED
      BY <1>7, <2>1
  <1>9. ASSUME NEW n \in 1 .. N, n - 1 \in S PROVE n \in S
    <2>1. /\ kept[n] = Kept(items, kept[n - 1], n)
          /\ kept[n - 1] \in V /\ Range(kept[n - 1]) = Firsts(items, n - 1)
      BY <1>7, <1>9
    <2>2. Kept(items, kept[n - 1], n) \in V /\ Range(Kept(items, kept[n - 1], n)) = Firsts(items, n)
      BY <1>2, <2>1, TurnFirsts
    <2> QED
      BY <2>1, <2>2
  <1> HIDE DEF S
  <1>10. \A n \in 0 .. N : n \in S
    BY <1>2, <1>8, <1>9, EveryTurn
  <1> QED
    BY <1>1, <1>2, <1>10 DEF S

----------------------------------------------------------------------------
\* Iteration helpers: they agree

LEMMA GroupsArePartition ==
  ASSUME NEW items \in Arrays, NEW g, GroupsOf(items, Len(items), g)
  PROVE  /\ \A i \in DOMAIN items : Cardinality({n \in DOMAIN g : i \in Range(g[n].value)}) = 1
         /\ \A n \in DOMAIN g : \A i, j \in DOMAIN g[n].value : i < j => g[n].value[i] < g[n].value[j]
         /\ \A n, k \in DOMAIN g : n < k => Head(g[n].value) < Head(g[k].value)
  <1>1. DOMAIN items = 1 .. Len(items) /\ Len(items) \in Nat /\ DOMAIN g = 1 .. Len(g)
    BY DEF Arrays, GroupsOf
  <1>2. ASSUME NEW n \in DOMAIN g
        PROVE  g[n].value \in Seq(Nat) /\ DOMAIN g[n].value = 1 .. Len(g[n].value)
    <2>1. g[n] \in Groups
      BY <1>1 DEF GroupsOf
    <2>2. g[n].value \in Seq(Nat)
      BY <2>1 DEF Groups
    <2> QED
      BY <2>2
  <1>3. ASSUME NEW i \in DOMAIN items PROVE Cardinality({n \in DOMAIN g : i \in Range(g[n].value)}) = 1
    <2>1. PICK q \in 1 .. Len(g) : i \in Range(g[q].value)
      BY <1>1 DEF GroupsOf
    <2>2. ASSUME NEW n \in DOMAIN g, i \in Range(g[n].value) PROVE g[n].key = Bucket[items[i]]
      <3>1. \E a \in 1 .. Len(g[n].value) : i = g[n].value[a]
        BY <1>2, <2>2 DEF Range
      <3> QED
        BY <1>1, <3>1 DEF GroupsOf, GroupOf
    <2>3. {n \in DOMAIN g : i \in Range(g[n].value)} = {q}
      <3>1. \A n \in DOMAIN g : i \in Range(g[n].value) => n = q
        BY <1>1, <2>1, <2>2 DEF GroupsOf
      <3> QED
        BY <1>1, <2>1, <3>1
    <2> QED
      BY <2>3, FS_Singleton
  <1>4. ASSUME NEW n \in DOMAIN g, NEW i \in DOMAIN g[n].value, NEW j \in DOMAIN g[n].value, i < j
        PROVE  g[n].value[i] < g[n].value[j]
    BY <1>1, <1>2, <1>4 DEF GroupsOf, GroupOf
  <1>5. ASSUME NEW n \in DOMAIN g, NEW k \in DOMAIN g, n < k PROVE Head(g[n].value) < Head(g[k].value)
    <2>1. \A p \in DOMAIN g : Head(g[p].value) = g[p].value[1]
      BY <1>1, <1>2 DEF GroupsOf, GroupOf
    <2> QED
      BY <1>1, <1>5, <2>1 DEF GroupsOf
  <1> QED
    BY <1>3, <1>4, <1>5

LEMMA AlikeInJson ==
  ASSUME NEW v \in FieldValues, NEW w \in FieldValues, Json[v] = Json[w]
  PROVE  Bucket[v] = Bucket[w]
  BY DEF FieldValues, Json, Bucket

LEMMA UniqueInGroup ==
  ASSUME NEW items \in Arrays, NEW g, GroupsOf(items, Len(items), g), NEW n \in DOMAIN g
  PROVE  LET kept == Firsts(items, Len(items))
             group == g[n].value
         IN  /\ Head(group) \in kept
             /\ Cardinality(kept \cap Range(group)) = Cardinality({Json[items[i]] : i \in Range(group)})
  <1> DEFINE N == Len(items)
             kept == Firsts(items, N)
             group == g[n].value
             G == Range(group)
  <1>1. /\ N \in Nat /\ DOMAIN items = 1 .. N /\ \A i \in 1 .. N : items[i] \in FieldValues
        /\ DOMAIN g = 1 .. Len(g) /\ Len(g) \in Nat
    BY DEF Arrays, GroupsOf
  <1>2. ASSUME NEW p \in DOMAIN g
        PROVE  g[p].value \in Seq(Nat) /\ DOMAIN g[p].value = 1 .. Len(g[p].value)
    <2>1. g[p] \in Groups
      BY <1>1 DEF GroupsOf
    <2>2. g[p].value \in Seq(Nat)
      BY <2>1 DEF Groups
    <2> QED
      BY <2>2
  <1>3. \A p \in DOMAIN g : \A i \in Range(g[p].value) : i \in 1 .. N /\ Bucket[items[i]] = g[p].key
    BY <1>1, <1>2, SMTT(30) DEF GroupsOf, GroupOf, Range
  <1>4. ASSUME NEW i \in G, NEW l \in 1 .. N, Json[items[l]] = Json[items[i]] PROVE l \in G
    <2>1. Bucket[items[l]] = g[n].key
      BY <1>1, <1>3, <1>4, AlikeInJson
    <2>2. PICK q \in DOMAIN g : l \in Range(g[q].value)
      BY <1>1 DEF GroupsOf
    <2>3. g[q].key = g[n].key
      BY <1>3, <2>1, <2>2
    <2> QED
      BY <1>1, <2>2, <2>3 DEF GroupsOf
  <1>5. group # <<>> /\ \A a \in 1 .. Len(group) : group[1] <= group[a]
    BY <1>1, <1>2, SMTT(30) DEF GroupsOf, GroupOf
  <1>6. Head(group) = group[1] /\ group[1] \in G /\ \A i \in G : group[1] <= i
    <2>1. 1 \in DOMAIN group /\ group \in Seq(Nat) /\ DOMAIN group = 1 .. Len(group)
      BY <1>2, <1>5
    <2> HIDE DEF group
    <2> QED
      BY <1>5, <2>1 DEF Range
  <1>7. Head(group) \in kept
    <2>1. PICK l \in kept : l <= group[1] /\ Json[items[l]] = Json[items[group[1]]]
      <3>1. group[1] \in 1 .. N
        BY <1>3, <1>6
      <3> HIDE DEF N, kept, group
      <3>2. \E l \in Firsts(items, N) : l <= group[1] /\ Json[items[l]] = Json[items[group[1]]]
        BY <1>1, <3>1, FirstAlike
      <3> QED
        BY <3>2 DEF kept
    <2>2. l \in 1 .. N
      BY DEF Firsts
    <2>3. l \in G
      BY <1>4, <1>6, <2>1, <2>2
    <2>4. l = group[1]
      BY <1>3, <1>6, <2>1, <2>2, <2>3
    <2> QED
      BY <1>6, <2>4
  <1> DEFINE values == {Json[items[i]] : i \in G}
             same == [i \in kept \cap G |-> Json[items[i]]]
  <1>8. same \in Bijection(kept \cap G, values)
    <2>1. same \in [kept \cap G -> values]
      OBVIOUS
    <2>2. ASSUME NEW i \in kept \cap G, NEW j \in kept \cap G, same[i] = same[j] PROVE i = j
      <3>1. /\ i \in 1 .. N /\ j \in 1 .. N /\ Json[items[i]] = Json[items[j]]
            /\ \A l \in 1 .. i - 1 : Json[items[l]] # Json[items[i]]
            /\ \A l \in 1 .. j - 1 : Json[items[l]] # Json[items[j]]
        BY <2>2 DEF Firsts
      <3> QED
        BY <1>1, <3>1
    <2>3. ASSUME NEW v \in values PROVE \E i \in kept \cap G : same[i] = v
      <3>1. PICK j \in G : v = Json[items[j]]
        OBVIOUS
      <3>2. j \in 1 .. N
        BY <1>3
      <3>3. PICK l \in kept : Json[items[l]] = Json[items[j]]
        <4> HIDE DEF N, G
        <4> QED
          BY <1>1, <3>2, FirstAlike
      <3>4. l \in 1 .. N
        BY DEF Firsts
      <3>5. l \in G
        BY <1>4, <3>3, <3>4
      <3> QED
        BY <3>1, <3>3, <3>5
    <2> HIDE DEF same, values, G, kept
    <2> QED
      BY <2>1, <2>2, <2>3, Fun_IsBij
  <1>9. IsFiniteSet(kept \cap G)
    <2>1. IsFiniteSet(1 .. N) /\ kept \cap G \in SUBSET (1 .. N)
      BY <1>1, FS_Interval DEF Firsts
    <2> HIDE DEF kept, G
    <2> QED
      BY <2>1, FS_Subset
  <1>10. Cardinality(values) = Cardinality(kept \cap G)
    <2> HIDE DEF kept, G, values, same
    <2> QED
      BY <1>8, <1>9, FS_Bijection DEF ExistsBijection
  <1> QED
    BY <1>7, <1>10

----------------------------------------------------------------------------
\* Part 3: the path helpers.  Trees, and one segment

Routes == Seq(Segments)

LEMMA KindsOfTree ==
  ASSUME NEW t \in Trees
  PROVE  /\ IsArray(t) => ~IsObject(t) /\ t.items \in Seq(Trees) /\ t = Array(t.items)
         /\ IsObject(t) => /\ t.fields \in [DOMAIN t.fields -> Trees]
                           /\ t = Object(t.fields)
         /\ Items(t) \in Seq(Trees)
         /\ \A k \in DOMAIN Fields(t) : Fields(t)[k] \in Trees
         /\ t # Absent
  <1>1. CASE t \in [leaf : STRING]
    <2>1. ~IsArray(t) /\ ~IsObject(t) /\ DOMAIN t = {"leaf"}
      BY <1>1 DEF IsArray, IsObject
    <2> QED
      BY <2>1 DEF Items, Fields, Absent
  <1>2. CASE t \in [items : Seq(Trees)]
    <2>1. IsArray(t) /\ ~IsObject(t) /\ t.items \in Seq(Trees) /\ t = Array(t.items) /\ DOMAIN t = {"items"}
      BY <1>2 DEF IsArray, IsObject, Array
    <2> QED
      BY <2>1 DEF Items, Fields, Absent
  <1>3. CASE \E K \in SUBSET Segments : t \in [fields : [K -> Trees]]
    <2>1. PICK K \in SUBSET Segments : t \in [fields : [K -> Trees]]
      BY <1>3
    <2>2. ~IsArray(t) /\ IsObject(t) /\ t.fields \in [K -> Trees] /\ t = Object(t.fields) /\ DOMAIN t = {"fields"}
      BY <2>1 DEF IsArray, IsObject, Object
    <2> QED
      BY <2>2 DEF Items, Fields, Absent
  <1> QED
    BY <1>1, <1>2, <1>3, HelpersAssumption

LEMMA Nothing ==
  /\ ~IsArray(Absent) /\ ~IsObject(Absent)
  /\ ~IsArray(Null) /\ ~IsObject(Null)
  /\ \A s : Below(Absent, s) = Absent /\ Below(Null, s) = Absent
  /\ \A s \in Segments : Child(Absent, s) = Absent
  <1>1. /\ ~IsArray(Absent) /\ ~IsObject(Absent)
        /\ ~IsArray(Null) /\ ~IsObject(Null)
    BY DEF IsArray, IsObject, Absent, Null, Leaf
  <1>2. ASSUME NEW s \in Segments PROVE Child(Absent, s) = Absent
    <2>1. Items(Absent) = <<>> /\ DOMAIN Fields(Absent) = {}
      BY <1>1 DEF Items, Fields
    <2>2. s \in DOMAIN Index => Index[s] \in Int
      BY PathAssumption
    <2>3. s \in DOMAIN Index => PlaceOf(s, 0) = 0
      BY <2>2 DEF PlaceOf
    <2> QED
      BY <2>1, <2>3 DEF Child
  <1> QED
    BY <1>1, <1>2 DEF Below

LEMMA IndexIsNumber ==
  ASSUME NEW s \in DOMAIN Index
  PROVE  Index[s] \in Int
  BY PathAssumption

\* What the segment writes into is written there, and read there.
LEMMA WrittenIsRead ==
  ASSUME NEW w \in Trees, NEW s \in Segments, NEW x,
         s \in DOMAIN Index /\ Index[s] < 0 =>
           Len(Items(w)) + Index[s] >= (IF Len(Items(w)) = 0 THEN -1 ELSE 0)
  PROVE  Below(Written(w, s, x), s) = x
  <1>1. CASE s \in DOMAIN Index
    <2> DEFINE items == Items(w)
               n == Len(items)
               at == Target(s, n)
               size == IF at > n THEN at ELSE n
               f == [i \in 1 .. size |-> IF i = at THEN x ELSE IF i <= n THEN items[i] ELSE Null]
    <2>1. n \in Nat
      BY KindsOfTree
    <2>2. Index[s] \in Int
      BY <1>1, IndexIsNumber
    <2> HIDE DEF items, n
    <2>3. at \in 1 .. size /\ size \in Nat /\ PlaceOf(s, size) = at
      BY <2>1, <2>2, <1>1 DEF Target, PlaceOf, n, items
    <2> HIDE DEF at, size
    <2>4. f[at] = x /\ Len(f) = size
      BY <2>3
    <2>5. Written(w, s, x) = Array(f)
      BY <1>1 DEF Written, items, n, at, size
    <2> HIDE DEF f
    <2>6. /\ ~IsObject(Array(f)) /\ IsArray(Array(f)) /\ Array(f).items = f
      BY DEF IsObject, IsArray, Array
    <2>7. at # 0
      BY <2>3
    <2> QED
      BY <1>1, <2>3, <2>4, <2>5, <2>6, <2>7 DEF Below
  <1>2. CASE s \notin DOMAIN Index
    <2> DEFINE f == [k \in DOMAIN Fields(w) \cup {s} |-> IF k = s THEN x ELSE Fields(w)[k]]
    <2>1. Written(w, s, x) = Object(f)
      BY <1>2 DEF Written
    <2>2. IsObject(Object(f)) /\ Object(f).fields = f /\ s \in DOMAIN f /\ f[s] = x
      BY DEF IsObject, Object
    <2> HIDE DEF f
    <2> QED
      BY <2>1, <2>2 DEF Below
  <1> QED
    BY <1>1, <1>2

\* A place as Located has it.
Spot(s, n) == IF s \in DOMAIN Index THEN [place |-> Target(s, n)] ELSE [key |-> s]

FitsHere(w, s) == w = Null \/ IF s \in DOMAIN Index THEN IsArray(w) ELSE IsObject(w)

\* Segment s is written and segment r read, at the same spot or beside it.
LEMMA WrittenBeside ==
  ASSUME NEW w \in Trees, NEW s \in Segments, NEW r \in Segments, NEW x, FitsHere(w, s),
         r \in DOMAIN Index => Index[r] >= 0,
         Below(w, r) # Absent
  PROVE  \A n : IF Spot(s, Len(Items(w))) = Spot(r, n)
                THEN Below(Written(w, s, x), r) = x /\ Met(w, s) = Below(w, r)
                ELSE Below(Written(w, s, x), r) = Below(w, r)
  <1>1. w # Null
    BY Nothing
  <1>2. CASE s \in DOMAIN Index
    <2> DEFINE items == Items(w)
               n == Len(items)
               at == Target(s, n)
               size == IF at > n THEN at ELSE n
               f == [i \in 1 .. size |-> IF i = at THEN x ELSE IF i <= n THEN items[i] ELSE Null]
               b == Index[r] + 1
    <2>1. n \in Nat /\ IsArray(w) /\ ~IsObject(w) /\ items = w.items
      BY <1>1, <1>2, KindsOfTree DEF FitsHere, Items
    <2>2. Index[s] \in Int
      BY <1>2, IndexIsNumber
    <2> HIDE DEF items, n
    <2>3. /\ r \in DOMAIN Index /\ PlaceOf(r, n) # 0 /\ Below(w, r) = items[PlaceOf(r, n)]
      BY <2>1 DEF Below, n
    <2>4. Index[r] \in Int /\ Index[r] >= 0
      BY <2>3, IndexIsNumber
    <2>5. PlaceOf(r, n) = b /\ b \in 1 .. n /\ \A m : Target(r, m) = b
      BY <2>1, <2>3, <2>4 DEF PlaceOf, Target
    <2>6. at \in Nat /\ at >= 1
      BY <2>1, <2>2 DEF Target
    <2> HIDE DEF at, b
    <2>7. size \in Nat /\ b \in 1 .. size /\ b # 0 /\ b <= n
      BY <2>1, <2>5, <2>6
    <2>8. PlaceOf(r, size) = b
      BY <2>4, <2>7 DEF PlaceOf, b
    <2> HIDE DEF size
    <2>9. Len(f) = size /\ f[b] = IF b = at THEN x ELSE items[b]
      BY <2>7
    <2>10. Written(w, s, x) = Array(f)
      BY <1>2 DEF Written, items, n, at, size
    <2> HIDE DEF f
    <2>11. ~IsObject(Array(f)) /\ IsArray(Array(f)) /\ Array(f).items = f
      BY DEF IsObject, IsArray, Array
    <2>12. Below(Written(w, s, x), r) = f[b]
      BY <2>3, <2>7, <2>8, <2>9, <2>10, <2>11 DEF Below
    <2>13. Spot(s, n) = [place |-> at] /\ \A m : Spot(r, m) = [place |-> b]
      BY <1>2, <2>3, <2>5 DEF Spot, at
    <2>14. \A m : Spot(s, n) = Spot(r, m) <=> at = b
      BY <2>13
    <2>15. at = b => Met(w, s) = items[b]
      BY <1>2, <2>7 DEF Met, at, n, items
    <2> QED
      BY <2>3, <2>5, <2>9, <2>12, <2>14, <2>15 DEF n, items
  <1>3. CASE s \notin DOMAIN Index
    <2> DEFINE f == [k \in DOMAIN Fields(w) \cup {s} |-> IF k = s THEN x ELSE Fields(w)[k]]
    <2>1. IsObject(w) /\ ~IsArray(w) /\ Fields(w) = w.fields
      BY <1>1, <1>3, KindsOfTree DEF FitsHere, Fields
    <2>2. r \in DOMAIN w.fields /\ Below(w, r) = w.fields[r]
      BY <2>1 DEF Below
    <2>3. Written(w, s, x) = Object(f)
      BY <1>3 DEF Written
    <2>4. IsObject(Object(f)) /\ Object(f).fields = f /\ r \in DOMAIN f /\ f[r] = IF r = s THEN x ELSE w.fields[r]
      BY <2>1, <2>2 DEF IsObject, Object
    <2> HIDE DEF f
    <2>5. Below(Written(w, s, x), r) = IF r = s THEN x ELSE w.fields[r]
      BY <2>3, <2>4 DEF Below
    <2>6. \A m : Spot(s, Len(Items(w))) = Spot(r, m) <=> r = s
      BY <1>3 DEF Spot
    <2>7. r = s => Met(w, s) = w.fields[r]
      BY <1>3, <2>1, <2>2 DEF Met
    <2> QED
      BY <2>2, <2>5, <2>6, <2>7
  <1> QED
    BY <1>2, <1>3

\* What a walk meets is part of a tree.
LEMMA PartsAreTrees ==
  ASSUME NEW w \in Trees, NEW s \in Segments
  PROVE  /\ Met(w, s) \in Trees
         /\ Child(w, s) \in Trees \cup {Absent}
         /\ Below(w, s) \in Trees \cup {Absent}
  <1>1. /\ Items(w) \in Seq(Trees) /\ Len(Items(w)) \in Nat /\ Null \in Trees
        /\ \A k \in DOMAIN Fields(w) : Fields(w)[k] \in Trees
    BY KindsOfTree, HelpersAssumption
  <1>2. CASE s \in DOMAIN Index
    <2> DEFINE n == Len(Items(w))
    <2>1. Index[s] \in Int
      BY <1>2, IndexIsNumber
    <2>2. Target(s, n) \in Nat \ {0} /\ PlaceOf(s, n) \in 0 .. n
      BY <1>1, <2>1 DEF Target, PlaceOf
    <2>3. Target(s, n) <= n => Items(w)[Target(s, n)] \in Trees
      BY <1>1, <2>2
    <2>4. PlaceOf(s, n) # 0 => Items(w)[PlaceOf(s, n)] \in Trees
      BY <1>1, <2>2
    <2>5. Met(w, s) \in Trees /\ Child(w, s) \in Trees \cup {Absent}
      BY <1>1, <1>2, <2>3, <2>4 DEF Met, Child
    <2>6. Below(w, s) \in Trees \cup {Absent}
      BY <1>1, <2>4 DEF Below, Items, Fields
    <2> QED
      BY <2>5, <2>6
  <1>3. CASE s \notin DOMAIN Index
    BY <1>1, <1>3 DEF Met, Child, Below, Fields
  <1> QED
    BY <1>2, <1>3

\* A number that names no field: dp_get and dp_delete find the same.
LEMMA ChildIsBelow ==
  ASSUME NEW w \in Trees \cup {Absent}, NEW s \in Segments,
         ~(s \in DOMAIN Index /\ IsObject(w) /\ s \in DOMAIN w.fields)
  PROVE  Child(w, s) = Below(w, s)
  <1>1. CASE w = Absent
    BY <1>1, Nothing
  <1>2. CASE w \in Trees
    <2>1. CASE s \in DOMAIN Index
      <3>1. Index[s] \in Int
        BY <2>1, IndexIsNumber
      <3>2. PlaceOf(s, 0) = 0
        BY <3>1 DEF PlaceOf
      <3>3. Len(<<>>) = 0
        OBVIOUS
      <3>4. CASE IsArray(w)
        <4>1. ~IsObject(w) /\ Items(w) = w.items
          BY <1>2, <3>4, KindsOfTree DEF Items
        <4> QED
          BY <2>1, <3>4, <4>1 DEF Child, Below
      <3>5. CASE ~IsArray(w)
        <4>1. Items(w) = <<>>
          BY <3>5 DEF Items
        <4> QED
          BY <2>1, <3>2, <3>3, <3>5, <4>1 DEF Child, Below
      <3> QED
        BY <3>4, <3>5
    <2>2. CASE s \notin DOMAIN Index
      BY <2>2 DEF Child, Below, Fields
    <2> QED
      BY <2>1, <2>2
  <1> QED
    BY <1>1, <1>2

\* Where the segment finds something.
LEMMA ChildIsThere ==
  ASSUME NEW w \in Trees, NEW s \in Segments, Child(w, s) # Absent
  PROVE  \/ /\ s \in DOMAIN Index /\ w = Array(w.items) /\ w.items \in Seq(Trees)
            /\ PlaceOf(s, Len(w.items)) \in DOMAIN w.items
            /\ Child(w, s) = w.items[PlaceOf(s, Len(w.items))]
         \/ /\ s \notin DOMAIN Index /\ w = Object(w.fields) /\ w.fields \in [DOMAIN w.fields -> Trees]
            /\ s \in DOMAIN w.fields
            /\ Child(w, s) = w.fields[s]
  <1>1. CASE s \in DOMAIN Index
    <2>1. Index[s] \in Int
      BY <1>1, IndexIsNumber
    <2>2. PlaceOf(s, Len(Items(w))) # 0 /\ Child(w, s) = Items(w)[PlaceOf(s, Len(Items(w)))]
      BY <1>1 DEF Child
    <2>3. Items(w) # <<>>
      <3>1. PlaceOf(s, 0) = 0 /\ Len(<<>>) = 0
        BY <2>1 DEF PlaceOf
      <3> QED
        BY <2>2, <3>1
    <2>4. IsArray(w) /\ Items(w) = w.items
      BY <2>3 DEF Items
    <2>5. w.items \in Seq(Trees) /\ w = Array(w.items)
      BY <2>4, KindsOfTree
    <2>6. Len(w.items) \in Nat /\ DOMAIN w.items = 1 .. Len(w.items)
      BY <2>5
    <2>7. PlaceOf(s, Len(w.items)) \in 1 .. Len(w.items)
      BY <2>1, <2>2, <2>4, <2>6 DEF PlaceOf
    <2> QED
      BY <1>1, <2>2, <2>4, <2>5, <2>6, <2>7
  <1>2. CASE s \notin DOMAIN Index
    <2>1. s \in DOMAIN Fields(w) /\ Child(w, s) = Fields(w)[s]
      BY <1>2 DEF Child
    <2>2. IsObject(w)
      BY <2>1 DEF Fields
    <2> QED
      BY <1>2, <2>1, <2>2, KindsOfTree DEF Fields
  <1> QED
    BY <1>1, <1>2

LEMMA ReplacedByItself ==
  ASSUME NEW w \in Trees, NEW s \in Segments, Child(w, s) # Absent
  PROVE  Replaced(w, s, Child(w, s)) = w
  <1>1. CASE s \in DOMAIN Index
    <2> DEFINE p == PlaceOf(s, Len(w.items))
    <2>1. /\ w = Array(w.items) /\ w.items \in Seq(Trees) /\ p \in DOMAIN w.items
          /\ Child(w, s) = w.items[p]
      BY <1>1, ChildIsThere
    <2>2. [w.items EXCEPT ![p] = w.items[p]] = w.items
      <3> HIDE DEF p
      <3> QED
        BY <2>1
    <2> QED
      BY <1>1, <2>1, <2>2 DEF Replaced
  <1>2. CASE s \notin DOMAIN Index
    <2>1. /\ w = Object(w.fields) /\ w.fields \in [DOMAIN w.fields -> Trees] /\ s \in DOMAIN w.fields
          /\ Child(w, s) = w.fields[s]
      BY <1>2, ChildIsThere
    <2>2. [w.fields EXCEPT ![s] = w.fields[s]] = w.fields
      BY <2>1
    <2> QED
      BY <1>2, <2>1, <2>2 DEF Replaced
  <1> QED
    BY <1>1, <1>2

LEMMA ReplacedByAnother ==
  ASSUME NEW w \in Trees, NEW s \in Segments, NEW x, Child(w, s) # Absent, x # Child(w, s)
  PROVE  Replaced(w, s, x) # w
  <1>1. CASE s \in DOMAIN Index
    <2> DEFINE p == PlaceOf(s, Len(w.items))
               f == [w.items EXCEPT ![p] = x]
    <2>1. p \in DOMAIN w.items /\ Child(w, s) = w.items[p]
      BY <1>1, ChildIsThere
    <2>2. f[p] = x
      <3> HIDE DEF p
      <3> QED
        BY <2>1
    <2>3. Replaced(w, s, x) = Array(f)
      BY <1>1 DEF Replaced
    <2> HIDE DEF f
    <2>4. Array(f).items = f
      BY DEF Array
    <2> QED
      BY <2>1, <2>2, <2>3, <2>4
  <1>2. CASE s \notin DOMAIN Index
    <2> DEFINE f == [w.fields EXCEPT ![s] = x]
    <2>1. s \in DOMAIN w.fields /\ Child(w, s) = w.fields[s]
      BY <1>2, ChildIsThere
    <2>2. f[s] = x
      BY <2>1
    <2>3. Replaced(w, s, x) = Object(f)
      BY <1>2 DEF Replaced
    <2> HIDE DEF f
    <2>4. Object(f).fields = f
      BY DEF Object
    <2> QED
      BY <2>1, <2>2, <2>3, <2>4
  <1> QED
    BY <1>1, <1>2

LEMMA WithoutIsAnother ==
  ASSUME NEW w \in Trees, NEW s \in Segments, Child(w, s) # Absent
  PROVE  WithoutChild(w, s) # w
  <1>1. CASE s \in DOMAIN Index
    <2> DEFINE at == PlaceOf(s, Len(w.items))
               f == [j \in 1 .. Len(w.items) - 1 |-> IF j < at THEN w.items[j] ELSE w.items[j + 1]]
    <2>1. w.items \in Seq(Trees) /\ at \in DOMAIN w.items
      BY <1>1, ChildIsThere
    <2> HIDE DEF at
    <2>2. Len(w.items) \in Nat /\ DOMAIN w.items = 1 .. Len(w.items) /\ Len(w.items) \in DOMAIN w.items
      BY <2>1
    <2>3. DOMAIN f = 1 .. Len(w.items) - 1
      OBVIOUS
    <2>4. WithoutChild(w, s) = Array(f)
      BY <1>1 DEF WithoutChild, at
    <2> HIDE DEF f
    <2>5. Array(f).items = f
      BY DEF Array
    <2>6. f # w.items
      <3>1. Len(w.items) \notin DOMAIN f
        BY <2>2, <2>3
      <3> QED
        BY <2>2, <3>1
    <2> QED
      BY <2>4, <2>5, <2>6
  <1>2. CASE s \notin DOMAIN Index
    <2> DEFINE f == [k \in DOMAIN w.fields \ {s} |-> w.fields[k]]
    <2>1. s \in DOMAIN w.fields /\ s \notin DOMAIN f
      BY <1>2, ChildIsThere
    <2>2. WithoutChild(w, s) = Object(f)
      BY <1>2 DEF WithoutChild
    <2> HIDE DEF f
    <2>3. Object(f).fields = f
      BY DEF Object
    <2> QED
      BY <2>1, <2>2, <2>3
  <1> QED
    BY <1>1, <1>2

----------------------------------------------------------------------------
\* Path helpers: what the loops have after each segment

LEMMA WalkLoop ==
  ASSUME NEW v, NEW path \in Routes
  PROVE  /\ Walk(v, path)[0] = v
         /\ \A n \in 1 .. Len(path) : Walk(v, path)[n] = Below(Walk(v, path)[n - 1], path[n])
  <1> DEFINE N == Len(path)
             turns(n, g) == g = [k \in 0 .. n |-> IF k = 0 THEN v ELSE Below(g[k - 1], path[k])]
             at[n \in 0 .. Len(path)] == IF n = 0 THEN v ELSE Below(at[n - 1], path[n])
             S == {n \in 0 .. N : \E g : turns(n, g)}
  <1>1. N \in Nat
    BY DEF Routes
  <1>2. 0 \in S
    <2>1. turns(0, [k \in 0 .. 0 |-> v])
      OBVIOUS
    <2> HIDE DEF turns
    <2>2. 0 \in 0 .. N /\ \E g : turns(0, g)
      BY <1>1, <2>1
    <2> QED
      BY <2>2
  <1>3. ASSUME NEW n \in 1 .. N, n - 1 \in S PROVE n \in S
    <2>1. PICK g : turns(n - 1, g)
      BY <1>3
    <2> DEFINE h == [j \in 0 .. n |-> IF j = n THEN Below(g[n - 1], path[n]) ELSE g[j]]
    <2>2. ASSUME NEW j \in 0 .. n PROVE h[j] = IF j = 0 THEN v ELSE Below(h[j - 1], path[j])
      <3>1. CASE j = 0
        BY <1>1, <2>1, <3>1
      <3>2. CASE j = n
        BY <1>1, <3>2
      <3>3. CASE j # 0 /\ j # n
        <4>1. j \in 1 .. n - 1 /\ j - 1 \in 0 .. n - 1
          BY <3>3
        <4>2. h[j] = g[j] /\ h[j - 1] = g[j - 1]
          BY <4>1
        <4>3. g[j] = Below(g[j - 1], path[j])
          BY <2>1, <4>1
        <4> HIDE DEF h
        <4> QED
          BY <3>3, <4>2, <4>3
      <3> QED
        BY <3>1, <3>2, <3>3
    <2>3. turns(n, h)
      <3>1. h = [j \in 0 .. n |-> h[j]]
        OBVIOUS
      <3> HIDE DEF h
      <3> QED
        BY <2>2, <3>1
    <2> HIDE DEF turns, h
    <2> QED
      BY <1>1, <2>3
  <1>4. \E g : turns(N, g)
    <2> HIDE DEF S
    <2>1. \A n \in 0 .. N : n \in S
      BY <1>1, <1>2, <1>3, EveryTurn
    <2>2. N \in S
      BY <1>1, <2>1
    <2> QED
      BY <2>2 DEF S
  <1>5. at = [n \in 0 .. N |-> IF n = 0 THEN v ELSE Below(at[n - 1], path[n])]
    BY <1>4
  <1> HIDE DEF at
  <1>6. at[0] = v /\ \A n \in 1 .. N : at[n] = Below(at[n - 1], path[n])
    <2>1. 0 \in 0 .. N /\ \A n \in 1 .. N : n \in 0 .. N /\ n # 0
      BY <1>1
    <2> QED
      BY <1>5, <2>1
  <1>7. Walk(v, path) = at
    BY DEF Walk, at
  <1> QED
    BY <1>6, <1>7

LEMMA DescentLoop ==
  ASSUME NEW v, NEW path \in Routes
  PROVE  /\ Descent(v, path)[0] = v
         /\ \A n \in 1 .. Len(path) : Descent(v, path)[n] = Met(Descent(v, path)[n - 1], path[n])
  <1> DEFINE N == Len(path)
             turns(n, g) == g = [k \in 0 .. n |-> IF k = 0 THEN v ELSE Met(g[k - 1], path[k])]
             at[n \in 0 .. Len(path)] == IF n = 0 THEN v ELSE Met(at[n - 1], path[n])
             S == {n \in 0 .. N : \E g : turns(n, g)}
  <1>1. N \in Nat
    BY DEF Routes
  <1>2. 0 \in S
    <2>1. turns(0, [k \in 0 .. 0 |-> v])
      OBVIOUS
    <2> HIDE DEF turns
    <2>2. 0 \in 0 .. N /\ \E g : turns(0, g)
      BY <1>1, <2>1
    <2> QED
      BY <2>2
  <1>3. ASSUME NEW n \in 1 .. N, n - 1 \in S PROVE n \in S
    <2>1. PICK g : turns(n - 1, g)
      BY <1>3
    <2> DEFINE h == [j \in 0 .. n |-> IF j = n THEN Met(g[n - 1], path[n]) ELSE g[j]]
    <2>2. ASSUME NEW j \in 0 .. n PROVE h[j] = IF j = 0 THEN v ELSE Met(h[j - 1], path[j])
      <3>1. CASE j = 0
        BY <1>1, <2>1, <3>1
      <3>2. CASE j = n
        BY <1>1, <3>2
      <3>3. CASE j # 0 /\ j # n
        <4>1. j \in 1 .. n - 1 /\ j - 1 \in 0 .. n - 1
          BY <3>3
        <4>2. h[j] = g[j] /\ h[j - 1] = g[j - 1]
          BY <4>1
        <4>3. g[j] = Met(g[j - 1], path[j])
          BY <2>1, <4>1
        <4> HIDE DEF h
        <4> QED
          BY <3>3, <4>2, <4>3
      <3> QED
        BY <3>1, <3>2, <3>3
    <2>3. turns(n, h)
      <3>1. h = [j \in 0 .. n |-> h[j]]
        OBVIOUS
      <3> HIDE DEF h
      <3> QED
        BY <2>2, <3>1
    <2> HIDE DEF turns, h
    <2> QED
      BY <1>1, <2>3
  <1>4. \E g : turns(N, g)
    <2> HIDE DEF S
    <2>1. \A n \in 0 .. N : n \in S
      BY <1>1, <1>2, <1>3, EveryTurn
    <2>2. N \in S
      BY <1>1, <2>1
    <2> QED
      BY <2>2 DEF S
  <1>5. at = [n \in 0 .. N |-> IF n = 0 THEN v ELSE Met(at[n - 1], path[n])]
    BY <1>4
  <1> HIDE DEF at
  <1>6. at[0] = v /\ \A n \in 1 .. N : at[n] = Met(at[n - 1], path[n])
    <2>1. 0 \in 0 .. N /\ \A n \in 1 .. N : n \in 0 .. N /\ n # 0
      BY <1>1
    <2> QED
      BY <1>5, <2>1
  <1>7. Descent(v, path) = at
    BY DEF Descent, at
  <1> QED
    BY <1>6, <1>7

LEMMA ApproachLoop ==
  ASSUME NEW v, NEW path \in Routes
  PROVE  /\ Approach(v, path)[0] = v
         /\ \A n \in 1 .. Len(path) : Approach(v, path)[n] = Child(Approach(v, path)[n - 1], path[n])
  <1> DEFINE N == Len(path)
             turns(n, g) == g = [k \in 0 .. n |-> IF k = 0 THEN v ELSE Child(g[k - 1], path[k])]
             at[n \in 0 .. Len(path)] == IF n = 0 THEN v ELSE Child(at[n - 1], path[n])
             S == {n \in 0 .. N : \E g : turns(n, g)}
  <1>1. N \in Nat
    BY DEF Routes
  <1>2. 0 \in S
    <2>1. turns(0, [k \in 0 .. 0 |-> v])
      OBVIOUS
    <2> HIDE DEF turns
    <2>2. 0 \in 0 .. N /\ \E g : turns(0, g)
      BY <1>1, <2>1
    <2> QED
      BY <2>2
  <1>3. ASSUME NEW n \in 1 .. N, n - 1 \in S PROVE n \in S
    <2>1. PICK g : turns(n - 1, g)
      BY <1>3
    <2> DEFINE h == [j \in 0 .. n |-> IF j = n THEN Child(g[n - 1], path[n]) ELSE g[j]]
    <2>2. ASSUME NEW j \in 0 .. n PROVE h[j] = IF j = 0 THEN v ELSE Child(h[j - 1], path[j])
      <3>1. CASE j = 0
        BY <1>1, <2>1, <3>1
      <3>2. CASE j = n
        BY <1>1, <3>2
      <3>3. CASE j # 0 /\ j # n
        <4>1. j \in 1 .. n - 1 /\ j - 1 \in 0 .. n - 1
          BY <3>3
        <4>2. h[j] = g[j] /\ h[j - 1] = g[j - 1]
          BY <4>1
        <4>3. g[j] = Child(g[j - 1], path[j])
          BY <2>1, <4>1
        <4> HIDE DEF h
        <4> QED
          BY <3>3, <4>2, <4>3
      <3> QED
        BY <3>1, <3>2, <3>3
    <2>3. turns(n, h)
      <3>1. h = [j \in 0 .. n |-> h[j]]
        OBVIOUS
      <3> HIDE DEF h
      <3> QED
        BY <2>2, <3>1
    <2> HIDE DEF turns, h
    <2> QED
      BY <1>1, <2>3
  <1>4. \E g : turns(N, g)
    <2> HIDE DEF S
    <2>1. \A n \in 0 .. N : n \in S
      BY <1>1, <1>2, <1>3, EveryTurn
    <2>2. N \in S
      BY <1>1, <2>1
    <2> QED
      BY <2>2 DEF S
  <1>5. at = [n \in 0 .. N |-> IF n = 0 THEN v ELSE Child(at[n - 1], path[n])]
    BY <1>4
  <1> HIDE DEF at
  <1>6. at[0] = v /\ \A n \in 1 .. N : at[n] = Child(at[n - 1], path[n])
    <2>1. 0 \in 0 .. N /\ \A n \in 1 .. N : n \in 0 .. N /\ n # 0
      BY <1>1
    <2> QED
      BY <1>5, <2>1
  <1>7. Approach(v, path) = at
    BY DEF Approach, at
  <1> QED
    BY <1>6, <1>7

LEMMA RewrittenLoop ==
  ASSUME NEW v, NEW path \in Routes, NEW x
  PROVE  /\ Rewritten(v, path, x)[0] = x
         /\ \A n \in 1 .. Len(path) :
              Rewritten(v, path, x)[n] = Written(Descent(v, path)[Len(path) - n], path[Len(path) - n + 1], Rewritten(v, path, x)[n - 1])
  <1> DEFINE N == Len(path)
             turns(n, g) == g = [k \in 0 .. n |-> IF k = 0 THEN x ELSE Written(Descent(v, path)[Len(path) - k], path[Len(path) - k + 1], g[k - 1])]
             at == Rewritten(v, path, x)
             S == {n \in 0 .. N : \E g : turns(n, g)}
  <1>1. N \in Nat
    BY DEF Routes
  <1>2. 0 \in S
    <2>1. turns(0, [k \in 0 .. 0 |-> x])
      OBVIOUS
    <2> HIDE DEF turns
    <2>2. 0 \in 0 .. N /\ \E g : turns(0, g)
      BY <1>1, <2>1
    <2> QED
      BY <2>2
  <1>3. ASSUME NEW n \in 1 .. N, n - 1 \in S PROVE n \in S
    <2>1. PICK g : turns(n - 1, g)
      BY <1>3
    <2> DEFINE h == [j \in 0 .. n |-> IF j = n THEN Written(Descent(v, path)[Len(path) - n], path[Len(path) - n + 1], g[n - 1]) ELSE g[j]]
    <2>2. ASSUME NEW j \in 0 .. n PROVE h[j] = IF j = 0 THEN x ELSE Written(Descent(v, path)[Len(path) - j], path[Len(path) - j + 1], h[j - 1])
      <3>1. CASE j = 0
        BY <1>1, <2>1, <3>1
      <3>2. CASE j = n
        BY <1>1, <3>2
      <3>3. CASE j # 0 /\ j # n
        <4>1. j \in 1 .. n - 1 /\ j - 1 \in 0 .. n - 1
          BY <3>3
        <4>2. h[j] = g[j] /\ h[j - 1] = g[j - 1]
          BY <4>1
        <4>3. g[j] = Written(Descent(v, path)[Len(path) - j], path[Len(path) - j + 1], g[j - 1])
          BY <2>1, <4>1
        <4> HIDE DEF h
        <4> QED
          BY <3>3, <4>2, <4>3
      <3> QED
        BY <3>1, <3>2, <3>3
    <2>3. turns(n, h)
      <3>1. h = [j \in 0 .. n |-> h[j]]
        OBVIOUS
      <3> HIDE DEF h
      <3> QED
        BY <2>2, <3>1
    <2> HIDE DEF turns, h
    <2> QED
      BY <1>1, <2>3
  <1>4. \E g : turns(N, g)
    <2> HIDE DEF S
    <2>1. \A n \in 0 .. N : n \in S
      BY <1>1, <1>2, <1>3, EveryTurn
    <2>2. N \in S
      BY <1>1, <2>1
    <2> QED
      BY <2>2 DEF S
  <1>5. at = [n \in 0 .. N |-> IF n = 0 THEN x ELSE Written(Descent(v, path)[Len(path) - n], path[Len(path) - n + 1], at[n - 1])]
    BY <1>4 DEF Rewritten
  <1> HIDE DEF at
  <1>6. at[0] = x /\ \A n \in 1 .. N : at[n] = Written(Descent(v, path)[Len(path) - n], path[Len(path) - n + 1], at[n - 1])
    <2>1. 0 \in 0 .. N /\ \A n \in 1 .. N : n \in 0 .. N /\ n # 0
      BY <1>1
    <2> QED
      BY <1>5, <2>1
  <1> QED
    BY <1>6 DEF at

DeletedAt(w, s, n, below) ==
  IF Child(w, s) = Absent THEN w ELSE IF n = 1 THEN WithoutChild(w, s) ELSE Replaced(w, s, below)

LEMMA DeletedLoop ==
  ASSUME NEW v, NEW path \in Routes
  PROVE  /\ Deleted(v, path)[0] = Absent
         /\ \A n \in 1 .. Len(path) :
              Deleted(v, path)[n] = DeletedAt(Approach(v, path)[Len(path) - n], path[Len(path) - n + 1], n, Deleted(v, path)[n - 1])
  <1> DEFINE N == Len(path)
             turns(n, g) == g = [k \in 0 .. n |-> IF k = 0 THEN Absent ELSE DeletedAt(Approach(v, path)[Len(path) - k], path[Len(path) - k + 1], k, g[k - 1])]
             at == Deleted(v, path)
             S == {n \in 0 .. N : \E g : turns(n, g)}
  <1>1. N \in Nat
    BY DEF Routes
  <1>2. 0 \in S
    <2>1. turns(0, [k \in 0 .. 0 |-> Absent])
      OBVIOUS
    <2> HIDE DEF turns
    <2>2. 0 \in 0 .. N /\ \E g : turns(0, g)
      BY <1>1, <2>1
    <2> QED
      BY <2>2
  <1>3. ASSUME NEW n \in 1 .. N, n - 1 \in S PROVE n \in S
    <2>1. PICK g : turns(n - 1, g)
      BY <1>3
    <2> DEFINE h == [j \in 0 .. n |-> IF j = n THEN DeletedAt(Approach(v, path)[Len(path) - n], path[Len(path) - n + 1], n, g[n - 1]) ELSE g[j]]
    <2>2. ASSUME NEW j \in 0 .. n PROVE h[j] = IF j = 0 THEN Absent ELSE DeletedAt(Approach(v, path)[Len(path) - j], path[Len(path) - j + 1], j, h[j - 1])
      <3>1. CASE j = 0
        BY <1>1, <2>1, <3>1
      <3>2. CASE j = n
        BY <1>1, <3>2
      <3>3. CASE j # 0 /\ j # n
        <4>1. j \in 1 .. n - 1 /\ j - 1 \in 0 .. n - 1
          BY <3>3
        <4>2. h[j] = g[j] /\ h[j - 1] = g[j - 1]
          BY <4>1
        <4>3. g[j] = DeletedAt(Approach(v, path)[Len(path) - j], path[Len(path) - j + 1], j, g[j - 1])
          BY <2>1, <4>1
        <4> HIDE DEF h
        <4> QED
          BY <3>3, <4>2, <4>3
      <3> QED
        BY <3>1, <3>2, <3>3
    <2>3. turns(n, h)
      <3>1. h = [j \in 0 .. n |-> h[j]]
        OBVIOUS
      <3> HIDE DEF h
      <3> QED
        BY <2>2, <3>1
    <2> HIDE DEF turns, h
    <2> QED
      BY <1>1, <2>3
  <1>4. \E g : turns(N, g)
    <2> HIDE DEF S
    <2>1. \A n \in 0 .. N : n \in S
      BY <1>1, <1>2, <1>3, EveryTurn
    <2>2. N \in S
      BY <1>1, <2>1
    <2> QED
      BY <2>2 DEF S
  <1>5. at = [n \in 0 .. N |-> IF n = 0 THEN Absent ELSE DeletedAt(Approach(v, path)[Len(path) - n], path[Len(path) - n + 1], n, at[n - 1])]
    BY <1>4 DEF Deleted, DeletedAt
  <1> HIDE DEF at
  <1>6. at[0] = Absent /\ \A n \in 1 .. N : at[n] = DeletedAt(Approach(v, path)[Len(path) - n], path[Len(path) - n + 1], n, at[n - 1])
    <2>1. 0 \in 0 .. N /\ \A n \in 1 .. N : n \in 0 .. N /\ n # 0
      BY <1>1
    <2> QED
      BY <1>5, <2>1
  <1> QED
    BY <1>6 DEF at

----------------------------------------------------------------------------
\* Path helpers: they agree

LEMMA DescentInTrees ==
  ASSUME NEW v \in Trees, NEW path \in Routes
  PROVE  \A n \in 0 .. Len(path) : Descent(v, path)[n] \in Trees
  <1> DEFINE at == Descent(v, path)
             S == {n \in 0 .. Len(path) : at[n] \in Trees}
  <1>1. Len(path) \in Nat /\ \A n \in 1 .. Len(path) : path[n] \in Segments
    BY DEF Routes
  <1>2. at[0] = v /\ \A n \in 1 .. Len(path) : at[n] = Met(at[n - 1], path[n])
    BY DescentLoop
  <1> HIDE DEF at
  <1>3. 0 \in S
    BY <1>1, <1>2
  <1>4. ASSUME NEW n \in 1 .. Len(path), n - 1 \in S PROVE n \in S
    <2>1. at[n] = Met(at[n - 1], path[n]) /\ at[n - 1] \in Trees /\ path[n] \in Segments
      BY <1>1, <1>2, <1>4
    <2>2. at[n] \in Trees
      BY <2>1, PartsAreTrees
    <2> QED
      BY <1>1, <2>2
  <1>5. \A n \in 0 .. Len(path) : n \in S
    <2> HIDE DEF S
    <2> QED
      BY <1>1, <1>3, <1>4, EveryTurn
  <1> QED
    BY <1>5 DEF at

LEMMA WalkInTrees ==
  ASSUME NEW v \in Trees, NEW path \in Routes
  PROVE  /\ \A n \in 0 .. Len(path) : Walk(v, path)[n] \in Trees \cup {Absent}
         /\ HasPath(v, path) => \A n \in 0 .. Len(path) : Walk(v, path)[n] # Absent
  <1> DEFINE N == Len(path)
             at == Walk(v, path)
             S == {n \in 0 .. N : at[n] \in Trees \cup {Absent}}
             T == {n \in 0 .. N : at[N - n] # Absent}
  <1>1. N \in Nat /\ \A n \in 1 .. N : path[n] \in Segments
    BY DEF Routes
  <1>2. at[0] = v /\ \A n \in 1 .. N : at[n] = Below(at[n - 1], path[n])
    BY WalkLoop
  <1>3. HasPath(v, path) => at[N] # Absent
    BY DEF HasPath, Get
  <1> HIDE DEF at, N
  <1>4. 0 \in S
    BY <1>1, <1>2
  <1>5. ASSUME NEW n \in 1 .. N, n - 1 \in S PROVE n \in S
    <2>1. at[n] = Below(at[n - 1], path[n]) /\ at[n - 1] \in Trees \cup {Absent} /\ path[n] \in Segments
      BY <1>1, <1>2, <1>5
    <2>2. at[n] \in Trees \cup {Absent}
      BY <2>1, PartsAreTrees, Nothing
    <2> QED
      BY <1>1, <2>2
  <1>6. \A n \in 0 .. N : n \in S
    <2> HIDE DEF S
    <2> QED
      BY <1>1, <1>4, <1>5, EveryTurn
  <1>7. ASSUME HasPath(v, path) PROVE \A n \in 0 .. N : at[n] # Absent
    <2>1. 0 \in T
      BY <1>1, <1>3, <1>7
    <2>2. ASSUME NEW n \in 1 .. N, n - 1 \in T PROVE n \in T
      <3>1. N - (n - 1) \in 1 .. N /\ (N - (n - 1)) - 1 = N - n
        BY <1>1
      <3>2. at[N - (n - 1)] # Absent
        BY <2>2
      <3>3. at[N - (n - 1)] = Below(at[N - n], path[N - (n - 1)])
        BY <1>2, <3>1
      <3>4. at[N - n] # Absent
        BY <3>2, <3>3, Nothing
      <3> QED
        BY <1>1, <3>4
    <2>3. \A n \in 0 .. N : n \in T
      <3> HIDE DEF T
      <3> QED
        BY <1>1, <2>1, <2>2, EveryTurn
    <2> SUFFICES ASSUME NEW n \in 0 .. N PROVE at[n] # Absent
      OBVIOUS
    <2>4. N - n \in 0 .. N /\ N - (N - n) = n
      BY <1>1
    <2>5. N - n \in T
      BY <2>3, <2>4
    <2> QED
      BY <2>4, <2>5
  <1> QED
    BY <1>6, <1>7 DEF at, N

\* The values along a rewritten path are the rewritten values.
LEMMA SetIsGot ==
  ASSUME NEW v \in Trees, NEW path \in Routes, NEW x, ~FallsOff(v, path)
  PROVE  Get(Set(v, path, x), path) = x
  <1> DEFINE N == Len(path)
             D == Descent(v, path)
             R == Rewritten(v, path, x)
             W == Walk(Set(v, path, x), path)
             S == {n \in 0 .. N : W[n] = R[N - n]}
  <1>1. N \in Nat /\ DOMAIN path = 1 .. N /\ \A n \in 1 .. N : path[n] \in Segments
    BY DEF Routes
  <1>2. \A n \in 0 .. N : D[n] \in Trees
    BY DescentInTrees
  <1>3. R[0] = x /\ \A n \in 1 .. N : R[n] = Written(D[N - n], path[N - n + 1], R[n - 1])
    BY RewrittenLoop
  <1>4. W[0] = R[N] /\ \A n \in 1 .. N : W[n] = Below(W[n - 1], path[n])
    BY WalkLoop DEF Set
  <1>5. ASSUME NEW n \in 1 .. N, path[n] \in DOMAIN Index, Index[path[n]] < 0
        PROVE  Len(Items(D[n - 1])) + Index[path[n]] >= (IF Len(Items(D[n - 1])) = 0 THEN -1 ELSE 0)
    <2> DEFINE i == Index[path[n]]
               size == Len(Items(D[n - 1]))
    <2>1. i \in Int
      BY <1>5, IndexIsNumber
    <2>2. size \in Nat
      <3>1. D[n - 1] \in Trees
        BY <1>1, <1>2
      <3> HIDE DEF D
      <3> QED
        BY <3>1, KindsOfTree
    <2>3. ~(size + i < (IF size = 0 THEN -1 ELSE 0))
      BY <1>1, <1>5 DEF FallsOff
    <2> HIDE DEF i, size
    <2>4. size + i >= (IF size = 0 THEN -1 ELSE 0)
      BY <2>1, <2>2, <2>3
    <2> QED
      BY <2>4 DEF i, size
  <1> HIDE DEF D, R, W, N
  <1>6. 0 \in S
    BY <1>1, <1>4
  <1>7. ASSUME NEW n \in 1 .. N, n - 1 \in S PROVE n \in S
    <2>1. N - (n - 1) \in 1 .. N /\ N - (N - (n - 1)) = n - 1 /\ (n - 1) + 1 = n /\ (N - (n - 1)) - 1 = N - n
      BY <1>1
    <2>2. W[n - 1] = R[N - (n - 1)]
      BY <1>7
    <2>3. R[N - (n - 1)] = Written(D[n - 1], path[n], R[N - n])
      <3>1. PICK m : m = N - (n - 1)
        OBVIOUS
      <3>2. m \in 1 .. N /\ N - m = n - 1 /\ N - m + 1 = n /\ m - 1 = N - n
        BY <2>1, <3>1
      <3> QED
        BY <1>3, <3>1, <3>2
    <2>4. D[n - 1] \in Trees /\ path[n] \in Segments
      BY <1>1, <1>2
    <2>5. Below(Written(D[n - 1], path[n], R[N - n]), path[n]) = R[N - n]
      BY <1>5, <2>4, WrittenIsRead
    <2>6. W[n] = R[N - n]
      BY <1>4, <2>2, <2>3, <2>5
    <2> QED
      BY <1>1, <2>6
  <1>8. \A n \in 0 .. N : n \in S
    <2> HIDE DEF S
    <2> QED
      BY <1>1, <1>6, <1>7, EveryTurn
  <1>9. W[N] = R[N - N] /\ N - N = 0
    BY <1>1, <1>8
  <1>10. W[N] = x
    BY <1>3, <1>9
  <1> QED
    BY <1>10 DEF Get, W, N

LEMMA WhereTheyPart ==
  ASSUME NEW N \in Nat, NEW M \in Nat, NEW here, NEW there,
         DOMAIN here = 1 .. N, DOMAIN there = 1 .. M, Len(here) = N, Len(there) = M,
         ~Prefix(here, there), ~Prefix(there, here)
  PROVE  \E d \in 1 .. N : /\ d \in 1 .. M /\ here[d] # there[d]
                           /\ \A n \in 1 .. d - 1 : here[n] = there[n]
  <1> DEFINE S == {n \in 1 .. N : n \in 1 .. M /\ here[n] # there[n]}
  <1>1. S # {}
    <2>1. CASE N <= M
      <3>1. \E i \in 1 .. N : here[i] # there[i]
        BY <2>1 DEF Prefix
      <3> QED
        BY <2>1, <3>1
    <2>2. CASE M <= N
      <3>1. \E i \in 1 .. M : here[i] # there[i]
        BY <2>2 DEF Prefix
      <3> QED
        BY <2>2, <3>1
    <2> QED
      BY <2>1, <2>2
  <1>2. PICK d \in S : \A n \in S : d <= n
    <2>1. S \in SUBSET Nat
      OBVIOUS
    <2> HIDE DEF S
    <2> QED
      BY <1>1, <2>1, LeastNumber
  <1>3. ASSUME NEW n \in 1 .. d - 1 PROVE here[n] = there[n]
    <2>1. n \in 1 .. N /\ n \in 1 .. M /\ ~(d <= n)
      OBVIOUS
    <2> QED
      BY <1>2, <2>1
  <1> QED
    BY <1>3

LEMMA SetBeside ==
  ASSUME NEW v \in Trees, NEW path \in Routes, NEW q \in Routes, NEW x, Fits(v, path),
         \A i \in DOMAIN q : q[i] \in DOMAIN Index => Index[q[i]] >= 0,
         HasPath(v, q),
         ~Prefix(Located(v, path), Located(v, q)), ~Prefix(Located(v, q), Located(v, path))
  PROVE  Get(Set(v, path, x), q) = Get(v, q)
  <1> DEFINE N == Len(path)
             M == Len(q)
             D == Descent(v, path)
             R == Rewritten(v, path, x)
             W == Walk(v, q)
             U == Walk(Set(v, path, x), q)
             here == Located(v, path)
             there == Located(v, q)
  <1>1. /\ N \in Nat /\ DOMAIN path = 1 .. N /\ \A n \in 1 .. N : path[n] \in Segments
        /\ M \in Nat /\ DOMAIN q = 1 .. M /\ \A n \in 1 .. M : q[n] \in Segments
    BY DEF Routes
  <1>2. D[0] = v /\ \A n \in 1 .. N : D[n] = Met(D[n - 1], path[n])
    BY DescentLoop
  <1>3. \A n \in 0 .. N : D[n] \in Trees
    BY DescentInTrees
  <1>4. \A n \in 1 .. N : R[n] = Written(D[N - n], path[N - n + 1], R[n - 1])
    BY RewrittenLoop
  <1>5. U[0] = R[N] /\ \A n \in 1 .. M : U[n] = Below(U[n - 1], q[n])
    BY WalkLoop DEF Set
  <1>6. W[0] = v /\ \A n \in 1 .. M : W[n] = Below(W[n - 1], q[n])
    BY WalkLoop
  <1>7. \A n \in 0 .. M : W[n] # Absent
    BY WalkInTrees
  <1>8. \A n \in 1 .. N : FitsHere(D[n - 1], path[n])
    BY <1>1 DEF Fits, FitsHere
  <1>9. /\ DOMAIN here = 1 .. N /\ Len(here) = N
        /\ \A n \in 1 .. N : here[n] = Spot(path[n], Len(Items(D[n - 1])))
    BY <1>1 DEF Located, Spot
  <1>10. /\ DOMAIN there = 1 .. M /\ Len(there) = M
         /\ \A n \in 1 .. M : there[n] = Spot(q[n], Len(Items(Descent(v, q)[n - 1])))
    BY <1>1 DEF Located, Spot
  <1>11. PICK d \in 1 .. N : d \in 1 .. M /\ here[d] # there[d] /\ \A n \in 1 .. d - 1 : here[n] = there[n]
    <2> HIDE DEF here, there, N, M
    <2>1. ~Prefix(here, there) /\ ~Prefix(there, here)
      BY DEF here, there
    <2>2. /\ N \in Nat /\ M \in Nat /\ DOMAIN here = 1 .. N /\ DOMAIN there = 1 .. M
          /\ Len(here) = N /\ Len(there) = M
      BY <1>1, <1>9, <1>10
    <2>3. \E d \in 1 .. N : /\ d \in 1 .. M /\ here[d] # there[d]
                             /\ \A n \in 1 .. d - 1 : here[n] = there[n]
      BY <2>1, <2>2, WhereTheyPart, SMTT(30)
    <2> QED
      BY <2>3
  <1>12. Get(Set(v, path, x), q) = U[M] /\ Get(v, q) = W[M]
    BY DEF Get
  <1> HIDE DEF N, M, D, R, W, U, here, there
  <1>13. ASSUME NEW n \in 1 .. d, W[n - 1] = D[n - 1], U[n - 1] = R[N - (n - 1)]
         PROVE  IF here[n] = there[n] THEN W[n] = D[n] /\ U[n] = R[N - n] ELSE U[n] = W[n]
    <2>1. n \in 1 .. N /\ n \in 1 .. M /\ n - 1 \in 0 .. N /\ n \in 0 .. M
      BY <1>1, <1>11
    <2>2. PICK m : m = N - (n - 1)
      OBVIOUS
    <2>3. m \in 1 .. N /\ N - m = n - 1 /\ N - m + 1 = n /\ m - 1 = N - n
      BY <1>1, <2>1, <2>2
    <2>4. U[n - 1] = Written(D[n - 1], path[n], R[N - n])
      BY <1>4, <1>13, <2>2, <2>3
    <2>5. W[n] = Below(D[n - 1], q[n]) /\ W[n] # Absent
      BY <1>6, <1>7, <1>13, <2>1
    <2>6. U[n] = Below(Written(D[n - 1], path[n], R[N - n]), q[n])
      BY <1>5, <2>1, <2>4
    <2>7. D[n] = Met(D[n - 1], path[n])
      BY <1>2, <2>1
    <2>8. /\ D[n - 1] \in Trees /\ path[n] \in Segments /\ q[n] \in Segments
          /\ FitsHere(D[n - 1], path[n]) /\ Below(D[n - 1], q[n]) # Absent
          /\ q[n] \in DOMAIN Index => Index[q[n]] >= 0
      BY <1>1, <1>3, <1>8, <2>1, <2>5
    <2>9. \A k : IF Spot(path[n], Len(Items(D[n - 1]))) = Spot(q[n], k)
                 THEN /\ Below(Written(D[n - 1], path[n], R[N - n]), q[n]) = R[N - n]
                      /\ Met(D[n - 1], path[n]) = Below(D[n - 1], q[n])
                 ELSE Below(Written(D[n - 1], path[n], R[N - n]), q[n]) = Below(D[n - 1], q[n])
      BY <2>8, WrittenBeside
    <2>10. \E k : here[n] = Spot(path[n], Len(Items(D[n - 1]))) /\ there[n] = Spot(q[n], k)
      BY <1>9, <1>10, <2>1
    <2> QED
      BY <2>5, <2>6, <2>7, <2>9, <2>10
  <1> DEFINE S == {n \in 0 .. d - 1 : W[n] = D[n] /\ U[n] = R[N - n]}
             T == {n \in 0 .. M : n >= d => U[n] = W[n]}
  <1>14. d - 1 \in S
    <2>1. 0 \in S
      BY <1>1, <1>2, <1>5, <1>6, <1>11
    <2>2. ASSUME NEW n \in 1 .. d - 1, n - 1 \in S PROVE n \in S
      <3>1. n \in 1 .. d /\ here[n] = there[n] /\ W[n - 1] = D[n - 1] /\ U[n - 1] = R[N - (n - 1)]
        BY <1>11, <2>2
      <3>2. W[n] = D[n] /\ U[n] = R[N - n]
        BY <1>13, <3>1
      <3> QED
        BY <3>2
    <2>3. \A n \in 0 .. d - 1 : n \in S
      <3>1. d - 1 \in Nat
        BY <1>1
      <3> HIDE DEF S
      <3> QED
        BY <2>1, <2>2, <3>1, EveryTurn
    <2>4. d - 1 \in 0 .. d - 1
      BY <1>1
    <2> QED
      BY <2>3, <2>4
  <1>15. U[d] = W[d]
    <2>1. d \in 1 .. d /\ W[d - 1] = D[d - 1] /\ U[d - 1] = R[N - (d - 1)]
      BY <1>1, <1>14
    <2> QED
      BY <1>11, <1>13, <2>1
  <1>16. \A n \in 0 .. M : n \in T
    <2>1. 0 \in T
      BY <1>1
    <2>2. ASSUME NEW n \in 1 .. M, n - 1 \in T PROVE n \in T
      <3>1. CASE n <= d
        BY <1>1, <1>15, <3>1
      <3>2. CASE n > d
        <4>1. U[n - 1] = W[n - 1]
          BY <1>1, <2>2, <3>2
        <4>2. U[n] = W[n]
          BY <1>5, <1>6, <4>1
        <4> QED
          BY <1>1, <4>2
      <3> QED
        BY <1>1, <3>1, <3>2
    <2> HIDE DEF T
    <2> QED
      BY <1>1, <2>1, <2>2, EveryTurn
  <1>17. U[M] = W[M]
    <2>1. M \in T /\ M >= d
      BY <1>1, <1>11, <1>16
    <2> QED
      BY <2>1
  <1> QED
    BY <1>12, <1>17

\* dp_delete changes a tree where dp_get finds something.
LEMMA DeleteChanges ==
  ASSUME NEW v \in Trees, NEW path \in Routes, path # <<>>, ~NumberedField(v, path)
  PROVE  Delete(v, path) # v <=> Get(v, path) # Absent
  <1> DEFINE N == Len(path)
             A == Approach(v, path)
             W == Walk(v, path)
             E == Deleted(v, path)
             same == {n \in 0 .. N : A[n] = W[n]}
  <1>1. N \in Nat \ {0} /\ DOMAIN path = 1 .. N /\ \A n \in 1 .. N : path[n] \in Segments
    BY DEF Routes
  <1>2. A[0] = v /\ \A n \in 1 .. N : A[n] = Child(A[n - 1], path[n])
    BY ApproachLoop
  <1>3. W[0] = v /\ \A n \in 1 .. N : W[n] = Below(W[n - 1], path[n])
    BY WalkLoop
  <1>4. \A n \in 0 .. N : W[n] \in Trees \cup {Absent}
    BY WalkInTrees
  <1>5. Get(v, path) # Absent => \A n \in 0 .. N : W[n] # Absent
    BY WalkInTrees DEF HasPath
  <1>6. \A n \in 1 .. N : E[n] = DeletedAt(A[N - n], path[N - n + 1], n, E[n - 1])
    BY DeletedLoop
  <1>7. \A n \in 1 .. N : ~(path[n] \in DOMAIN Index /\ IsObject(W[n - 1]) /\ path[n] \in DOMAIN W[n - 1].fields)
    BY <1>1 DEF NumberedField
  <1>8. Delete(v, path) = E[N] /\ Get(v, path) = W[N]
    BY DEF Delete, Get
  <1> HIDE DEF N, A, W, E
  <1>9. \A n \in 0 .. N : A[n] = W[n]
    <2>1. 0 \in same
      BY <1>1, <1>2, <1>3
    <2>2. ASSUME NEW n \in 1 .. N, n - 1 \in same PROVE n \in same
      <3>1. W[n - 1] \in Trees \cup {Absent} /\ path[n] \in Segments
        BY <1>1, <1>4
      <3>2. Child(W[n - 1], path[n]) = Below(W[n - 1], path[n])
        BY <1>7, <3>1, ChildIsBelow
      <3>3. A[n] = W[n]
        BY <1>2, <1>3, <2>2, <3>2
      <3> QED
        BY <1>1, <3>3
    <2>3. \A n \in 0 .. N : n \in same
      <3> HIDE DEF same
      <3> QED
        BY <1>1, <2>1, <2>2, EveryTurn
    <2> QED
      BY <2>3
  \* Segment N - n + 1, with n - 1 below it.
  <1>10. ASSUME NEW n \in 1 .. N
         PROVE  /\ N - n \in 0 .. N /\ N - n + 1 \in 1 .. N /\ N - (n - 1) = N - n + 1
                /\ E[n] = DeletedAt(A[N - n], path[N - n + 1], n, E[n - 1])
                /\ A[N - (n - 1)] = Child(A[N - n], path[N - n + 1])
                /\ path[N - n + 1] \in Segments
    <2>1. PICK m : m = N - n + 1
      OBVIOUS
    <2>2. m \in 1 .. N /\ m - 1 = N - n /\ N - (n - 1) = m /\ N - n \in 0 .. N
      BY <1>1, <2>1
    <2>3. A[m] = Child(A[m - 1], path[m])
      BY <1>2, <2>2
    <2> QED
      BY <1>1, <1>6, <2>1, <2>2, <2>3
  <1>11. ASSUME W[N] = Absent PROVE E[N] = v
    <2> DEFINE S == {n \in 0 .. N : n >= 1 => E[n] = A[N - n]}
    <2>1. 0 \in S
      BY <1>1
    <2>2. ASSUME NEW n \in 1 .. N, n - 1 \in S PROVE n \in S
      <3> DEFINE w == A[N - n]
                 s == path[N - n + 1]
      <3>1. E[n] = DeletedAt(w, s, n, E[n - 1]) /\ A[N - (n - 1)] = Child(w, s) /\ s \in Segments
        BY <1>10
      <3>2. w \in Trees \cup {Absent}
        BY <1>4, <1>9, <1>10
      <3> HIDE DEF w, s
      <3>3. CASE Child(w, s) = Absent
        <4>1. E[n] = w
          BY <3>1, <3>3 DEF DeletedAt
        <4> QED
          BY <1>1, <4>1 DEF w
      <3>4. CASE Child(w, s) # Absent
        <4>1. w \in Trees
          BY <3>1, <3>2, <3>4, Nothing
        <4>2. n # 1
          <5>1. SUFFICES ASSUME n = 1 PROVE FALSE
            OBVIOUS
          <5>2. N - (n - 1) = N
            BY <1>1, <5>1
          <5>3. A[N] = Absent
            BY <1>1, <1>9, <1>11
          <5> QED
            BY <3>1, <3>4, <5>2, <5>3
        <4>3. E[n - 1] = Child(w, s)
          BY <1>1, <2>2, <3>1, <4>2
        <4>4. E[n] = Replaced(w, s, Child(w, s))
          BY <3>1, <3>4, <4>2, <4>3 DEF DeletedAt
        <4>5. E[n] = w
          BY <3>1, <3>4, <4>1, <4>4, ReplacedByItself
        <4> QED
          BY <1>1, <4>5 DEF w
      <3> QED
        BY <3>3, <3>4
    <2>3. \A n \in 0 .. N : n \in S
      <3> HIDE DEF S
      <3> QED
        BY <1>1, <2>1, <2>2, EveryTurn
    <2>4. N \in S /\ N - N = 0 /\ N >= 1
      BY <1>1, <2>3
    <2> QED
      BY <1>2, <2>4
  <1>12. ASSUME W[N] # Absent PROVE E[N] # v
    <2> DEFINE S == {n \in 0 .. N : n >= 1 => E[n] # A[N - n]}
    <2>0. \A n \in 0 .. N : A[n] \in Trees
      BY <1>4, <1>5, <1>8, <1>9, <1>12
    <2>1. 0 \in S
      BY <1>1
    <2>2. ASSUME NEW n \in 1 .. N, n - 1 \in S PROVE n \in S
      <3> DEFINE w == A[N - n]
                 s == path[N - n + 1]
      <3>1. E[n] = DeletedAt(w, s, n, E[n - 1]) /\ A[N - (n - 1)] = Child(w, s) /\ s \in Segments
        BY <1>10
      <3>2. w \in Trees /\ A[N - (n - 1)] # Absent
        <4>1. A[N - (n - 1)] \in Trees /\ A[N - n] \in Trees
          <5>1. N - (n - 1) \in 0 .. N /\ N - n \in 0 .. N
            BY <1>1
          <5> QED
            BY <2>0, <5>1
        <4> QED
          BY <4>1, KindsOfTree
      <3> HIDE DEF w, s
      <3>3. Child(w, s) # Absent
        BY <3>1, <3>2
      <3>4. CASE n = 1
        <4>1. E[n] = WithoutChild(w, s)
          BY <3>1, <3>3, <3>4 DEF DeletedAt
        <4>2. E[n] # w
          BY <3>1, <3>2, <3>3, <4>1, WithoutIsAnother
        <4> QED
          BY <1>1, <4>2 DEF w
      <3>5. CASE n # 1
        <4>1. E[n - 1] # Child(w, s)
          BY <1>1, <2>2, <3>1, <3>5
        <4>2. E[n] = Replaced(w, s, E[n - 1])
          BY <3>1, <3>3, <3>5 DEF DeletedAt
        <4>3. E[n] # w
          BY <3>1, <3>2, <3>3, <4>1, <4>2, ReplacedByAnother
        <4> QED
          BY <1>1, <4>3 DEF w
      <3> QED
        BY <3>4, <3>5
    <2>3. \A n \in 0 .. N : n \in S
      <3> HIDE DEF S
      <3> QED
        BY <1>1, <2>1, <2>2, EveryTurn
    <2>4. N \in S /\ N - N = 0 /\ N >= 1
      BY <1>1, <2>3
    <2> QED
      BY <1>2, <2>4
  <1> QED
    BY <1>8, <1>11, <1>12

----------------------------------------------------------------------------
\* What is asked and answered

\* An answer is the answer to what was asked.
Asked == ask \in [items : SeqOf(FieldValues, MaxItems)] \/ ask \in [data : Trees, path : Paths]

ItemsAnswer(items) ==
  [sorted |-> SortBy(items, FALSE), descending |-> SortBy(items, TRUE),
   min |-> ExtremumBy(items, FALSE), max |-> ExtremumBy(items, TRUE),
   groups |-> GroupBy(items), counts |-> CountBy(items), unique |-> UniqueBy(items)]

PathAnswer(data, path) ==
  [get |-> Get(data, path), set |-> Set(data, path, New),
   delete |-> IF path = <<>> THEN data ELSE Delete(data, path)]

HelpersInv ==
  /\ Asked
  /\ answer # NoAnswer /\ "items" \in DOMAIN ask => answer = ItemsAnswer(ask.items)
  /\ answer # NoAnswer /\ "path" \in DOMAIN ask => answer = PathAnswer(ask.data, ask.path)

LEMMA KindsOfAsk ==
  /\ \A a \in [items : SeqOf(FieldValues, MaxItems)] : "path" \notin DOMAIN a
  /\ \A a \in [data : Trees, path : Paths] : "items" \notin DOMAIN a
  OBVIOUS

LEMMA HelpersInvariant == HelpersSpec => []HelpersInv
  <1>1. HelpersInit => HelpersInv
    BY DEF HelpersInit, HelpersInv, Asked
  <1>2. ASSUME HelpersInv, [HelpersNext]_helpersVars PROVE HelpersInv'
    <2>1. CASE AskItems
      <3>1. Asked' /\ ask' = ask /\ "items" \in DOMAIN ask /\ answer' = ItemsAnswer(ask.items)
        BY <1>2, <2>1 DEF AskItems, HelpersInv, Asked, ItemsAnswer
      <3>2. "path" \notin DOMAIN ask
        <4>1. CASE ask \in [items : SeqOf(FieldValues, MaxItems)]
          BY <4>1, KindsOfAsk
        <4>2. CASE ask \in [data : Trees, path : Paths]
          BY <3>1, <4>2, KindsOfAsk
        <4> QED
          BY <1>2, <4>1, <4>2 DEF HelpersInv, Asked
      <3> QED
        BY <3>1, <3>2 DEF HelpersInv
    <2>2. CASE AskPath
      <3>1. Asked' /\ ask' = ask /\ "path" \in DOMAIN ask /\ answer' = PathAnswer(ask.data, ask.path)
        BY <1>2, <2>2 DEF AskPath, HelpersInv, Asked, PathAnswer
      <3>2. "items" \notin DOMAIN ask
        <4>1. CASE ask \in [items : SeqOf(FieldValues, MaxItems)]
          BY <3>1, <4>1, KindsOfAsk
        <4>2. CASE ask \in [data : Trees, path : Paths]
          BY <4>2, KindsOfAsk
        <4> QED
          BY <1>2, <4>1, <4>2 DEF HelpersInv, Asked
      <3> QED
        BY <3>1, <3>2 DEF HelpersInv
    <2>3. CASE UNCHANGED helpersVars
      BY <1>2, <2>3 DEF helpersVars, HelpersInv, Asked
    <2> QED
      BY <1>2, <2>1, <2>2, <2>3 DEF HelpersNext
  <1> QED
    BY <1>1, <1>2, PTL DEF HelpersSpec

LEMMA AskedItems ==
  ASSUME Asked, "items" \in DOMAIN ask
  PROVE  ask.items \in Arrays
  <1>1. ask \in [items : SeqOf(FieldValues, MaxItems)]
    BY KindsOfAsk DEF Asked
  <1>2. ask.items \in SeqOf(FieldValues, MaxItems)
    BY <1>1
  <1>3. PICK n \in 0 .. MaxItems : ask.items \in [1 .. n -> FieldValues]
    BY <1>2 DEF SeqOf
  <1> QED
    BY <1>3, HelpersAssumption DEF Arrays

\* The iteration helpers agree on every array, of whatever length: where several of them
\* answer one question their answers are one (iter_helpers.rs).
THEOREM AnswersOfHelpersAgree == HelpersSpec => []IterHelpersAgree
  <1>1. HelpersInv => IterHelpersAgree
    <2> SUFFICES ASSUME HelpersInv, answer # NoAnswer, "items" \in DOMAIN ask
                 PROVE  /\ Heads(answer.min, answer.sorted) /\ Heads(answer.max, answer.descending)
                        /\ CountsAreGroups /\ GroupsPartition /\ UniqueHeadsGroups
      BY DEF IterHelpersAgree
    <2> DEFINE items == ask.items
               N == Len(items)
    <2>1. items \in Arrays
      BY AskedItems DEF HelpersInv
    <2>2. answer = ItemsAnswer(items)
      BY DEF HelpersInv
    <2>3. /\ answer.sorted = SortBy(items, FALSE) /\ answer.descending = SortBy(items, TRUE)
          /\ answer.min = ExtremumBy(items, FALSE) /\ answer.max = ExtremumBy(items, TRUE)
          /\ answer.groups = GroupBy(items) /\ answer.counts = CountBy(items)
          /\ answer.unique = UniqueBy(items)
      BY <2>2 DEF ItemsAnswer
    <2>4. ASSUME NEW r \in BOOLEAN PROVE Heads(ExtremumBy(items, r), SortBy(items, r))
      <3>1. CASE items = <<>>
        <4>1. ExtremumBy(items, r) = 0
          BY <2>1, <3>1, ExtremumIsFirst
        <4>2. SortBy(items, r) = <<>>
          BY <3>1 DEF SortBy
        <4> QED
          BY <4>1, <4>2 DEF Heads
      <3>2. CASE items # <<>>
        <4>1. IsFirst(items, r, ExtremumBy(items, r))
          BY <2>1, <3>2, ExtremumIsFirst
        <4>2. SortBy(items, r) # <<>> /\ ExtremumBy(items, r) = Head(SortBy(items, r))
          BY <2>1, <4>1, SortedFirst
        <4> QED
          BY <4>2 DEF Heads
      <3> QED
        BY <3>1, <3>2
    <2>5. GroupsOf(items, N, GroupBy(items)) /\ Matches(GroupBy(items), CountBy(items))
      BY <2>1, GroupsAndCounts
    <2>6. CountsAreGroups
      BY <2>3, <2>5 DEF CountsAreGroups, Matches
    <2>7. GroupsPartition
      <3> DEFINE g == GroupBy(items)
      <3>1. g = answer.groups
        BY <2>3
      <3> HIDE DEF g, items
      <3>2. /\ \A i \in DOMAIN items : Cardinality({n \in DOMAIN g : i \in Range(g[n].value)}) = 1
            /\ \A n \in DOMAIN g : \A i, j \in DOMAIN g[n].value : i < j => g[n].value[i] < g[n].value[j]
            /\ \A n, k \in DOMAIN g : n < k => Head(g[n].value) < Head(g[k].value)
        BY <2>1, <2>5, GroupsArePartition DEF g
      <3> QED
        BY <3>1, <3>2 DEF GroupsPartition, items
    <2>8. UniqueHeadsGroups
      <3> DEFINE g == GroupBy(items)
      <3>1. g = answer.groups /\ Range(answer.unique) = Firsts(items, N)
        BY <2>1, <2>3, UniqueLoop
      <3> HIDE DEF g, items
      <3>2. ASSUME NEW n \in DOMAIN g
            PROVE  /\ Head(g[n].value) \in Firsts(items, N)
                   /\ Cardinality(Firsts(items, N) \cap Range(g[n].value))
                        = Cardinality({Json[items[i]] : i \in Range(g[n].value)})
        BY <2>1, <2>5, UniqueInGroup DEF g
      <3> QED
        BY <3>1, <3>2 DEF UniqueHeadsGroups, items
    <2> QED
      BY <2>3, <2>4, <2>6, <2>7, <2>8
  <1> QED
    BY <1>1, HelpersInvariant, PTL

LEMMA AskedPath ==
  ASSUME Asked, "path" \in DOMAIN ask
  PROVE  ask.data \in Trees /\ ask.path \in Routes
  <1>1. ask \in [data : Trees, path : Paths]
    BY KindsOfAsk DEF Asked
  <1>2. ask.data \in Trees /\ ask.path \in Paths
    BY <1>1
  <1>3. PICK n \in 0 .. MaxPath : ask.path \in [1 .. n -> Segments]
    BY <1>2 DEF Paths, SeqOf
  <1> QED
    BY <1>2, <1>3, HelpersAssumption DEF Routes

\* So do the path helpers, on every tree, and on every path of whatever length: what
\* dp_set writes dp_get reads and nothing beside it has changed, and dp_delete changes
\* what dp_has finds (dotpath.rs), with the exceptions the property names.
THEOREM AnswersOfPathsAgree == HelpersSpec => []PathHelpersAgree
  <1>1. HelpersInv => PathHelpersAgree
    <2> SUFFICES ASSUME HelpersInv, answer # NoAnswer, "path" \in DOMAIN ask
                 PROVE  /\ FallsOff(ask.data, ask.path) \/ Get(answer.set, ask.path) = New
                        /\ Fits(ask.data, ask.path) =>
                             \A q \in FromStart :
                               LET here == Located(ask.data, ask.path) there == Located(ask.data, q)
                               IN  HasPath(ask.data, q) /\ ~Prefix(here, there) /\ ~Prefix(there, here) =>
                                     Get(answer.set, q) = Get(ask.data, q)
                        /\ ask.path # <<>> /\ ~NumberedField(ask.data, ask.path) =>
                             ((answer.delete # ask.data) <=> (answer.get # Absent))
      BY DEF PathHelpersAgree
    <2>1. PICK v, path : v = ask.data /\ path = ask.path
      OBVIOUS
    <2>2. v \in Trees /\ path \in Routes
      BY <2>1, AskedPath DEF HelpersInv
    <2>3. /\ answer.get = Get(v, path) /\ answer.set = Set(v, path, New)
          /\ answer.delete = IF path = <<>> THEN v ELSE Delete(v, path)
      BY <2>1 DEF HelpersInv, PathAnswer
    <2>4. FallsOff(v, path) \/ Get(Set(v, path, New), path) = New
      BY <2>2, SetIsGot
    <2>5. ASSUME Fits(v, path), NEW q \in FromStart, HasPath(v, q),
                 ~Prefix(Located(v, path), Located(v, q)), ~Prefix(Located(v, q), Located(v, path))
          PROVE  Get(Set(v, path, New), q) = Get(v, q)
      <3>1. \A i \in DOMAIN q : q[i] \in DOMAIN Index => Index[q[i]] >= 0
        BY DEF FromStart
      <3>2. q \in Routes
        <4>1. PICK n \in 0 .. MaxPath : q \in [1 .. n -> Segments]
          BY DEF FromStart, Paths, SeqOf
        <4> QED
          BY <4>1, HelpersAssumption DEF Routes
      <3> QED
        BY <2>2, <2>5, <3>1, <3>2, SetBeside
    <2>6. path # <<>> /\ ~NumberedField(v, path) => (Delete(v, path) # v <=> Get(v, path) # Absent)
      BY <2>2, DeleteChanges
    <2> QED
      BY <2>1, <2>3, <2>4, <2>5, <2>6
  <1> QED
    BY <1>1, HelpersInvariant, PTL
=============================================================================
