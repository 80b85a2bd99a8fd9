------------------------------ MODULE Iteration -------------------------------
(***************************************************************************)
(* Induction for the proofs about loops: WFMin needs no operator as a      *)
(* parameter, so a property of numbers is the set of those that have it,   *)
(* and one turn of a loop a function on the states that it passes through. *)
(***************************************************************************)
EXTENDS Integers, TLAPS, WellFoundedInduction

\* The least number principle.
LEMMA LeastNumber ==
  ASSUME NEW S \in SUBSET Nat, S # {}
  PROVE  \E m \in S : \A n \in S : m <= n
  <1> DEFINE R == {p \in Nat \X Nat : p[1] < p[2]}
  <1>1. IsWellFoundedOn(R, Nat)
    <2>1. R = OpToRel(<, Nat)
      BY DEF OpToRel
    <2> QED
      BY <2>1, NatLessThanWellFounded
  <1>2. \E m \in S : \A n \in S : <<n, m>> \notin R
    <2> HIDE DEF R
    <2> QED
      BY <1>1, WFMin
  <1>3. PICK m \in S : \A n \in S : <<n, m>> \notin R
    BY <1>2
  <1>4. ASSUME NEW n \in S PROVE m <= n
    <2>1. <<n, m>> \notin R
      BY <1>3
    <2>2. ~(n < m)
      BY <2>1
    <2> QED
      BY <2>2
  <1> QED
    BY <1>4

\* Induction up to N.
LEMMA UpTo ==
  ASSUME NEW N \in Nat, NEW S, 0 \in S,
         \A k \in 0 .. N - 1 : k \in S => k + 1 \in S
  PROVE  N \in S
  <1> DEFINE Bad == {k \in 0 .. N : k \notin S}
  <1>1. SUFFICES ASSUME Bad # {} PROVE FALSE
    OBVIOUS
  <1>2. PICK m \in Bad : \A n \in Bad : m <= n
    <2>1. Bad \in SUBSET Nat
      OBVIOUS
    <2> HIDE DEF Bad
    <2> QED
      BY <1>1, <2>1, LeastNumber
  <1>3. m # 0 /\ m - 1 \in 0 .. N - 1 /\ m - 1 \notin Bad
    BY <1>2
  <1> QED
    BY <1>2, <1>3

\* A loop passes through a state before each of its turns.
LEMMA Iterates ==
  ASSUME NEW V, NEW a \in V, NEW step \in [V -> V]
  PROVE  \E g \in [Nat -> V] : g[0] = a /\ \A k \in Nat : g[k + 1] = step[g[k]]
  <1> DEFINE Begins(N) == {g \in [0 .. N -> V] :
                             g[0] = a /\ \A k \in 0 .. N - 1 : g[k + 1] = step[g[k]]}
  <1>1. ASSUME NEW N \in Nat PROVE Begins(N) # {}
    <2> DEFINE S == {k \in Nat : Begins(k) # {}}
    <2>1. 0 \in S
      <3>1. [k \in 0 .. 0 |-> a] \in Begins(0)
        OBVIOUS
      <3> QED
        BY <3>1
    <2>2. ASSUME NEW k \in 0 .. N - 1, k \in S PROVE k + 1 \in S
      <3>1. PICK g \in Begins(k) : TRUE
        BY <2>2
      <3> DEFINE h == [j \in 0 .. k + 1 |-> IF j = k + 1 THEN step[g[k]] ELSE g[j]]
      <3>2. h \in [0 .. k + 1 -> V]
        BY <3>1
      <3>3. h[0] = a
        BY <3>1
      <3>4. ASSUME NEW j \in 0 .. (k + 1) - 1 PROVE h[j + 1] = step[h[j]]
        BY <3>1
      <3>5. h \in Begins(k + 1)
        BY <3>2, <3>3, <3>4
      <3> HIDE DEF Begins, h
      <3>6. Begins(k + 1) # {} /\ k + 1 \in Nat
        BY <3>5
      <3> QED
        BY <3>6
    <2> HIDE DEF S
    <2>3. N \in S
      BY <2>1, <2>2, UpTo
    <2> QED
      BY <2>3 DEF S
  <1>2. ASSUME NEW M \in Nat, NEW N \in Nat, M <= N, NEW g \in Begins(M), NEW h \in Begins(N)
        PROVE  g[M] = h[M]
    <2> DEFINE S == {k \in 0 .. M : g[k] = h[k]}
    <2>1. 0 \in S
      OBVIOUS
    <2>2. ASSUME NEW k \in 0 .. M - 1, k \in S PROVE k + 1 \in S
      <3>1. k \in 0 .. N - 1 /\ k + 1 \in 0 .. M
        BY <1>2
      <3>2. g[k + 1] = step[g[k]] /\ h[k + 1] = step[h[k]]
        BY <3>1
      <3> QED
        BY <2>2, <3>1, <3>2
    <2> HIDE DEF S
    <2>3. M \in S
      BY <2>1, <2>2, UpTo
    <2> QED
      BY <2>3 DEF S
  <1> DEFINE Some(n) == CHOOSE g \in Begins(n) : TRUE
             f == [n \in Nat |-> Some(n)[n]]
  <1>3. ASSUME NEW n \in Nat PROVE Some(n) \in Begins(n)
    <2> HIDE DEF Begins
    <2> QED
      BY <1>1
  <1> HIDE DEF Some
  <1>4. f \in [Nat -> V]
    BY <1>3
  <1>5. f[0] = a
    BY <1>3
  <1>6. ASSUME NEW k \in Nat PROVE f[k + 1] = step[f[k]]
    <2>1. Some(k + 1) \in Begins(k + 1) /\ Some(k) \in Begins(k)
      BY <1>3
    <2>2. Some(k + 1)[k + 1] = step[Some(k + 1)[k]]
      BY <2>1
    <2>3. Some(k)[k] = Some(k + 1)[k]
      <3> HIDE DEF Begins
      <3> QED
        BY <1>2, <2>1
    <2> QED
      BY <2>2, <2>3
  <1> QED
    BY <1>4, <1>5, <1>6
\* Two loops that start alike and take the same turns stay alike.
LEMMA InLockstep ==
  ASSUME NEW g, NEW h, g[0] = h[0],
         \A k \in Nat : g[k] = h[k] => g[k + 1] = h[k + 1]
  PROVE  \A n \in Nat : g[n] = h[n]
  <1> SUFFICES ASSUME NEW n \in Nat PROVE g[n] = h[n]
    OBVIOUS
  <1> DEFINE S == {k \in Nat : g[k] = h[k]}
  <1>1. 0 \in S
    OBVIOUS
  <1>2. ASSUME NEW k \in 0 .. n - 1, k \in S PROVE k + 1 \in S
    BY <1>2
  <1> HIDE DEF S
  <1>3. n \in S
    BY <1>1, <1>2, UpTo
  <1> QED
    BY <1>3 DEF S

\* Induction over the turns of a loop that ends after N.
LEMMA EveryTurn ==
  ASSUME NEW N \in Nat, NEW S, 0 \in S, \A k \in 1 .. N : k - 1 \in S => k \in S
  PROVE  \A k \in 0 .. N : k \in S
  <1> SUFFICES ASSUME NEW n \in 0 .. N PROVE n \in S
    OBVIOUS
  <1>1. ASSUME NEW k \in 0 .. n - 1, k \in S PROVE k + 1 \in S
    <2>1. k + 1 \in 1 .. N /\ (k + 1) - 1 = k
      OBVIOUS
    <2> QED
      BY <1>1, <2>1
  <1> QED
    BY <1>1, UpTo

\* The states before the first turn and after each of N, each a function of its number
\* and of the state before it.
Turning(N, V, step) == step \in [(1 .. N) \X V -> V]
Run(N, V, a, step, g) ==
  g \in [0 .. N -> V] /\ g[0] = a /\ \A k \in 1 .. N : g[k] = step[<<k, g[k - 1]>>]

LEMMA Turns ==
  ASSUME NEW N \in Nat, NEW V, NEW a \in V, NEW step, Turning(N, V, step)
  PROVE  \E g : Run(N, V, a, step, g)
  <1>0. step \in [(1 .. N) \X V -> V]
    BY DEF Turning
  <1> DEFINE Begins(n) == {g \in [0 .. n -> V] :
                             g[0] = a /\ \A k \in 1 .. n : g[k] = step[<<k, g[k - 1]>>]}
             S == {k \in Nat : Begins(k) # {}}
  <1>1. 0 \in S
    <2>1. [k \in 0 .. 0 |-> a] \in Begins(0)
      OBVIOUS
    <2> QED
      BY <2>1
  <1>2. ASSUME NEW k \in 1 .. N, k - 1 \in S PROVE k \in S
    <2>1. PICK g \in Begins(k - 1) : TRUE
      BY <1>2
    <2> DEFINE h == [j \in 0 .. k |-> IF j = k THEN step[<<k, g[k - 1]>>] ELSE g[j]]
    <2>2. step[<<k, g[k - 1]>>] \in V
      BY <1>0, <2>1
    <2>3. h \in [0 .. k -> V]
      BY <2>1, <2>2
    <2>4. h[0] = a
      BY <2>1
    <2>5. ASSUME NEW j \in 1 .. k PROVE h[j] = step[<<j, h[j - 1]>>]
      <3>1. j - 1 \in 0 .. k - 1 /\ h[j - 1] = g[j - 1]
        OBVIOUS
      <3>2. CASE j = k
        <4>1. h[j] = step[<<k, g[k - 1]>>]
          BY <3>2
        <4> HIDE DEF h
        <4> QED
          BY <3>1, <3>2, <4>1
      <3>3. CASE j # k
        <4>1. j \in 1 .. k - 1 /\ h[j] = g[j]
          BY <3>3
        <4> QED
          BY <2>1, <3>1, <4>1
      <3> QED
        BY <3>2, <3>3
    <2>6. h \in Begins(k)
      BY <2>3, <2>4, <2>5
    <2> HIDE DEF Begins, h
    <2>7. Begins(k) # {} /\ k \in Nat
      BY <2>6
    <2> QED
      BY <2>7
  <1>3. N \in S
    <2> HIDE DEF S
    <2>1. \A k \in 0 .. N : k \in S
      BY <1>1, <1>2, EveryTurn
    <2> QED
      BY <2>1
  <1>4. PICK g \in Begins(N) : TRUE
    BY <1>3
  <1> QED
    BY <1>4 DEF Run
=============================================================================
