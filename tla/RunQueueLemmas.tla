--------------------------- MODULE RunQueueLemmas ---------------------------
(***************************************************************************)
(* What removing a work from the run queue returns, for every queue.       *)
(***************************************************************************)
EXTENDS RunQueue, FiniteSetTheorems, SequenceTheorems, TLAPS

(* The numbers below a member of a finite set of positions are counted     *)
(* differently for each member: Nth picks every position of the queue that *)
(* work_queue_deschedule leaves linked, each of them once, in their order. *)
LEMMA NthProperties ==
  ASSUME NEW m \in Nat, NEW keep \in SUBSET (1 .. m)
  PROVE  /\ Cardinality(keep) \in Nat
         /\ Cardinality(keep) <= m
         /\ \A n \in 1 .. Cardinality(keep) : Nth(keep, n) \in keep
         /\ \A j \in keep : \E n \in 1 .. Cardinality(keep) : Nth(keep, n) = j
         /\ \A i, j \in 1 .. Cardinality(keep) : i < j => Nth(keep, i) < Nth(keep, j)
<1> DEFINE N == Cardinality(keep)
           Below(j) == {k \in keep : k < j}
           rank == [j \in keep |-> Cardinality(Below(j)) + 1]
<1>1. /\ IsFiniteSet(keep)
      /\ N \in Nat
      /\ N <= m
  <2>1. IsFiniteSet(1 .. m) /\ Cardinality(1 .. m) = m
    BY FS_Interval
  <2>2. IsFiniteSet(keep) /\ N <= Cardinality(1 .. m)
    BY <2>1, FS_Subset
  <2>3. N \in Nat
    BY <2>2, FS_CardinalityType
  <2> QED BY <2>1, <2>2, <2>3
<1>2. ASSUME NEW j \in keep
      PROVE  /\ IsFiniteSet(Below(j))
             /\ Cardinality(Below(j)) \in Nat
             /\ Cardinality(Below(j)) < N
  <2>1. Below(j) \in SUBSET keep
    OBVIOUS
  <2>2. IsFiniteSet(Below(j)) /\ Cardinality(Below(j)) <= N
    BY <1>1, <2>1, FS_Subset
  <2>3. Below(j) # keep
    OBVIOUS
  <2>4. Cardinality(Below(j)) # N
    BY <1>1, <2>1, <2>3, FS_Subset
  <2>5. Cardinality(Below(j)) \in Nat
    BY <2>2, FS_CardinalityType
  <2> QED BY <1>1, <2>2, <2>4, <2>5
<1>3. ASSUME NEW j \in keep, NEW k \in keep, j < k
      PROVE  Cardinality(Below(j)) < Cardinality(Below(k))
  <2>1. Below(j) \in SUBSET Below(k)
    <3>1. keep \subseteq Int
      OBVIOUS
    <3>2. \A x \in keep : x < j => x < k
      BY <1>3, <3>1
    <3> QED BY <3>2
  <2>2. Below(j) # Below(k)
    BY <1>3
  <2>3. /\ Cardinality(Below(j)) <= Cardinality(Below(k))
        /\ Cardinality(Below(j)) # Cardinality(Below(k))
    BY <1>2, <2>1, <2>2, FS_Subset
  <2> QED BY <1>2, <2>3
<1>4. rank \in Injection(keep, 1 .. N)
  <2>1. rank \in [keep -> 1 .. N]
    BY <1>1, <1>2
  <2>2. ASSUME NEW j \in keep, NEW k \in keep, rank[j] = rank[k]
        PROVE  j = k
    <3>1. Cardinality(Below(j)) = Cardinality(Below(k))
      BY <1>2, <2>2
    <3>2. ~(j < k) /\ ~(k < j)
      BY <1>2, <1>3, <3>1
    <3> QED BY <3>2
  <2> QED BY <2>1, <2>2 DEF Injection, IsInjective
<1>5. rank \in Surjection(keep, 1 .. N)
  <2>1. IsFiniteSet(1 .. N) /\ Cardinality(1 .. N) = N
    BY <1>1, FS_Interval
  <2> QED BY <1>4, <2>1, FS_Injection
<1>6. ASSUME NEW n \in 1 .. N
      PROVE  Nth(keep, n) \in keep /\ rank[Nth(keep, n)] = n
  <2>1. PICK j \in keep : rank[j] = n
    BY <1>5 DEF Surjection
  <2>2. Cardinality(Below(j)) = n - 1
    BY <1>2, <2>1
  <2>3. /\ Nth(keep, n) \in keep
        /\ Cardinality(Below(Nth(keep, n))) = n - 1
    BY <2>2 DEF Nth
  <2> QED BY <2>3
<1>7. ASSUME NEW j \in keep
      PROVE  \E n \in 1 .. N : Nth(keep, n) = j
  <2>1. rank[j] \in 1 .. N
    BY <1>4 DEF Injection
  <2>2. Nth(keep, rank[j]) = j
    BY <1>4, <1>6, <2>1 DEF Injection, IsInjective
  <2> QED BY <2>1, <2>2
<1>8. ASSUME NEW a \in keep, NEW b \in keep, rank[a] < rank[b]
      PROVE  a < b
  <2>1. a # b /\ Cardinality(Below(a)) < Cardinality(Below(b))
    BY <1>2, <1>8
  <2>2. ~(b < a)
    BY <1>2, <1>3, <2>1
  <2> QED BY <2>1, <2>2
<1>9. \A i, j \in 1 .. N : i < j => Nth(keep, i) < Nth(keep, j)
  <2> SUFFICES ASSUME NEW i \in 1 .. N, NEW j \in 1 .. N, i < j
               PROVE  Nth(keep, i) < Nth(keep, j)
    OBVIOUS
  <2> HIDE DEF rank
  <2>1. /\ Nth(keep, i) \in keep /\ rank[Nth(keep, i)] = i
        /\ Nth(keep, j) \in keep /\ rank[Nth(keep, j)] = j
    BY <1>6
  <2>2. rank[Nth(keep, i)] < rank[Nth(keep, j)]
    BY <2>1
  <2> HIDE DEF N
  <2> QED BY <1>8, <2>1, <2>2, Zenon
<1> QED BY <1>1, <1>6, <1>7, <1>9

(* work_queue_deschedule leaves a queue of the same works that is no       *)
(* longer than before, holds no work w, and still holds every other work.  *)
THEOREM WithoutProperties ==
  ASSUME NEW S, NEW q \in Seq(S), NEW w
  PROVE  /\ Without(q, w) \in Seq(S)
         /\ Len(Without(q, w)) <= Len(q)
         /\ ~Queued(Without(q, w), w)
         /\ \A v : v # w /\ Queued(q, v) => Queued(Without(q, w), v)
<1> DEFINE keep == {i \in DOMAIN q : q[i] # w}
           N == Cardinality(keep)
           r == Without(q, w)
<1>1. /\ Len(q) \in Nat
      /\ DOMAIN q = 1 .. Len(q)
      /\ \A i \in 1 .. Len(q) : q[i] \in S
  BY LenProperties, ElementOfSeq
<1>2. keep \in SUBSET (1 .. Len(q))
  BY <1>1
<1>3. /\ N \in Nat
      /\ N <= Len(q)
      /\ \A n \in 1 .. N : Nth(keep, n) \in keep
      /\ \A j \in keep : \E n \in 1 .. N : Nth(keep, n) = j
  BY <1>1, <1>2, NthProperties
<1>4. r = [n \in 1 .. N |-> q[Nth(keep, n)]]
  BY DEF Without
<1>5. r \in [1 .. N -> S]
  BY <1>1, <1>2, <1>3, <1>4
<1>6. r \in Seq(S) /\ Len(r) = N
  BY <1>3, <1>5, SeqDef, LenProperties, SMTT(30)
<1>7. ~Queued(r, w)
  BY <1>3, <1>4 DEF Queued
<1>8. ASSUME NEW v, v # w, Queued(q, v)
      PROVE  Queued(r, v)
  <2>1. PICK j \in keep : q[j] = v
    BY <1>8 DEF Queued
  <2>2. PICK n \in 1 .. N : Nth(keep, n) = j
    BY <1>3
  <2>3. r[n] = v
    BY <1>4, <2>1, <2>2
  <2> QED BY <1>4, <2>3 DEF Queued
<1> QED BY <1>3, <1>6, <1>7, <1>8

(* In a queue without duplicates one work is unlinked, and what is behind  *)
(* it moves up.                                                            *)
LEMMA WithoutOne ==
  ASSUME NEW S, NEW q \in Seq(S), NEW k \in 1 .. Len(q),
         \A i, j \in DOMAIN q : q[i] = q[j] => i = j
  PROVE  /\ Without(q, q[k]) \in Seq(S)
         /\ Len(Without(q, q[k])) = Len(q) - 1
         /\ \A i \in 1 .. Len(q) - 1 :
              Without(q, q[k])[i] = IF i < k THEN q[i] ELSE q[i + 1]
<1> DEFINE keep == {i \in DOMAIN q : q[i] # q[k]}
           Below(j) == {x \in keep : x < j}
           N == Len(q)
<1>1. N \in Nat /\ DOMAIN q = 1 .. N /\ \A i \in 1 .. N : q[i] \in S
  BY LenProperties, ElementOfSeq
<1>2. keep = (1 .. N) \ {k}
  BY <1>1
<1>3. Cardinality(keep) = N - 1
  <2>1. IsFiniteSet(1 .. N) /\ Cardinality(1 .. N) = N
    BY <1>1, FS_Interval
  <2> QED BY <1>2, <2>1, FS_RemoveElement
<1>4. ASSUME NEW j \in keep
      PROVE  Cardinality(Below(j)) = IF j < k THEN j - 1 ELSE j - 2
  <2>0. N \in Nat /\ j \in 1 .. N /\ j # k /\ k \in 1 .. N
    BY <1>1, <1>2
  <2>1. IsFiniteSet(1 .. j - 1) /\ Cardinality(1 .. j - 1) = j - 1
    <3>1. 1 \in Int /\ j - 1 \in Int
      BY <2>0
    <3>2. /\ IsFiniteSet(1 .. j - 1)
          /\ Cardinality(1 .. j - 1) = IF 1 > j - 1 THEN 0 ELSE (j - 1) - 1 + 1
      BY <3>1, FS_Interval
    <3> QED BY <2>0, <3>2
  <2>2. CASE j < k
    <3>1. Below(j) = 1 .. j - 1
      BY <1>1, <1>2, <2>2
    <3> QED BY <2>1, <2>2, <3>1
  <2>3. CASE ~(j < k)
    <3>1. Below(j) = (1 .. j - 1) \ {k}
      BY <1>1, <1>2, <2>3
    <3>2. k \in 1 .. j - 1
      BY <1>1, <1>2, <2>3
    <3>3. Cardinality((1 .. j - 1) \ {k}) = (j - 1) - 1
      BY <2>1, <3>2, FS_RemoveElement, ZenonT(60)
    <3> HIDE DEF Below, keep
    <3>4. Cardinality(Below(j)) = (j - 1) - 1
      BY <3>1, <3>3
    <3> QED BY <2>0, <2>3, <3>4
  <2> QED BY <2>2, <2>3
<1>5. ASSUME NEW i \in 1 .. N - 1
      PROVE  Nth(keep, i) = IF i < k THEN i ELSE i + 1
  <2> DEFINE n == IF i < k THEN i ELSE i + 1
  <2>1. n \in keep
    BY <1>1, <1>2
  <2>2. Cardinality(Below(n)) = i - 1
    BY <1>4, <2>1
  <2>3. \A j \in keep : Cardinality(Below(j)) = i - 1 => j = n
    BY <1>1, <1>2, <1>4
  <2> HIDE DEF keep, n
  <2>4. Nth(keep, i) = n
    BY <2>1, <2>2, <2>3 DEF Nth
  <2> QED BY <2>4 DEF n
<1>6. Without(q, q[k]) = [n \in 1 .. N - 1 |-> q[Nth(keep, n)]]
  BY <1>3 DEF Without
<1>7. \A i \in 1 .. N - 1 : Without(q, q[k])[i] = IF i < k THEN q[i] ELSE q[i + 1]
  BY <1>5, <1>6
<1>8. Without(q, q[k]) \in [1 .. N - 1 -> S]
  BY <1>1, <1>5, <1>6
<1>9. N - 1 \in Nat
  BY <1>1
<1>10. Without(q, q[k]) \in Seq(S) /\ Len(Without(q, q[k])) = N - 1
  BY <1>8, <1>9, SeqDef, LenProperties
<1> QED BY <1>7, <1>10

(* Positions listed in their order are counted by that list.               *)
LEMMA NthIsListed ==
  ASSUME NEW m \in Nat, NEW keep \in SUBSET (1 .. m),
         NEW n \in Nat, NEW f \in [1 .. n -> keep],
         \A i, j \in 1 .. n : i < j => f[i] < f[j],
         \A k \in keep : \E i \in 1 .. n : f[i] = k
  PROVE  Cardinality(keep) = n /\ \A i \in 1 .. n : Nth(keep, i) = f[i]
<1> DEFINE Below(j) == {k \in keep : k < j}
<1>1. \A i \in 1 .. n : f[i] \in keep /\ f[i] \in 1 .. m
  OBVIOUS
<1>2. \A i, j \in 1 .. n : (f[i] < f[j] <=> i < j) /\ (f[i] = f[j] => i = j)
  BY <1>1
<1>3. Cardinality(keep) = n
  <2>1. f \in Bijection(1 .. n, keep)
    BY <1>2 DEF Bijection, Injection, Surjection, IsInjective
  <2> QED BY <2>1, FS_CountingElements DEF ExistsBijection
<1>4. ASSUME NEW i \in 1 .. n
      PROVE  Cardinality(Below(f[i])) = i - 1
  <2> DEFINE g == [j \in 1 .. i - 1 |-> f[j]]
  <2>1. i - 1 \in Nat /\ \A j \in 1 .. i - 1 : j \in 1 .. n /\ j < i
    OBVIOUS
  <2>2. g \in [1 .. i - 1 -> Below(f[i])]
    BY <1>1, <1>2, <2>1
  <2>3. \A j, k \in 1 .. i - 1 : g[j] = g[k] => j = k
    BY <1>2, <2>1
  <2>4. \A k \in Below(f[i]) : \E j \in 1 .. i - 1 : g[j] = k
    <3> SUFFICES ASSUME NEW k \in Below(f[i]) PROVE \E j \in 1 .. i - 1 : g[j] = k
      OBVIOUS
    <3>1. PICK j \in 1 .. n : f[j] = k
      OBVIOUS
    <3>2. j < i
      BY <1>2, <3>1
    <3>3. j \in 1 .. i - 1
      BY <3>2
    <3> QED BY <3>1, <3>3
  <2>5. g \in Bijection(1 .. i - 1, Below(f[i]))
    BY <2>2, <2>3, <2>4 DEF Bijection, Injection, Surjection, IsInjective
  <2> QED BY <2>1, <2>5, FS_CountingElements DEF ExistsBijection
<1>5. ASSUME NEW i \in 1 .. n
      PROVE  Nth(keep, i) = f[i]
  <2>1. \A k \in keep : Cardinality(Below(k)) = i - 1 => k = f[i]
    BY <1>4
  <2>2. f[i] \in keep /\ Cardinality(Below(f[i])) = i - 1
    BY <1>1, <1>4
  <2> QED BY <2>1, <2>2 DEF Nth
<1> QED BY <1>3, <1>5

(* f lists, in their order, the n places of q whose work is not w.         *)
ListsRest(f, n, q, w) ==
  /\ f \in [1 .. n -> {i \in DOMAIN q : q[i] # w}]
  /\ \A i, j \in 1 .. n : i < j => f[i] < f[j]
  /\ \A k \in DOMAIN q : q[k] # w => \E i \in 1 .. n : f[i] = k

(* The works that stay, listed in their order, are the queue that is left. *)
LEMMA WithoutIsListed ==
  ASSUME NEW S, NEW q \in Seq(S), NEW w, NEW n \in Nat, NEW f, ListsRest(f, n, q, w)
  PROVE  Without(q, w) = [i \in 1 .. n |-> q[f[i]]]
<1> DEFINE keep == {i \in DOMAIN q : q[i] # w}
<1>1. Len(q) \in Nat /\ DOMAIN q = 1 .. Len(q)
  BY LenProperties
<1>2. /\ keep \in SUBSET (1 .. Len(q)) /\ f \in [1 .. n -> keep]
      /\ \A i, j \in 1 .. n : i < j => f[i] < f[j]
  BY <1>1 DEF ListsRest
<1>3. \A k \in keep : \E i \in 1 .. n : f[i] = k
  BY DEF ListsRest
<1> HIDE DEF keep
<1>4. Cardinality(keep) = n /\ \A i \in 1 .. n : Nth(keep, i) = f[i]
  BY <1>1, <1>2, <1>3, NthIsListed
<1> QED BY <1>4 DEF Without, keep

(* The list of the works that stay: where each of them was.                *)
LEMMA WithoutListed ==
  ASSUME NEW S, NEW q \in Seq(S), NEW w
  PROVE  \E n \in Nat : \E f :
           ListsRest(f, n, q, w) /\ Without(q, w) = [i \in 1 .. n |-> q[f[i]]]
<1> DEFINE keep == {i \in DOMAIN q : q[i] # w}
           N == Cardinality(keep)
           f == [i \in 1 .. N |-> Nth(keep, i)]
<1>1. Len(q) \in Nat /\ DOMAIN q = 1 .. Len(q)
  BY LenProperties
<1>2. keep \in SUBSET (1 .. Len(q))
  BY <1>1
<1>3. /\ N \in Nat
      /\ \A i \in 1 .. N : Nth(keep, i) \in keep
      /\ \A k \in keep : \E i \in 1 .. N : Nth(keep, i) = k
      /\ \A i, j \in 1 .. N : i < j => Nth(keep, i) < Nth(keep, j)
  BY <1>1, <1>2, NthProperties
<1>4. f \in [1 .. N -> keep]
  BY <1>3
<1>5. \A i, j \in 1 .. N : i < j => f[i] < f[j]
  BY <1>3
<1>6. \A k \in DOMAIN q : q[k] # w => \E i \in 1 .. N : f[i] = k
  BY <1>3
<1>7. Without(q, w) = [i \in 1 .. N |-> q[f[i]]]
  BY DEF Without
<1> HIDE DEF N, f
<1>8. ListsRest(f, N, q, w)
  BY <1>4, <1>5, <1>6 DEF ListsRest
<1> QED BY <1>3, <1>7, <1>8

(* A queue that does not hold the work stays as it is.                     *)
LEMMA WithoutAbsent ==
  ASSUME NEW S, NEW q \in Seq(S), NEW w, ~Queued(q, w)
  PROVE  Without(q, w) = q
<1> DEFINE n == Len(q)
           f == [i \in 1 .. n |-> i]
<1>1. n \in Nat /\ DOMAIN q = 1 .. n
  BY LenProperties
<1>2. f \in [1 .. n -> {i \in DOMAIN q : q[i] # w}]
  BY <1>1 DEF Queued
<1>3. \A i, j \in 1 .. n : i < j => f[i] < f[j]
  OBVIOUS
<1>4. \A k \in DOMAIN q : q[k] # w => \E i \in 1 .. n : f[i] = k
  BY <1>1
<1>5. Without(q, w) = [i \in 1 .. n |-> q[f[i]]]
  <2> HIDE DEF n, f
  <2>1. n \in Nat /\ ListsRest(f, n, q, w)
    BY <1>1, <1>2, <1>3, <1>4 DEF ListsRest
  <2> QED BY <2>1, WithoutIsListed
<1>6. q = [i \in 1 .. n |-> q[i]]
  BY LenProperties, SeqDef
<1> QED BY <1>5, <1>6

(* Unlinking one occurrence of the work changes nothing about what is left *)
(* once every occurrence is unlinked: the walk of work_queue_deschedule    *)
(* goes on with the same end in view.                                      *)
LEMMA WithoutOneMore ==
  ASSUME NEW S, NEW q \in Seq(S), NEW r \in Seq(S), NEW w,
         NEW k \in 1 .. Len(q), q[k] = w, Len(r) = Len(q) - 1,
         \A i \in 1 .. Len(r) : r[i] = IF i < k THEN q[i] ELSE q[i + 1]
  PROVE  Without(r, w) = Without(q, w)
<1> DEFINE keep == {i \in DOMAIN q : q[i] # w}
           left == {i \in DOMAIN r : r[i] # w}
<1>1. /\ Len(q) \in Nat /\ DOMAIN q = 1 .. Len(q)
      /\ Len(r) \in Nat /\ DOMAIN r = 1 .. Len(r)
  BY LenProperties
<1>0. PICK n \in Nat : \E f :
        ListsRest(f, n, q, w) /\ Without(q, w) = [i \in 1 .. n |-> q[f[i]]]
  BY WithoutListed, SMTT(30)
<1>1a. PICK f : ListsRest(f, n, q, w) /\ Without(q, w) = [i \in 1 .. n |-> q[f[i]]]
  BY <1>0
<1>2. /\ f \in [1 .. n -> keep]
      /\ \A i, j \in 1 .. n : i < j => f[i] < f[j]
      /\ \A j \in DOMAIN q : q[j] # w => \E i \in 1 .. n : f[i] = j
      /\ Without(q, w) = [i \in 1 .. n |-> q[f[i]]]
  BY <1>1a DEF ListsRest
<1> DEFINE g == [i \in 1 .. n |-> IF f[i] < k THEN f[i] ELSE f[i] - 1]
<1>3. \A i \in 1 .. n : f[i] \in 1 .. Len(q) /\ f[i] # k /\ q[f[i]] # w
  BY <1>1, <1>2
<1>4. \A i \in 1 .. n : g[i] \in 1 .. Len(r) /\ r[g[i]] = q[f[i]]
  <2> SUFFICES ASSUME NEW i \in 1 .. n PROVE g[i] \in 1 .. Len(r) /\ r[g[i]] = q[f[i]]
    OBVIOUS
  <2>1. CASE f[i] < k
    BY <1>1, <1>3, <2>1
  <2>2. CASE ~(f[i] < k)
    <3>1. g[i] = f[i] - 1 /\ g[i] \in 1 .. Len(r) /\ ~(g[i] < k) /\ g[i] + 1 = f[i]
      BY <1>1, <1>3, <2>2
    <3> QED BY <3>1
  <2> QED BY <2>1, <2>2
<1>5. g \in [1 .. n -> left]
  BY <1>1, <1>3, <1>4
<1>6. \A i, j \in 1 .. n : i < j => g[i] < g[j]
  BY <1>1, <1>2, <1>3
<1>7. ASSUME NEW j \in DOMAIN r, r[j] # w PROVE \E i \in 1 .. n : g[i] = j
  <2>1. CASE j < k
    <3>1. j \in DOMAIN q /\ q[j] # w
      BY <1>1, <1>7, <2>1
    <3>2. PICK i \in 1 .. n : f[i] = j
      BY <1>2, <3>1
    <3> QED BY <2>1, <3>2
  <2>2. CASE ~(j < k)
    <3>1. j + 1 \in DOMAIN q /\ q[j + 1] # w
      BY <1>1, <1>7, <2>2
    <3>2. PICK i \in 1 .. n : f[i] = j + 1
      BY <1>2, <3>1
    <3>3. g[i] = j
      BY <1>1, <2>2, <3>2
    <3> QED BY <3>3
  <2> QED BY <2>1, <2>2
<1> HIDE DEF g
<1>8. ListsRest(g, n, r, w)
  BY <1>5, <1>6, <1>7 DEF ListsRest
<1>9. Without(r, w) = [i \in 1 .. n |-> r[g[i]]]
  BY <1>8, WithoutIsListed
<1> QED BY <1>2, <1>4, <1>9

(* A work added at the tail is added at the tail of what is left, unless   *)
(* it is the one removed.                                                  *)
LEMMA WithoutAppend ==
  ASSUME NEW S, NEW q \in Seq(S), NEW w, NEW x \in S
  PROVE  Without(Append(q, x), w) =
           IF x = w THEN Without(q, w) ELSE Append(Without(q, w), x)
<1> DEFINE r == Append(q, x)
           keep == {i \in DOMAIN q : q[i] # w}
<1>1. /\ Len(q) \in Nat /\ DOMAIN q = 1 .. Len(q)
      /\ r \in Seq(S) /\ Len(r) = Len(q) + 1 /\ DOMAIN r = 1 .. Len(q) + 1
      /\ \A i \in 1 .. Len(q) : r[i] = q[i]
      /\ r[Len(q) + 1] = x
  BY LenProperties, AppendProperties
<1>0. PICK n \in Nat : \E f :
        ListsRest(f, n, q, w) /\ Without(q, w) = [i \in 1 .. n |-> q[f[i]]]
  BY WithoutListed
<1>1a. PICK f : ListsRest(f, n, q, w) /\ Without(q, w) = [i \in 1 .. n |-> q[f[i]]]
  BY <1>0
<1>2. /\ f \in [1 .. n -> keep]
      /\ \A i, j \in 1 .. n : i < j => f[i] < f[j]
      /\ \A j \in DOMAIN q : q[j] # w => \E i \in 1 .. n : f[i] = j
      /\ Without(q, w) = [i \in 1 .. n |-> q[f[i]]]
  BY <1>1a DEF ListsRest
<1>3. \A i \in 1 .. n : f[i] \in 1 .. Len(q) /\ q[f[i]] # w /\ r[f[i]] = q[f[i]]
  BY <1>1, <1>2
<1> HIDE DEF r
<1>4. CASE x = w
  <2>1. f \in [1 .. n -> {i \in DOMAIN r : r[i] # w}]
    BY <1>1, <1>2, <1>3
  <2>2. \A j \in DOMAIN r : r[j] # w => \E i \in 1 .. n : f[i] = j
    BY <1>1, <1>2, <1>4
  <2>3. ListsRest(f, n, r, w)
    BY <1>2, <2>1, <2>2 DEF ListsRest
  <2>4. Without(r, w) = [i \in 1 .. n |-> r[f[i]]]
    BY <1>1, <2>3, WithoutIsListed
  <2> QED BY <1>2, <1>3, <1>4, <2>4 DEF r
<1>5. CASE x # w
  <2> DEFINE g == [i \in 1 .. n + 1 |-> IF i = n + 1 THEN Len(q) + 1 ELSE f[i]]
  <2>1. \A i \in 1 .. n : g[i] = f[i]
    OBVIOUS
  <2>2. g[n + 1] = Len(q) + 1
    OBVIOUS
  <2>3. g \in [1 .. n + 1 -> {i \in DOMAIN r : r[i] # w}]
    BY <1>1, <1>3, <1>5
  <2>4. ASSUME NEW i \in 1 .. n + 1, NEW j \in 1 .. n + 1, i < j
        PROVE  g[i] < g[j]
    <3>1. i \in 1 .. n /\ g[i] = f[i] /\ f[i] \in 1 .. Len(q)
      BY <1>3, <2>4
    <3>2. CASE j = n + 1
      BY <1>1, <2>2, <3>1, <3>2
    <3>3. CASE j # n + 1
      BY <1>2, <2>1, <2>4, <3>1, <3>3
    <3> QED BY <3>2, <3>3
  <2>5. ASSUME NEW j \in DOMAIN r, r[j] # w PROVE \E i \in 1 .. n + 1 : g[i] = j
    <3>1. CASE j = Len(q) + 1
      BY <2>2, <3>1
    <3>2. CASE j # Len(q) + 1
      <4>1. j \in DOMAIN q /\ q[j] # w
        BY <1>1, <2>5, <3>2
      <4>2. PICK i \in 1 .. n : f[i] = j
        BY <1>2, <4>1
      <4> QED BY <2>1, <4>2
    <3> QED BY <3>1, <3>2
  <2> HIDE DEF g
  <2>6. n + 1 \in Nat
    OBVIOUS
  <2>6a. ListsRest(g, n + 1, r, w)
    BY <2>3, <2>4, <2>5 DEF ListsRest
  <2>7. Without(r, w) = [i \in 1 .. n + 1 |-> r[g[i]]]
    BY <1>1, <2>6, <2>6a, WithoutIsListed
  <2>8. /\ Without(q, w) \in Seq(S) /\ Len(Without(q, w)) = n
    <3>1. Without(q, w) \in Seq(S)
      BY WithoutProperties
    <3> QED BY <1>2, <3>1, LenProperties
  <2>9. /\ Append(Without(q, w), x) \in Seq(S)
        /\ Len(Append(Without(q, w), x)) = n + 1
        /\ \A i \in 1 .. n : Append(Without(q, w), x)[i] = Without(q, w)[i]
        /\ Append(Without(q, w), x)[n + 1] = x
    BY <2>8, AppendProperties
  <2>10. Append(Without(q, w), x) = [i \in 1 .. n + 1 |-> Append(Without(q, w), x)[i]]
    BY <2>9, LenProperties, SeqDef
  <2>11. ASSUME NEW i \in 1 .. n + 1
         PROVE  r[g[i]] = Append(Without(q, w), x)[i]
    <3>1. CASE i = n + 1
      BY <1>1, <2>2, <2>9, <3>1
    <3>2. CASE i # n + 1
      BY <1>2, <1>3, <2>1, <2>9, <3>2
    <3> QED BY <3>1, <3>2
  <2>12. Without(r, w) = Append(Without(q, w), x)
    BY <2>7, <2>10, <2>11
  <2> QED BY <1>5, <2>12 DEF r
<1> QED BY <1>4, <1>5


(* A work that stays and is first in the queue is first in what is left.   *)
LEMMA WithoutFirst ==
  ASSUME NEW S, NEW q \in Seq(S), NEW w, q # << >>, q[1] # w
  PROVE  /\ Without(q, w) # << >>
         /\ Head(Without(q, w)) = q[1]
         /\ Tail(Without(q, w)) = Without(Tail(q), w)
<1> DEFINE keep == {i \in DOMAIN q : q[i] # w}
           r == Tail(q)
<1>1. /\ Len(q) \in Nat /\ Len(q) # 0 /\ DOMAIN q = 1 .. Len(q)
      /\ r \in Seq(S) /\ Len(r) = Len(q) - 1 /\ DOMAIN r = 1 .. Len(q) - 1
      /\ \A i \in 1 .. Len(q) - 1 : r[i] = q[i + 1]
  <2>1. /\ Len(q) \in Nat /\ Len(q) # 0 /\ DOMAIN q = 1 .. Len(q)
    BY LenProperties, EmptySeq
  <2>2. /\ r \in Seq(S) /\ Len(r) = Len(q) - 1
        /\ \A i \in 1 .. Len(q) - 1 : r[i] = q[i + 1]
    BY HeadTailProperties
  <2> QED BY <2>1, <2>2, LenProperties
<1> HIDE DEF r
<1>2. PICK n \in Nat : \E f :
        ListsRest(f, n, q, w) /\ Without(q, w) = [i \in 1 .. n |-> q[f[i]]]
  BY WithoutListed
<1>3. PICK f : ListsRest(f, n, q, w) /\ Without(q, w) = [i \in 1 .. n |-> q[f[i]]]
  BY <1>2
<1>4. /\ f \in [1 .. n -> keep]
      /\ \A i, j \in 1 .. n : i < j => f[i] < f[j]
      /\ \A j \in DOMAIN q : q[j] # w => \E i \in 1 .. n : f[i] = j
  BY <1>3 DEF ListsRest
<1>5. \A i \in 1 .. n : f[i] \in 1 .. Len(q) /\ q[f[i]] # w
  BY <1>1, <1>4
<1>6. n # 0 /\ n - 1 \in Nat /\ f[1] = 1
  <2>1. PICK i \in 1 .. n : f[i] = 1
    BY <1>1, <1>4
  <2>2. n # 0 /\ 1 \in 1 .. n
    BY <2>1
  <2>3. i = 1
    BY <1>4, <1>5, <2>1, <2>2
  <2> QED BY <2>1, <2>2, <2>3
<1> DEFINE g == [i \in 1 .. n - 1 |-> f[i + 1] - 1]
<1>7. ASSUME NEW i \in 1 .. n - 1
      PROVE  /\ i + 1 \in 1 .. n /\ f[i + 1] \in 2 .. Len(q)
             /\ g[i] = f[i + 1] - 1 /\ g[i] \in 1 .. Len(q) - 1
             /\ r[g[i]] = q[f[i + 1]]
  <2>1. i + 1 \in 1 .. n /\ 1 \in 1 .. n /\ 1 < i + 1
    OBVIOUS
  <2>2. f[1] < f[i + 1] /\ f[i + 1] \in 1 .. Len(q)
    BY <1>4, <1>5, <2>1
  <2>3. f[i + 1] \in 2 .. Len(q) /\ f[i + 1] - 1 \in 1 .. Len(q) - 1
    BY <1>1, <1>6, <2>2
  <2>4. g[i] = f[i + 1] - 1
    OBVIOUS
  <2>5. g[i] + 1 = f[i + 1]
    BY <2>2, <2>4
  <2> HIDE DEF g
  <2> QED BY <1>1, <2>1, <2>3, <2>4, <2>5
<1>8. DOMAIN g = 1 .. n - 1
  OBVIOUS
<1>9. g = [i \in 1 .. n - 1 |-> g[i]]
  OBVIOUS
<1> HIDE DEF g
<1>10. g \in [1 .. n - 1 -> {i \in DOMAIN r : r[i] # w}]
  <2>1. \A i \in 1 .. n - 1 : g[i] \in {j \in DOMAIN r : r[j] # w}
    BY <1>1, <1>5, <1>7
  <2> QED BY <1>9, <2>1
<1>11. ASSUME NEW i \in 1 .. n - 1, NEW j \in 1 .. n - 1, i < j PROVE g[i] < g[j]
  <2>1. f[i + 1] < f[j + 1]
    BY <1>4, <1>7, <1>11
  <2> QED BY <1>7, <2>1
<1>12. ASSUME NEW j \in DOMAIN r, r[j] # w PROVE \E i \in 1 .. n - 1 : g[i] = j
  <2>1. j \in 1 .. Len(q) - 1 /\ j + 1 \in DOMAIN q /\ q[j + 1] # w
    BY <1>1, <1>12
  <2>2. PICK i \in 1 .. n : f[i] = j + 1
    BY <1>4, <2>1
  <2>3. i # 1
    BY <1>6, <2>1, <2>2
  <2>4. i - 1 \in 1 .. n - 1 /\ (i - 1) + 1 = i
    BY <2>3
  <2>5. g[i - 1] = j
    BY <1>7, <2>1, <2>2, <2>4
  <2> QED BY <2>4, <2>5
<1>13. ListsRest(g, n - 1, r, w)
  BY <1>10, <1>11, <1>12 DEF ListsRest
<1>14. Without(r, w) = [i \in 1 .. n - 1 |-> r[g[i]]]
  BY <1>1, <1>6, <1>13, WithoutIsListed
<1>15. /\ Without(q, w) \in Seq(S) /\ Len(Without(q, w)) = n
       /\ Without(q, w)[1] = q[1]
  <2>1. Without(q, w) \in Seq(S)
    BY WithoutProperties
  <2>2. Len(Without(q, w)) = n
    BY <1>3, <2>1, LenProperties
  <2> QED BY <1>3, <1>6, <2>1, <2>2
<1>16. Without(q, w) # << >> /\ Head(Without(q, w)) = q[1]
  BY <1>6, <1>15, EmptySeq, HeadTailProperties
<1>17. /\ Tail(Without(q, w)) \in Seq(S)
       /\ Len(Tail(Without(q, w))) = n - 1
       /\ \A i \in 1 .. n - 1 : Tail(Without(q, w))[i] = Without(q, w)[i + 1]
  BY <1>15, <1>16, HeadTailProperties
<1>18. Tail(Without(q, w)) = [i \in 1 .. n - 1 |-> Tail(Without(q, w))[i]]
  BY <1>17, SeqDef, LenProperties
<1>19. \A i \in 1 .. n - 1 : Tail(Without(q, w))[i] = r[g[i]]
  <2>1. \A i \in 1 .. n - 1 : Without(q, w)[i + 1] = q[f[i + 1]]
    BY <1>3, <1>7
  <2> QED BY <1>7, <1>17, <2>1
<1>20. Tail(Without(q, w)) = Without(r, w)
  BY <1>14, <1>18, <1>19
<1> QED BY <1>16, <1>20 DEF r

=============================================================================
