-------------------------- MODULE TimerQueueProofs --------------------------
(***************************************************************************)
(* The list of timers and their punctuality (timer.c), proved for any      *)
(* timers, any delays below half the period and any width of the clock.    *)
(***************************************************************************)
EXTENDS TimerQueue, FiniteSetTheorems, SequenceTheorems, TLAPS

-----------------------------------------------------------------------------
(* The clock *)

LEMMA PeriodType == Half \in Nat \ {0} /\ Period \in Nat \ {0} /\ Period = Half + Half
BY TimeAssumption DEF Period

(* A difference that is less than a period away from the range. *)
LEMMA Wrap ==
  ASSUME NEW x \in Int, NEW d \in Nat \ {0}
  PROVE  /\ 0 <= x /\ x < d => x % d = x
         /\ d <= x /\ x < d + d => x % d = x - d
         /\ -d <= x /\ x < 0 => x % d = x + d
<1> DEFINE q == x \div d
           r == x % d
<1>1. q \in Int /\ r \in 0 .. d - 1 /\ x = d * q + r
  OBVIOUS
<1> HIDE DEF q, r
<1>2. ASSUME NEW k \in Int, NEW s \in 0 .. d - 1, x = d * k + s
      PROVE  r = s
  <2>1. q = k
    <3>1. ASSUME NEW a \in Int, NEW b \in Int, a + 1 <= b PROVE d * a + d <= d * b
      <4>1. d * (a + 1) <= d * b
        BY <3>1
      <4>2. d * (a + 1) = d * a + d
        OBVIOUS
      <4> QED BY <4>1, <4>2
    <3>2. CASE q + 1 <= k
      <4>1. d * q + d <= d * k
        BY <1>1, <3>1, <3>2
      <4>2. d * q \in Int /\ d * k \in Int
        BY <1>1
      <4> QED BY <1>1, <1>2, <4>1, <4>2
    <3>3. CASE k + 1 <= q
      <4>1. d * k + d <= d * q
        BY <1>1, <3>1, <3>3
      <4>2. d * q \in Int /\ d * k \in Int
        BY <1>1
      <4> QED BY <1>1, <1>2, <4>1, <4>2
    <3> QED BY <1>1, <3>2, <3>3
  <2>2. d * q = d * k /\ d * q \in Int
    BY <1>1, <2>1
  <2> QED BY <1>1, <1>2, <2>2
<1>3. d * 0 = 0 /\ d * 1 = d /\ d * (-1) = -d
  OBVIOUS
<1>4. ASSUME 0 <= x, x < d PROVE r = x
  BY <1>2, <1>3, <1>4
<1>5. ASSUME d <= x, x < d + d PROVE r = x - d
  <2>1. x - d \in 0 .. d - 1 /\ x = d * 1 + (x - d)
    BY <1>3, <1>5
  <2>2. 1 \in Int
    OBVIOUS
  <2> QED BY <1>2, <2>1, <2>2
<1>6. ASSUME -d <= x, x < 0 PROVE r = x + d
  <2>1. x + d \in 0 .. d - 1
    BY <1>6
  <2>2. x = d * (-1) + (x + d) /\ -1 \in Int
    BY <1>3
  <2> QED BY <1>2, <2>1, <2>2
<1> QED BY <1>4, <1>5, <1>6 DEF r

(* The clock is ahead of itself by less than a period, and two times of    *)
(* the clock differ by less than that.                                     *)
LEMMA WrapOnce ==
  ASSUME NEW P \in Nat \ {0}
  PROVE  /\ \A x \in Int : 0 <= x /\ x < P + P =>
              x % P = IF x < P THEN x ELSE x - P
         /\ \A x \in Int : -P <= x /\ x < P =>
              x % P = IF 0 <= x THEN x ELSE x + P
<1>1. ASSUME NEW x \in Int, 0 <= x, x < P + P
      PROVE  x % P = IF x < P THEN x ELSE x - P
  <2>1. CASE x < P
    <3>1. x % P = x
      BY <1>1, <2>1, Wrap, Zenon
    <3> QED BY <2>1, <3>1, Zenon
  <2>2. CASE P <= x
    <3>1. x % P = x - P
      BY <1>1, <2>2, Wrap, Zenon
    <3> QED BY <2>2, <3>1
  <2> QED BY <1>1, <2>1, <2>2
<1>2. ASSUME NEW x \in Int, -P <= x, x < P
      PROVE  x % P = IF 0 <= x THEN x ELSE x + P
  <2>1. CASE 0 <= x
    <3>1. x % P = x
      BY <1>2, <2>1, Wrap, Zenon
    <3> QED BY <2>1, <3>1, Zenon
  <2>2. CASE x < 0
    <3>1. x % P = x + P
      BY <1>2, <2>2, Wrap, Zenon
    <3> QED BY <2>2, <3>1
  <2> QED BY <1>2, <2>1, <2>2
<1> QED BY <1>1, <1>2, Zenon

(* The comparisons of timer.h tell the order of two times that lie less    *)
(* than half a period ahead of the clock, wherever the clock is.           *)
LEMMA Comparisons ==
  ASSUME NEW n \in 0 .. Period - 1, NEW a \in 0 .. Half - 1, NEW b \in 0 .. Half - 1
  PROVE  /\ TimeBeforeEq((n + a) % Period, (n + b) % Period) <=> a <= b
         /\ TimeBefore((n + a) % Period, (n + b) % Period) <=> a < b
         /\ (n + a) % Period \in 0 .. Period - 1
<1> DEFINE P == Period
           u == (n + a) % P
           v == (n + b) % P
<1>1. Half \in Nat \ {0} /\ P \in Nat \ {0} /\ P = Half + Half
  BY PeriodType
<1> HIDE DEF P
<1>0. \A x \in Int : 0 <= x /\ x < P + P => x % P = IF x < P THEN x ELSE x - P
  BY <1>1, WrapOnce, Zenon
<1>2. u = (IF n + a < P THEN n + a ELSE (n + a) - P)
  <2>1. n \in 0 .. P - 1
    BY DEF P
  <2>2. n + a \in Int /\ 0 <= n + a /\ n + a < P + P
    BY <1>1, <2>1
  <2>3. (n + a) % P = IF n + a < P THEN n + a ELSE (n + a) - P
    BY <1>0, <2>2, Zenon
  <2> QED BY <2>3 DEF u
<1>3. v = (IF n + b < P THEN n + b ELSE (n + b) - P)
  <2>1. n \in 0 .. P - 1
    BY DEF P
  <2>2. n + b \in Int /\ 0 <= n + b /\ n + b < P + P
    BY <1>1, <2>1
  <2>3. (n + b) % P = IF n + b < P THEN n + b ELSE (n + b) - P
    BY <1>0, <2>2, Zenon
  <2> QED BY <2>3 DEF v
<1>4. u \in 0 .. P - 1 /\ v \in 0 .. P - 1
  <2>1. n \in 0 .. P - 1
    BY DEF P
  <2> QED BY <1>1, <1>2, <1>3, <2>1
<1> HIDE DEF u, v
<1>5. (v - u) % P = (IF a <= b THEN b - a ELSE b - a + P)
  <2>1. v - u \in Int /\ v - u \in {b - a, b - a + P, b - a - P} /\ -P <= v - u /\ v - u < P
    BY <1>1, <1>2, <1>3, <1>4
  <2>2. (v - u) % P = IF 0 <= v - u THEN v - u ELSE v - u + P
    BY <1>1, <2>1, WrapOnce, Zenon
  <2> QED BY <1>1, <2>1, <2>2
<1>6. (u - v) % P = (IF b <= a THEN a - b ELSE a - b + P)
  <2>1. u - v \in Int /\ u - v \in {a - b, a - b + P, a - b - P} /\ -P <= u - v /\ u - v < P
    BY <1>1, <1>2, <1>3, <1>4
  <2>2. (u - v) % P = IF 0 <= u - v THEN u - v ELSE u - v + P
    BY <1>1, <2>1, WrapOnce, Zenon
  <2> QED BY <1>1, <2>1, <2>2
<1>7. TimeBeforeEq(u, v) <=> a <= b
  BY <1>1, <1>5 DEF TimeBeforeEq, P
<1>8. TimeBefore(u, v) <=> a < b
  BY <1>1, <1>6 DEF TimeBefore, P
<1> QED BY <1>4, <1>7, <1>8 DEF u, v, P

-----------------------------------------------------------------------------
(* The list *)

(* One element less, and one more. *)
LEMMA Removed ==
  ASSUME NEW S, NEW q \in Seq(S), NEW k \in 1 .. Len(q)
  PROVE  LET r == SubSeq(q, 1, k - 1) \o SubSeq(q, k + 1, Len(q))
         IN  /\ r \in Seq(S) /\ Len(r) = Len(q) - 1
             /\ \A i \in 1 .. Len(q) - 1 : r[i] = IF i < k THEN q[i] ELSE q[i + 1]
<1> DEFINE n == Len(q)
           a == SubSeq(q, 1, k - 1)
           b == SubSeq(q, k + 1, n)
<1>1. n \in Nat /\ \A i \in 1 .. n : q[i] \in S
  BY LenProperties, ElementOfSeq
<1>2. /\ a \in Seq(S) /\ Len(a) = k - 1
      /\ \A i \in 1 .. k - 1 : a[i] = q[i]
  <2>1. 1 \in Int /\ k - 1 \in Int /\ \A i \in 1 .. k - 1 : q[i] \in S
    BY <1>1
  <2>2. /\ a \in Seq(S) /\ Len(a) = IF 1 <= k - 1 THEN k - 1 - 1 + 1 ELSE 0
        /\ \A i \in 1 .. k - 1 - 1 + 1 : a[i] = q[1 + i - 1]
    BY <2>1, SubSeqProperties
  <2> QED BY <1>1, <2>2
<1>3. /\ b \in Seq(S) /\ Len(b) = n - k
      /\ \A i \in 1 .. n - k : b[i] = q[k + i]
  <2>1. k + 1 \in Int /\ n \in Int /\ \A i \in k + 1 .. n : q[i] \in S
    BY <1>1
  <2>2. /\ b \in Seq(S) /\ Len(b) = IF k + 1 <= n THEN n - (k + 1) + 1 ELSE 0
        /\ \A i \in 1 .. n - (k + 1) + 1 : b[i] = q[k + 1 + i - 1]
    BY <2>1, SubSeqProperties
  <2> QED BY <1>1, <2>2
<1> HIDE DEF n, a, b
<1>4. /\ a \o b \in Seq(S) /\ Len(a \o b) = (k - 1) + (n - k)
      /\ \A i \in 1 .. (k - 1) + (n - k) :
           (a \o b)[i] = IF i <= k - 1 THEN a[i] ELSE b[i - (k - 1)]
  <2>1. /\ a \o b \in Seq(S) /\ Len(a \o b) = Len(a) + Len(b)
        /\ \A i \in 1 .. Len(a) + Len(b) :
             (a \o b)[i] = IF i <= Len(a) THEN a[i] ELSE b[i - Len(a)]
    BY <1>2, <1>3, ConcatProperties
  <2> QED BY <1>2, <1>3, <2>1
<1>5. ASSUME NEW i \in 1 .. n - 1
      PROVE  (a \o b)[i] = IF i < k THEN q[i] ELSE q[i + 1]
  <2>1. k \in 1 .. n
    BY DEF n
  <2>2. (a \o b)[i] = IF i <= k - 1 THEN a[i] ELSE b[i - (k - 1)]
    BY <1>1, <1>4, <2>1
  <2>3. CASE i < k
    BY <1>1, <1>2, <2>1, <2>2, <2>3
  <2>4. CASE ~(i < k)
    <3>1. i - (k - 1) \in 1 .. n - k /\ k + (i - (k - 1)) = i + 1
      BY <1>1, <2>1, <2>4
    <3> QED BY <1>1, <1>3, <2>1, <2>2, <2>4, <3>1
  <2> QED BY <2>3, <2>4
<1>6. k \in 1 .. n /\ (k - 1) + (n - k) = n - 1
  BY <1>1 DEF n
<1> QED BY <1>4, <1>5, <1>6 DEF n, a, b

(* r is q with e behind its first n elements. *)
IsWith(r, q, n, e) ==
  /\ Len(r) = Len(q) + 1
  /\ \A i \in 1 .. Len(q) + 1 :
       r[i] = IF i <= n THEN q[i] ELSE IF i = n + 1 THEN e ELSE q[i - 1]

LEMMA Inserted ==
  ASSUME NEW S, NEW q \in Seq(S), NEW n \in 0 .. Len(q), NEW e \in S
  PROVE  LET r == SubSeq(q, 1, n) \o <<e>> \o SubSeq(q, n + 1, Len(q))
         IN  r \in Seq(S) /\ IsWith(r, q, n, e)
<1> DEFINE m == Len(q)
           a == SubSeq(q, 1, n)
           b == SubSeq(q, n + 1, m)
           c == a \o <<e>>
<1>1. m \in Nat /\ n \in 0 .. m /\ \A i \in 1 .. m : q[i] \in S
  BY LenProperties, ElementOfSeq
<1>2. /\ a \in Seq(S) /\ Len(a) = n
      /\ \A i \in 1 .. n : a[i] = q[i]
  <2>1. 1 \in Int /\ n \in Int /\ \A i \in 1 .. n : q[i] \in S
    BY <1>1
  <2>2. /\ a \in Seq(S) /\ Len(a) = IF 1 <= n THEN n - 1 + 1 ELSE 0
        /\ \A i \in 1 .. n - 1 + 1 : a[i] = q[1 + i - 1]
    BY <2>1, SubSeqProperties
  <2> QED BY <1>1, <2>2
<1>3. /\ b \in Seq(S) /\ Len(b) = m - n
      /\ \A i \in 1 .. m - n : b[i] = q[n + i]
  <2>1. n + 1 \in Int /\ m \in Int /\ \A i \in n + 1 .. m : q[i] \in S
    BY <1>1
  <2>2. /\ b \in Seq(S) /\ Len(b) = IF n + 1 <= m THEN m - (n + 1) + 1 ELSE 0
        /\ \A i \in 1 .. m - (n + 1) + 1 : b[i] = q[n + 1 + i - 1]
    BY <2>1, SubSeqProperties
  <2> QED BY <1>1, <2>2
<1> HIDE DEF m, a, b
<1>4. /\ c \in Seq(S) /\ Len(c) = n + 1
      /\ \A i \in 1 .. n + 1 : c[i] = IF i <= n THEN q[i] ELSE e
  <2>1. c = Append(a, e)
    BY <1>2, AppendIsConcat
  <2>2. /\ Append(a, e) \in Seq(S) /\ Len(Append(a, e)) = n + 1
        /\ \A i \in 1 .. n : Append(a, e)[i] = a[i]
        /\ Append(a, e)[n + 1] = e
    BY <1>2, AppendProperties
  <2> QED BY <1>1, <1>2, <2>1, <2>2
<1> HIDE DEF c
<1>5. /\ c \o b \in Seq(S) /\ Len(c \o b) = (n + 1) + (m - n)
      /\ \A i \in 1 .. (n + 1) + (m - n) :
           (c \o b)[i] = IF i <= n + 1 THEN c[i] ELSE b[i - (n + 1)]
  <2>1. /\ c \o b \in Seq(S) /\ Len(c \o b) = Len(c) + Len(b)
        /\ \A i \in 1 .. Len(c) + Len(b) :
             (c \o b)[i] = IF i <= Len(c) THEN c[i] ELSE b[i - Len(c)]
    BY <1>3, <1>4, ConcatProperties
  <2> QED BY <1>3, <1>4, <2>1
<1>6. ASSUME NEW i \in 1 .. m + 1
      PROVE  (c \o b)[i] = IF i <= n THEN q[i] ELSE IF i = n + 1 THEN e ELSE q[i - 1]
  <2>1. (c \o b)[i] = IF i <= n + 1 THEN c[i] ELSE b[i - (n + 1)]
    BY <1>1, <1>5
  <2>2. CASE i <= n + 1
    BY <1>1, <1>4, <2>1, <2>2
  <2>3. CASE ~(i <= n + 1)
    <3>1. i - (n + 1) \in 1 .. m - n /\ n + (i - (n + 1)) = i - 1
      BY <1>1, <2>3
    <3> QED BY <1>1, <1>3, <2>1, <2>3, <3>1
  <2> QED BY <2>2, <2>3
<1>7. (n + 1) + (m - n) = m + 1
  BY <1>1
<1>8. IsWith(c \o b, q, n, e)
  BY <1>5, <1>6, <1>7 DEF IsWith, m
<1> QED BY <1>5, <1>8 DEF m, a, b, c

-----------------------------------------------------------------------------
(* The inductive invariant *)

Type ==
  /\ now \in 0 .. Period - 1
  /\ when \in [Timers -> Int] /\ left \in [Timers -> Int]
  /\ flag \in [Timers -> BOOLEAN]
  /\ pending \in Seq(Timers)

(* The timeout of a pending timer lies ahead of the clock, by less than    *)
(* half a period; so the comparisons of timer.h tell the time that is left.*)
Ahead ==
  \A t \in Timers :
    flag[t] => left[t] \in 0 .. Half - 1 /\ when[t] = (now + left[t]) % Period

(* What is due is served in the tick interrupt that finds it. *)
Prompt == isr = "none" => \A t \in Timers : flag[t] => left[t] > 0

IInv == Type /\ FlagIsMembership /\ OrderedByTimeout /\ Ahead /\ Prompt

(* A list of timers is as it should be, for the timers that are on. *)
Good(q, on, l) ==
  /\ q \in Seq(Timers)
  /\ \A t \in Timers : on[t] <=> \E i \in 1 .. Len(q) : q[i] = t
  /\ \A i, j \in 1 .. Len(q) : q[i] = q[j] => i = j
  /\ \A i, j \in 1 .. Len(q) : i < j => l[q[i]] <= l[q[j]]

LEMMA GoodList ==
  ASSUME pending \in Seq(Timers)
  PROVE  /\ FlagIsMembership /\ OrderedByTimeout <=> Good(pending, flag, left)
         /\ Len(pending) \in Nat /\ DOMAIN pending = 1 .. Len(pending)
         /\ \A i \in 1 .. Len(pending) : pending[i] \in Timers
         /\ pending = << >> <=> Len(pending) = 0
<1>1. Len(pending) \in Nat /\ DOMAIN pending = 1 .. Len(pending)
  BY LenProperties
<1>2. \A i \in 1 .. Len(pending) : pending[i] \in Timers
  BY ElementOfSeq
<1>3. pending = << >> <=> Len(pending) = 0
  BY EmptySeq
<1>4. FlagIsMembership /\ OrderedByTimeout <=> Good(pending, flag, left)
  BY <1>1, Zenon DEF FlagIsMembership, OrderedByTimeout, Good
<1> QED BY <1>1, <1>2, <1>3, <1>4

(* timer_dequeue_pending takes one timer from the list and keeps the rest  *)
(* as it is.                                                               *)
LEMMA DequeuedGood ==
  ASSUME IInv, NEW t \in Timers
  PROVE  Good(Dequeued(t), [flag EXCEPT ![t] = FALSE], left)
<1> DEFINE n == Len(pending)
           q == Dequeued(t)
           on == [flag EXCEPT ![t] = FALSE]
<1>1. /\ pending \in Seq(Timers) /\ flag \in [Timers -> BOOLEAN]
      /\ left \in [Timers -> Int] /\ Good(pending, flag, left)
      /\ n \in Nat /\ DOMAIN pending = 1 .. n
      /\ \A i \in 1 .. n : pending[i] \in Timers
  BY GoodList DEF IInv, Type
<1>2. /\ \A u \in Timers : flag[u] <=> \E i \in 1 .. n : pending[i] = u
      /\ \A i, j \in 1 .. n : pending[i] = pending[j] => i = j
      /\ \A i, j \in 1 .. n : i < j => left[pending[i]] <= left[pending[j]]
  BY <1>1 DEF Good
<1>3. \A u \in Timers : on[u] <=> (u # t /\ flag[u])
  BY <1>1
<1> HIDE DEF n, on
<1>4. CASE \A i \in 1 .. n : pending[i] # t
  <2>1. q = pending
    BY <1>1, <1>4 DEF Dequeued
  <2>2. \A u \in Timers : on[u] <=> \E i \in 1 .. n : pending[i] = u
    BY <1>2, <1>3, <1>4
  <2> QED BY <1>1, <1>2, <2>1, <2>2 DEF Good, n, on
<1>5. CASE \E i \in 1 .. n : pending[i] = t
  <2> DEFINE k == CHOOSE i \in 1 .. n : pending[i] = t
  <2>1. k \in 1 .. n /\ pending[k] = t
    BY <1>5
  <2>2. flag[t]
    BY <1>2, <2>1
  <2>3. q = SubSeq(pending, 1, k - 1) \o SubSeq(pending, k + 1, n)
    BY <1>1, <2>1, <2>2 DEF Dequeued, n
  <2> HIDE DEF k, q
  <2>4. /\ q \in Seq(Timers) /\ Len(q) = n - 1
        /\ \A i \in 1 .. n - 1 : q[i] = IF i < k THEN pending[i] ELSE pending[i + 1]
    <3>1. /\ k \in 1 .. Len(pending)
          /\ q = SubSeq(pending, 1, k - 1) \o SubSeq(pending, k + 1, Len(pending))
      BY <2>1, <2>3 DEF n
    <3>2. /\ q \in Seq(Timers) /\ Len(q) = Len(pending) - 1
          /\ \A i \in 1 .. Len(pending) - 1 :
               q[i] = IF i < k THEN pending[i] ELSE pending[i + 1]
      BY <1>1, <3>1, Removed
    <3> QED BY <3>2 DEF n
  <2>5. \A i, j \in 1 .. n - 1 : q[i] = q[j] => i = j
    BY <1>1, <1>2, <2>1, <2>4, SMTT(30)
  <2>6. ASSUME NEW i \in 1 .. n - 1, NEW j \in 1 .. n - 1, i < j
        PROVE  left[q[i]] <= left[q[j]]
    <3>1. PICK a \in 1 .. n, b \in 1 .. n : a < b /\ q[i] = pending[a] /\ q[j] = pending[b]
      <4>1. CASE j < k
        <5>1. i \in 1 .. n /\ j \in 1 .. n /\ i < k
          BY <1>1, <2>1, <2>6, <4>1
        <5> QED BY <2>4, <2>6, <4>1, <5>1
      <4>2. CASE i < k /\ ~(j < k)
        <5>1. i \in 1 .. n /\ j + 1 \in 1 .. n /\ i < j + 1
          BY <1>1, <2>1, <2>6
        <5> QED BY <2>4, <4>2, <5>1
      <4>3. CASE ~(i < k) /\ ~(j < k)
        <5>1. i + 1 \in 1 .. n /\ j + 1 \in 1 .. n /\ i + 1 < j + 1
          BY <1>1, <2>1, <2>6
        <5> QED BY <2>4, <4>3, <5>1
      <4> QED BY <1>1, <2>1, <2>6, <4>1, <4>2, <4>3
    <3> QED BY <1>2, <3>1
  <2>7. ASSUME NEW u \in Timers
        PROVE  on[u] <=> \E i \in 1 .. n - 1 : q[i] = u
    <3>1. ASSUME NEW i \in 1 .. n - 1, q[i] = u PROVE on[u]
      <4>1. PICK a \in 1 .. n : a # k /\ pending[a] = u
        <5>1. CASE i < k
          BY <1>1, <2>1, <2>4, <3>1, <5>1
        <5>2. CASE ~(i < k)
          <6>1. i + 1 \in 1 .. n /\ i + 1 # k
            BY <1>1, <2>1, <5>2
          <6> QED BY <2>4, <3>1, <5>2, <6>1
        <5> QED BY <5>1, <5>2
      <4> QED BY <1>2, <1>3, <2>1, <4>1
    <3>2. ASSUME on[u] PROVE \E i \in 1 .. n - 1 : q[i] = u
      <4>1. PICK a \in 1 .. n : a # k /\ pending[a] = u
        BY <1>2, <1>3, <2>1, <3>2
      <4>2. CASE a < k
        <5>1. a \in 1 .. n - 1
          BY <1>1, <2>1, <4>2
        <5> QED BY <2>4, <4>1, <4>2, <5>1
      <4>3. CASE k < a
        <5>1. a - 1 \in 1 .. n - 1 /\ ~(a - 1 < k) /\ a - 1 + 1 = a
          BY <1>1, <2>1, <4>3
        <5> QED BY <2>4, <4>1, <5>1
      <4> QED BY <1>1, <2>1, <4>1, <4>2, <4>3
    <3> QED BY <3>1, <3>2
  <2> QED BY <2>4, <2>5, <2>6, <2>7 DEF Good, on, q
<1> QED BY <1>4, <1>5 DEF on

(* timer_queue_pending finds the place behind all timers that expire no    *)
(* later.                                                                  *)
LEMMA InFrontPlace ==
  ASSUME IInv, NEW q \in Seq(Timers), NEW d \in 0 .. Half - 1,
         \A i \in 1 .. Len(q) : flag[q[i]],
         \A i, j \in 1 .. Len(q) : i < j => left[q[i]] <= left[q[j]]
  PROVE  /\ InFront(q, (now + d) % Period) \in 0 .. Len(q)
         /\ \A i \in 1 .. Len(q) :
              left[q[i]] <= d <=> i <= InFront(q, (now + d) % Period)
<1> DEFINE m == Len(q)
           w == (now + d) % Period
           n == InFront(q, w)
           early == {i \in 1 .. m : left[q[i]] <= d}
           c == Cardinality(early)
<1>1. /\ m \in Nat /\ (q = << >> <=> m = 0) /\ now \in 0 .. Period - 1
      /\ \A i \in 1 .. m : q[i] \in Timers /\ left[q[i]] \in 0 .. Half - 1
                           /\ when[q[i]] = (now + left[q[i]]) % Period
  BY LenProperties, ElementOfSeq, EmptySeq DEF IInv, Ahead, Type
<1>2. \A i, j \in 1 .. m : i < j => left[q[i]] <= left[q[j]]
  OBVIOUS
<1>3. \A i \in 1 .. m : TimeBeforeEq(when[q[i]], w) <=> left[q[i]] <= d
  BY <1>1, Comparisons, Zenon
<1>4. \A i \in 1 .. m : TimeBefore(w, when[q[i]]) <=> d < left[q[i]]
  BY <1>1, Comparisons, Zenon
<1> HIDE DEF m, w
<1>5. c \in 0 .. m /\ \A i \in 1 .. m : i \in early <=> i <= c
  <2>1. IsFiniteSet(1 .. m) /\ Cardinality(1 .. m) = m
    BY <1>1, FS_Interval
  <2>2. early \subseteq 1 .. m
    OBVIOUS
  <2>3. IsFiniteSet(early) /\ c <= m /\ c \in Nat
    BY <2>1, <2>2, FS_Subset, FS_CardinalityType
  <2>4. ASSUME NEW i \in 1 .. m, i \in early PROVE i <= c
    <3>1. 1 .. i \subseteq early
      BY <1>1, <1>2, <2>4
    <3>2. IsFiniteSet(1 .. i) /\ Cardinality(1 .. i) = i
      BY FS_Interval
    <3> HIDE DEF early
    <3> QED BY <2>3, <3>1, <3>2, FS_Subset
  <2>5. ASSUME NEW i \in 1 .. m, i \notin early PROVE c < i
    <3>1. early \subseteq 1 .. i - 1
      BY <1>1, <1>2, <2>5
    <3>2. IsFiniteSet(1 .. i - 1) /\ Cardinality(1 .. i - 1) = i - 1
      <4>1. 1 \in Int /\ i - 1 \in Int
        OBVIOUS
      <4>2. /\ IsFiniteSet(1 .. i - 1)
            /\ Cardinality(1 .. i - 1) = IF 1 > i - 1 THEN 0 ELSE (i - 1) - 1 + 1
        BY <4>1, FS_Interval
      <4> QED BY <4>2
    <3> HIDE DEF early
    <3>3. c <= i - 1
      BY <3>1, <3>2, FS_Subset, ZenonT(60)
    <3> QED BY <2>3, <3>3
  <2> HIDE DEF c
  <2> QED BY <1>1, <2>3, <2>4, <2>5
<1> HIDE DEF c
<1>6. \A i \in 1 .. m : left[q[i]] <= d <=> i <= c
  BY <1>5
<1> HIDE DEF early
<1>7. n = c
  <2>1. CASE m = 0
    BY <1>1, <1>5, <2>1 DEF InFront
  <2>2. CASE m # 0 /\ TimeBefore(w, when[q[1]])
    <3>1. 1 \in 1 .. m
      BY <1>1, <2>2
    <3>2. ~(left[q[1]] <= d)
      BY <1>1, <1>4, <2>2, <3>1
    <3>3. c = 0
      BY <1>5, <1>6, <3>1, <3>2
    <3> QED BY <2>2, <3>3, Zenon DEF InFront
  <2>3. CASE m # 0 /\ ~TimeBefore(w, when[q[1]])
    <3>1. 1 \in 1 .. m
      BY <1>1, <2>3
    <3>2. left[q[1]] <= d
      BY <1>1, <1>4, <2>3, <3>1
    <3>3. c \in 1 .. m
      BY <1>1, <1>5, <1>6, <3>1, <3>2
    <3> DEFINE Place(k) ==
                 /\ \A i \in 2 .. k : TimeBeforeEq(when[q[i]], w)
                 /\ k < m => ~TimeBeforeEq(when[q[k + 1]], w)
    <3>4. \A i \in 1 .. m : TimeBeforeEq(when[q[i]], w) <=> i <= c
      BY <1>3, <1>6
    <3>5. Place(c)
      <4>1. \A i \in 2 .. c : TimeBeforeEq(when[q[i]], w)
        BY <1>1, <3>3, <3>4
      <4>2. ASSUME c < m PROVE ~TimeBeforeEq(when[q[c + 1]], w)
        <5>1. c + 1 \in 1 .. m /\ ~(c + 1 <= c)
          BY <1>1, <3>3, <4>2
        <5> QED BY <3>4, <5>1
      <4> QED BY <4>1, <4>2
    <3>6. ASSUME NEW k \in 1 .. m, Place(k) PROVE k = c
      <4>1. CASE c < k
        <5>1. k \in 2 .. k /\ ~(k <= c)
          BY <1>1, <3>3, <4>1
        <5> QED BY <3>4, <3>6, <5>1
      <4>2. CASE k < c
        <5>1. k < m /\ k + 1 \in 1 .. m /\ k + 1 <= c
          BY <1>1, <3>3, <4>2
        <5> QED BY <3>4, <3>6, <5>1
      <4> QED BY <3>3, <4>1, <4>2
    <3>7. n = CHOOSE k \in 1 .. m : Place(k)
      BY <1>1, <2>3, Zenon DEF InFront, m
    <3> HIDE DEF Place, n
    <3> QED BY <3>3, <3>5, <3>6, <3>7
  <2> QED BY <2>1, <2>2, <2>3
<1> QED BY <1>5, <1>6, <1>7 DEF m, w

-----------------------------------------------------------------------------
(* The steps *)

LEMMA ScheduleInKeeps ==
  ASSUME IInv, NEW t \in Timers, NEW d \in Delays, ScheduleIn(t, d), UNCHANGED <<now, isr>>
  PROVE  IInv'
<1> DEFINE w == (now + d) % Period
           q == Dequeued(t)
           n == InFront(q, w)
           m == Len(q)
           off == [flag EXCEPT ![t] = FALSE]
<1>1. /\ when' = [when EXCEPT ![t] = w] /\ flag' = [flag EXCEPT ![t] = TRUE]
      /\ left' = [left EXCEPT ![t] = d]
      /\ pending' = SubSeq(q, 1, n) \o <<t>> \o SubSeq(q, n + 1, m)
  BY DEF ScheduleIn
<1>2. /\ d \in 1 .. Half - 1 /\ d \in 0 .. Half - 1 /\ d \in Int
      /\ now \in 0 .. Period - 1 /\ w \in 0 .. Period - 1
  <2>1. d \in 1 .. Half - 1 /\ d \in 0 .. Half - 1 /\ d \in Int
    BY TimeAssumption
  <2>2. now \in 0 .. Period - 1
    BY DEF IInv, Type
  <2> QED BY <2>1, <2>2, Comparisons
<1>3. Good(q, off, left)
  BY DequeuedGood
<1> HIDE DEF q
<1>4. /\ q \in Seq(Timers) /\ m \in Nat /\ \A i \in 1 .. m : q[i] \in Timers
      /\ \A i, j \in 1 .. m : q[i] = q[j] => i = j
      /\ \A i, j \in 1 .. m : i < j => left[q[i]] <= left[q[j]]
  BY <1>3, LenProperties, ElementOfSeq DEF Good
<1>5. /\ \A u \in Timers : (u # t /\ flag[u]) <=> \E i \in 1 .. m : q[i] = u
      /\ \A i \in 1 .. m : flag[q[i]] /\ q[i] # t
  <2>1. \A u \in Timers : off[u] <=> (u # t /\ flag[u])
    BY DEF IInv, Type
  <2>2. \A u \in Timers : off[u] <=> \E i \in 1 .. m : q[i] = u
    BY <1>3 DEF Good
  <2> HIDE DEF off, m
  <2> QED BY <1>4, <2>1, <2>2
<1>6. n \in 0 .. m /\ \A i \in 1 .. m : left[q[i]] <= d <=> i <= n
  BY <1>2, <1>4, <1>5, InFrontPlace
<1> HIDE DEF n
<1>7. /\ pending' \in Seq(Timers) /\ Len(pending') = m + 1
      /\ \A i \in 1 .. m + 1 :
           pending'[i] = IF i <= n THEN q[i] ELSE IF i = n + 1 THEN t ELSE q[i - 1]
  <2>1. q \in Seq(Timers) /\ n \in 0 .. Len(q) /\ t \in Timers
    BY <1>4, <1>6
  <2>2. pending' = SubSeq(q, 1, n) \o <<t>> \o SubSeq(q, n + 1, Len(q))
    BY <1>1
  <2>3. /\ pending' \in Seq(Timers)
        /\ IsWith(pending', q, n, t)
    BY <2>1, <2>2, Inserted, Zenon
  <2> QED BY <1>4, <1>6, <2>3 DEF IsWith
<1> HIDE DEF m, w
<1>8. /\ left \in [Timers -> Int] /\ left' \in [Timers -> Int]
      /\ flag \in [Timers -> BOOLEAN] /\ flag' \in [Timers -> BOOLEAN]
      /\ when \in [Timers -> Int] /\ when' \in [Timers -> Int]
      /\ left'[t] = d /\ flag'[t] /\ when'[t] = w
      /\ \A u \in Timers : u # t =>
           left'[u] = left[u] /\ flag'[u] = flag[u] /\ when'[u] = when[u]
  BY <1>1, <1>2 DEF IInv, Type
<1>9. \A i, j \in 1 .. m + 1 : pending'[i] = pending'[j] => i = j
  <2>1. ASSUME NEW i \in 1 .. m + 1, NEW j \in 1 .. m + 1, i < j
        PROVE  pending'[i] # pending'[j]
    <3>1. CASE j <= n
      BY <1>4, <1>6, <1>7, <2>1, <3>1
    <3>2. CASE j = n + 1
      BY <1>4, <1>5, <1>6, <1>7, <2>1, <3>2
    <3>3. CASE n + 1 < j
      <4>1. j - 1 \in 1 .. m /\ pending'[j] = q[j - 1]
        BY <1>4, <1>6, <1>7, <3>3
      <4>2. CASE i <= n
        <5>1. i \in 1 .. m /\ pending'[i] = q[i] /\ i # j - 1
          BY <1>4, <1>6, <1>7, <3>3, <4>2
        <5> QED BY <1>4, <4>1, <5>1
      <4>3. CASE i = n + 1
        BY <1>4, <1>5, <1>6, <1>7, <4>1, <4>3
      <4>4. CASE n + 1 < i
        <5>1. i - 1 \in 1 .. m /\ pending'[i] = q[i - 1] /\ i - 1 # j - 1
          BY <1>4, <1>6, <1>7, <2>1, <4>4
        <5> QED BY <1>4, <4>1, <5>1
      <4> QED BY <1>6, <4>2, <4>3, <4>4
    <3> QED BY <1>6, <3>1, <3>2, <3>3
  <2> QED BY <1>4, <2>1
<1>10. ASSUME NEW i \in 1 .. m + 1, NEW j \in 1 .. m + 1, i < j
       PROVE  left'[pending'[i]] <= left'[pending'[j]]
  <2>1. ASSUME NEW k \in 1 .. m
        PROVE  left'[q[k]] = left[q[k]] /\ left[q[k]] \in Int
    BY <1>4, <1>5, <1>8
  <2>2. CASE j <= n
    <3>1. /\ i \in 1 .. m /\ j \in 1 .. m
          /\ pending'[i] = q[i] /\ pending'[j] = q[j]
      BY <1>4, <1>6, <1>7, <1>10, <2>2
    <3> QED BY <1>4, <1>10, <2>1, <3>1
  <2>3. CASE j = n + 1
    <3>1. i \in 1 .. m /\ i <= n /\ pending'[i] = q[i] /\ pending'[j] = t
      BY <1>4, <1>6, <1>7, <1>10, <2>3
    <3> QED BY <1>6, <1>8, <2>1, <3>1
  <2>4. CASE n + 1 < j
    <3>1. j - 1 \in 1 .. m /\ pending'[j] = q[j - 1] /\ ~(j - 1 <= n)
      BY <1>4, <1>6, <1>7, <2>4
    <3>2. d < left[q[j - 1]] /\ left'[pending'[j]] = left[q[j - 1]]
      BY <1>2, <1>6, <2>1, <3>1
    <3>3. CASE i <= n
      <4>1. i \in 1 .. m /\ pending'[i] = q[i] /\ i < j - 1
        BY <1>4, <1>6, <1>7, <2>4, <3>3
      <4> QED BY <1>4, <2>1, <3>1, <3>2, <4>1
    <3>4. CASE i = n + 1
      <4>1. pending'[i] = t
        BY <1>4, <1>6, <1>7, <3>4
      <4> QED BY <1>2, <1>8, <2>1, <3>1, <3>2, <4>1
    <3>5. CASE n + 1 < i
      <4>1. i - 1 \in 1 .. m /\ pending'[i] = q[i - 1] /\ i - 1 < j - 1
        BY <1>4, <1>6, <1>7, <1>10, <3>5
      <4> QED BY <1>4, <2>1, <3>1, <3>2, <4>1
    <3> QED BY <1>6, <3>3, <3>4, <3>5
  <2> QED BY <1>6, <2>2, <2>3, <2>4
<1>11. ASSUME NEW u \in Timers
       PROVE  flag'[u] <=> \E i \in 1 .. m + 1 : pending'[i] = u
  <2>1. CASE u = t
    <3>1. n + 1 \in 1 .. m + 1 /\ pending'[n + 1] = t
      BY <1>4, <1>6, <1>7
    <3> QED BY <1>8, <2>1, <3>1
  <2>2. CASE u # t
    <3>1. ASSUME NEW i \in 1 .. m, q[i] = u
          PROVE  \E j \in 1 .. m + 1 : pending'[j] = u
      <4>1. CASE i <= n
        BY <1>4, <1>6, <1>7, <3>1, <4>1
      <4>2. CASE ~(i <= n)
        <5>1. i + 1 \in 1 .. m + 1 /\ pending'[i + 1] = q[i]
          BY <1>4, <1>6, <1>7, <4>2
        <5> QED BY <3>1, <5>1
      <4> QED BY <4>1, <4>2
    <3>2. ASSUME NEW j \in 1 .. m + 1, pending'[j] = u
          PROVE  \E i \in 1 .. m : q[i] = u
      <4>1. CASE j <= n
        <5>1. j \in 1 .. m /\ pending'[j] = q[j]
          BY <1>4, <1>6, <1>7, <4>1
        <5> QED BY <3>2, <5>1
      <4>2. CASE j = n + 1
        BY <1>6, <1>7, <2>2, <3>2, <4>2
      <4>3. CASE n + 1 < j
        <5>1. j - 1 \in 1 .. m /\ pending'[j] = q[j - 1]
          BY <1>4, <1>6, <1>7, <4>3
        <5> QED BY <3>2, <5>1
      <4> QED BY <1>6, <4>1, <4>2, <4>3
    <3>3. flag'[u] <=> flag[u]
      BY <1>8, <2>2
    <3>4. flag[u] <=> \E i \in 1 .. m : q[i] = u
      BY <1>5, <2>2
    <3> QED BY <3>1, <3>2, <3>3, <3>4
  <2> QED BY <2>1, <2>2
<1>12. FlagIsMembership' /\ OrderedByTimeout'
  <2>1. DOMAIN pending' = 1 .. m + 1
    BY <1>7, LenProperties
  <2>2. FlagIsMembership'
    BY <1>9, <1>11, <2>1, Zenon DEF FlagIsMembership
  <2>3. OrderedByTimeout'
    BY <1>10, <2>1, Zenon DEF OrderedByTimeout
  <2> QED BY <2>2, <2>3
<1>13. Type'
  BY <1>2, <1>7, <1>8 DEF IInv, Type
<1>14. Ahead'
  <2>1. ASSUME NEW u \in Timers, flag'[u]
        PROVE  left'[u] \in 0 .. Half - 1 /\ when'[u] = (now' + left'[u]) % Period
    <3>1. CASE u = t
      BY <1>2, <1>8, <3>1 DEF w
    <3>2. CASE u # t
      BY <1>8, <2>1, <3>2 DEF IInv, Ahead
    <3> QED BY <3>1, <3>2
  <2> QED BY <2>1, Zenon DEF Ahead
<1>15. Prompt'
  <2>1. ASSUME isr = "none", NEW u \in Timers, flag'[u] PROVE left'[u] > 0
    <3>1. CASE u = t
      BY <1>2, <1>8, <3>1
    <3>2. CASE u # t
      BY <1>8, <2>1, <3>2 DEF IInv, Prompt
    <3> QED BY <3>1, <3>2
  <2> QED BY <2>1 DEF Prompt
<1> QED BY <1>12, <1>13, <1>14, <1>15 DEF IInv

LEMMA DescheduleKeeps ==
  ASSUME IInv, NEW t \in Timers, Deschedule(t), UNCHANGED <<now, isr>>
  PROVE  IInv'
<1>1. /\ when' = when /\ flag' = [flag EXCEPT ![t] = FALSE]
      /\ left' = [left EXCEPT ![t] = 0]
      /\ pending' = Dequeued(t)
  BY DEF Deschedule
<1>2. Good(pending', flag', left)
  BY <1>1, DequeuedGood
<1>3. /\ left \in [Timers -> Int] /\ left' \in [Timers -> Int]
      /\ flag \in [Timers -> BOOLEAN] /\ flag' \in [Timers -> BOOLEAN]
      /\ ~flag'[t] /\ pending' \in Seq(Timers)
      /\ \A u \in Timers : u # t => left'[u] = left[u] /\ flag'[u] = flag[u]
  BY <1>1, <1>2 DEF IInv, Type, Good
<1>4. \A i \in 1 .. Len(pending') : pending'[i] \in Timers /\ pending'[i] # t
  BY <1>2, <1>3, ElementOfSeq DEF Good
<1>5. Good(pending', flag', left')
  BY <1>2, <1>3, <1>4 DEF Good
<1>6. FlagIsMembership' /\ OrderedByTimeout'
  <2>1. DOMAIN pending' = 1 .. Len(pending')
    BY <1>3, LenProperties
  <2> QED BY <1>5, <2>1, Zenon DEF FlagIsMembership, OrderedByTimeout, Good
<1>7. Type'
  BY <1>1, <1>3 DEF IInv, Type
<1>8. Ahead' /\ Prompt'
  BY <1>1, <1>3 DEF IInv, Ahead, Prompt
<1> QED BY <1>6, <1>7, <1>8 DEF IInv

(* The clock moves on, over its wrap too, and every timer comes nearer.    *)
LEMMA TickKeeps == IInv /\ Tick => IInv'
<1> SUFFICES ASSUME IInv, Tick PROVE IInv'
  OBVIOUS
<1> DEFINE P == Period
<1>1. Half \in Nat \ {0} /\ P \in Nat \ {0} /\ P = Half + Half
  BY PeriodType
<1>2. /\ now \in 0 .. P - 1 /\ now' = (now + 1) % P
      /\ left' = [t \in Timers |-> IF flag[t] THEN left[t] - 1 ELSE left[t]]
      /\ left \in [Timers -> Int] /\ isr = "none" /\ isr' = "loop"
      /\ UNCHANGED <<when, flag, pending>>
  BY DEF IInv, Type, Tick
<1> HIDE DEF P
<1>3. now' = (IF now + 1 < P THEN now + 1 ELSE (now + 1) - P) /\ now' \in 0 .. P - 1
  <2>1. now + 1 \in Int /\ 0 <= now + 1 /\ now + 1 < P + P
    BY <1>1, <1>2
  <2>2. (now + 1) % P = IF now + 1 < P THEN now + 1 ELSE (now + 1) - P
    BY <1>1, <2>1, WrapOnce, Zenon
  <2> QED BY <1>1, <1>2, <2>2
<1>4. ASSUME NEW t \in Timers, flag[t]
      PROVE  /\ left'[t] = left[t] - 1 /\ left'[t] \in 0 .. Half - 1
             /\ when[t] = (now' + left'[t]) % P
  <2>1. /\ left[t] \in 0 .. Half - 1 /\ left[t] > 0
        /\ when[t] = (now + left[t]) % P
    BY <1>2, <1>4 DEF IInv, Ahead, Prompt, P
  <2>2. left'[t] = left[t] - 1 /\ left'[t] \in 0 .. Half - 1
    BY <1>1, <1>2, <1>4, <2>1
  <2>3. (now + left[t]) % P
          = IF now + left[t] < P THEN now + left[t] ELSE (now + left[t]) - P
    <3>1. now + left[t] \in Int /\ 0 <= now + left[t] /\ now + left[t] < P + P
      BY <1>1, <1>2, <2>1
    <3> QED BY <1>1, <3>1, WrapOnce, Zenon
  <2>4. (now' + left'[t]) % P
          = IF now' + left'[t] < P THEN now' + left'[t] ELSE (now' + left'[t]) - P
    <3>1. now' + left'[t] \in Int /\ 0 <= now' + left'[t] /\ now' + left'[t] < P + P
      BY <1>1, <1>3, <2>2
    <3> QED BY <1>1, <3>1, WrapOnce, Zenon
  <2> QED BY <1>1, <1>2, <1>3, <2>1, <2>2, <2>3, <2>4
<1>5. left' \in [Timers -> Int] /\ Type'
  BY <1>2, <1>3 DEF IInv, Type, P
<1>6. FlagIsMembership'
  BY <1>2 DEF IInv, FlagIsMembership
<1>7. OrderedByTimeout'
  <2>1. \A i \in DOMAIN pending : pending[i] \in Timers /\ flag[pending[i]]
    BY GoodList DEF IInv, Type, FlagIsMembership
  <2>2. \A i \in DOMAIN pending :
          left'[pending[i]] = left[pending[i]] - 1 /\ left[pending[i]] \in Int
    BY <1>2, <1>4, <2>1
  <2> QED BY <1>2, <2>2 DEF IInv, OrderedByTimeout
<1>8. Ahead'
  BY <1>2, <1>4, Zenon DEF Ahead, P
<1> QED BY <1>2, <1>5, <1>6, <1>7, <1>8 DEF IInv, Prompt

(* What is due has no time left. *)
LEMMA DueIsNow ==
  ASSUME IInv, pending # << >>
  PROVE  /\ pending[1] \in Timers /\ flag[pending[1]]
         /\ 1 \in DOMAIN pending
         /\ left[pending[1]] \in 0 .. Half - 1
         /\ Due <=> left[pending[1]] = 0
<1> DEFINE t == pending[1]
<1>1. 1 \in DOMAIN pending /\ t \in Timers /\ flag[t]
  BY GoodList DEF IInv, Type, FlagIsMembership
<1>2. now \in 0 .. Period - 1 /\ Half \in Nat \ {0} /\ Period = Half + Half
  BY PeriodType DEF IInv, Type
<1>3. left[t] \in 0 .. Half - 1 /\ when[t] = (now + left[t]) % Period
  BY <1>1 DEF IInv, Ahead
<1>4. now = (now + 0) % Period
  <2>1. Period \in Nat \ {0} /\ now \in Int /\ 0 <= now /\ now < Period + Period
        /\ now < Period /\ now + 0 = now
    BY <1>2, PeriodType
  <2>2. now % Period = now
    BY <2>1, WrapOnce, Zenon
  <2> QED BY <2>1, <2>2
<1>5. TimeBeforeEq(when[t], now) <=> left[t] <= 0
  <2>1. 0 \in 0 .. Half - 1
    BY <1>2
  <2>2. TimeBeforeEq((now + left[t]) % Period, (now + 0) % Period) <=> left[t] <= 0
    BY <1>2, <1>3, <2>1, Comparisons, Zenon
  <2> QED BY <1>3, <1>4, <2>2, Zenon
<1> QED BY <1>1, <1>3, <1>5 DEF Due

LEMMA ExpireKeeps == IInv /\ Expire => IInv'
<1> SUFFICES ASSUME IInv, Expire PROVE IInv'
  OBVIOUS
<1> DEFINE n == Len(pending)
           t == pending[1]
<1>1. /\ pending # << >> /\ pending' = Tail(pending) /\ isr' = "callback"
      /\ flag' = [flag EXCEPT ![t] = FALSE] /\ UNCHANGED <<now, when, left>>
  BY DEF Expire, Due
<1>2. /\ pending \in Seq(Timers) /\ n \in Nat /\ n # 0 /\ DOMAIN pending = 1 .. n
      /\ \A i \in 1 .. n : pending[i] \in Timers
      /\ flag \in [Timers -> BOOLEAN] /\ t \in Timers
  BY <1>1, GoodList, DueIsNow DEF IInv, Type
<1>3. /\ pending' \in Seq(Timers) /\ Len(pending') = n - 1
      /\ DOMAIN pending' = 1 .. n - 1
      /\ \A i \in 1 .. n - 1 : pending'[i] = pending[i + 1]
  <2>1. /\ pending' \in Seq(Timers) /\ Len(pending') = n - 1
        /\ \A i \in 1 .. Len(pending') : pending'[i] = pending[i + 1]
    BY <1>1, <1>2, HeadTailProperties
  <2> QED BY <2>1, LenProperties
<1> HIDE DEF n
<1>4. /\ \A u \in Timers : flag[u] <=> \E i \in 1 .. n : pending[i] = u
      /\ \A i, j \in 1 .. n : pending[i] = pending[j] => i = j
      /\ \A i, j \in 1 .. n : i < j => left[pending[i]] <= left[pending[j]]
  BY <1>2 DEF IInv, FlagIsMembership, OrderedByTimeout
<1>5. \A i \in 1 .. n - 1 : i + 1 \in 1 .. n
  BY <1>2
<1>6. \A u \in Timers : flag'[u] <=> \E i \in 1 .. n - 1 : pending'[i] = u
  <2>1. ASSUME NEW u \in Timers, NEW i \in 1 .. n - 1, pending'[i] = u PROVE flag'[u]
    <3>1. i + 1 \in 1 .. n /\ pending[i + 1] = u /\ i + 1 # 1 /\ 1 \in 1 .. n
      BY <1>2, <1>3, <2>1
    <3>2. u # t /\ flag[u]
      BY <1>4, <3>1
    <3> QED BY <1>1, <1>2, <3>2
  <2>2. ASSUME NEW u \in Timers, flag'[u]
        PROVE  \E i \in 1 .. n - 1 : pending'[i] = u
    <3>1. u # t /\ flag[u]
      BY <1>1, <1>2, <2>2
    <3>2. PICK j \in 1 .. n : pending[j] = u
      BY <1>4, <3>1
    <3>3. j - 1 \in 1 .. n - 1 /\ pending'[j - 1] = u
      <4>1. j # 1
        BY <3>1, <3>2
      <4> QED BY <1>2, <1>3, <3>2, <4>1
    <3> QED BY <3>3
  <2> QED BY <2>1, <2>2
<1>7. FlagIsMembership'
  <2>1. \A i, j \in 1 .. n - 1 : pending'[i] = pending'[j] => i = j
    BY <1>3, <1>4, <1>5
  <2> QED BY <1>3, <1>6, <2>1, Zenon DEF FlagIsMembership
<1>8. OrderedByTimeout'
  <2>1. ASSUME NEW i \in 1 .. n - 1, NEW j \in 1 .. n - 1, i < j
        PROVE  left[pending'[i]] <= left[pending'[j]]
    <3>1. i + 1 < j + 1
      BY <2>1
    <3> QED BY <1>3, <1>4, <1>5, <3>1
  <2> QED BY <1>1, <1>3, <2>1 DEF OrderedByTimeout
<1>9. Type' /\ Ahead' /\ Prompt'
  <2>1. flag' \in [Timers -> BOOLEAN] /\ \A u \in Timers : flag'[u] => flag[u]
    BY <1>1, <1>2
  <2>2. Type'
    BY <1>1, <1>3, <2>1 DEF IInv, Type
  <2>3. Ahead'
    BY <1>1, <2>1 DEF IInv, Ahead
  <2> QED BY <1>1, <2>2, <2>3 DEF Prompt
<1> QED BY <1>7, <1>8, <1>9 DEF IInv

(* The tick interrupt ends when nothing is due any more; the list is in    *)
(* order, so nothing behind its head is either.                            *)
LEMMA NothingDue ==
  ASSUME IInv, ~Due
  PROVE  \A i \in DOMAIN pending : left[pending[i]] > 0
<1> SUFFICES ASSUME NEW i \in DOMAIN pending PROVE left[pending[i]] > 0
  OBVIOUS
<1>1. /\ Len(pending) \in Nat /\ DOMAIN pending = 1 .. Len(pending)
      /\ pending # << >> /\ pending[i] \in Timers /\ flag[pending[i]]
  BY GoodList DEF IInv, Type, FlagIsMembership
<1>2. left[pending[1]] \in 0 .. Half - 1 /\ left[pending[1]] # 0 /\ 1 \in DOMAIN pending
  BY <1>1, DueIsNow
<1>3. left[pending[1]] > 0
  BY <1>2
<1>4. left[pending[i]] \in Int
  BY <1>1 DEF IInv, Type
<1>5. 1 < i => left[pending[1]] <= left[pending[i]]
  BY <1>2 DEF IInv, OrderedByTimeout
<1>6. i = 1 \/ 1 < i
  BY <1>1
<1> QED BY <1>2, <1>3, <1>4, <1>5, <1>6

LEMMA IInvInit == TqInit => IInv
<1> SUFFICES ASSUME TqInit PROVE IInv
  OBVIOUS
<1>1. pending \in Seq(Timers) /\ DOMAIN pending = {}
  BY EmptySeq DEF TqInit
<1>2. Type
  BY <1>1, PeriodType DEF TqInit, Type
<1> QED BY <1>1, <1>2 DEF TqInit, IInv, FlagIsMembership, OrderedByTimeout, Ahead, Prompt

LEMMA IInvNext == IInv /\ [TqNext]_tqVars => IInv'
<1> SUFFICES ASSUME IInv, [TqNext]_tqVars PROVE IInv'
  OBVIOUS
<1>1. ASSUME UNCHANGED <<now, listVars>>, isr' = isr \/ isr' # "none" PROVE IInv'
  BY <1>1 DEF IInv, listVars, Type, FlagIsMembership, OrderedByTimeout, Ahead, Prompt
<1>2. CASE Use
  BY <1>2, ScheduleInKeeps, DescheduleKeeps DEF Use
<1>3. CASE TickEnds
  <2>1. \A t \in Timers : flag[t] => left[t] > 0
    BY <1>3, NothingDue, GoodList DEF TickEnds, IInv, FlagIsMembership
  <2> QED BY <1>3, <2>1
      DEF TickEnds, IInv, listVars, Type, FlagIsMembership, OrderedByTimeout, Ahead, Prompt
<1>4. CASE CallbackReturns \/ TimersSleep \/ TimersWakeup \/ UNCHANGED tqVars
  BY <1>1, <1>4 DEF CallbackReturns, TimersSleep, TimersWakeup, tqVars
<1> QED BY <1>2, <1>3, <1>4, TickKeeps, ExpireKeeps DEF TqNext, TickInterrupt

-----------------------------------------------------------------------------
(* List, flags, clock and the time that is left agree in every state.      *)
THEOREM Invariance == TqSpec => []IInv
BY IInvInit, IInvNext, PTL DEF TqSpec

(* The flag of a timer says whether timer_queue_pending linked it, and it  *)
(* is never linked twice, whatever the callbacks do in the tick.           *)
THEOREM FlagsKept == TqSpec => []FlagIsMembership
<1>1. IInv => FlagIsMembership
  BY DEF IInv
<1> QED BY <1>1, Invariance, PTL

(* timer_queue_pending keeps the list in the order of the timeouts, across *)
(* the wrap of the clock.                                                  *)
THEOREM OrderKept == TqSpec => []OrderedByTimeout
<1>1. IInv => OrderedByTimeout
  BY DEF IInv
<1> QED BY <1>1, Invariance, PTL

(* timers_tick takes a timer in the tick that completes its delay, not     *)
(* before, and leaves none behind that is due.                             *)
THEOREM ExpiresOnTime == TqSpec => OnTime
<1>1. ASSUME IInv, NEW t \in Timers, Expire, flag[t], ~flag'[t]
      PROVE  left[t] = 0
  <2>1. pending # << >> /\ Due /\ flag' = [flag EXCEPT ![pending[1]] = FALSE]
    BY <1>1 DEF Expire, Due
  <2>2. left[pending[1]] = 0
    BY <1>1, <2>1, DueIsNow
  <2>3. t = pending[1]
    BY <1>1, <2>1 DEF IInv, Type
  <2> QED BY <2>2, <2>3
<1>2. ASSUME IInv, TickEnds PROVE \A i \in DOMAIN pending : left[pending[i]] > 0
  BY <1>2, NothingDue DEF TickEnds
<1>3. IInv /\ [TqNext]_tqVars =>
        [/\ \A t \in Timers : Expire /\ flag[t] /\ ~flag'[t] => left[t] = 0
         /\ TickEnds => \A i \in DOMAIN pending : left[pending[i]] > 0]_tqVars
  BY <1>1, <1>2
<1> QED BY <1>3, Invariance, PTL DEF TqSpec, OnTime

=============================================================================
