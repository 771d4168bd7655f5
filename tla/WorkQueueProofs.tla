-------------------------- MODULE WorkQueueProofs --------------------------
(***************************************************************************)
(* The shape of the list in the slots of work-queue.c and the accounting   *)
(* of the slots, and that they are the queue of WorkQueueSpec, proved for  *)
(* any number of slots and works.                                          *)
(***************************************************************************)
EXTENDS WorkQueue, RunQueueLemmas

Type ==
  /\ head \in Links /\ tail \in Links /\ cur \in Links /\ prev \in Links
  /\ next \in [Slots -> Links] /\ item \in [Slots -> Works \cup {NoWork}]
  /\ purged \in Works \cup {NoWork}

(* Where the walk of work_queue_deschedule is: the slot it looks at is in  *)
(* the list, behind the last one it kept, and it has left no slot with the *)
(* work it removes behind it.                                              *)
Walk ==
  \E k \in 1 .. Len(order) + 1 :
    /\ cur = IF k <= Len(order) THEN order[k] ELSE NULL
    /\ prev = IF k = 1 THEN NULL ELSE order[k - 1]
    /\ \A i \in 1 .. k - 1 : item[order[i]] # purged

(* The work being executed is the one whose slot was given back.           *)
Loop ==
  /\ pc \in {"take", "free", "exec", "purge", "idle", "asleep"}
  /\ Started => running \in Works
  /\ ~Started => running = NoWork
  /\ pc = "purge" => purged \in Works

(* The inductive invariant. *)
IInv ==
  /\ Type /\ ListShape /\ SlotsAccounted
  /\ pc = "free" => cur \in Slots
  /\ pc = "purge" => Walk

InList == {order[i] : i \in DOMAIN order}

(* The list, its slots and its ends as numbers. *)
LEMMA Shapes ==
  ASSUME order \in Seq(Slots)
  PROVE  /\ Len(order) \in Nat /\ DOMAIN order = 1 .. Len(order)
         /\ \A i \in 1 .. Len(order) : order[i] \in Slots
         /\ order = << >> <=> Len(order) = 0
         /\ NULL \notin Slots
<1>1. Len(order) \in Nat /\ DOMAIN order = 1 .. Len(order)
  BY LenProperties
<1>2. \A i \in 1 .. Len(order) : order[i] \in Slots
  BY ElementOfSeq
<1>3. order = << >> <=> Len(order) = 0
  BY EmptySeq
<1> QED BY <1>1, <1>2, <1>3 DEF Slots, NULL

(* work_queue_schedule links the first free slot behind the last one.      *)
LEMMA ScheduleKeeps ==
  ASSUME IInv, NEW w \in Works, Schedule(w)
  PROVE  /\ head' \in Links /\ tail' \in Links
         /\ next' \in [Slots -> Links] /\ item' \in [Slots -> Works \cup {NoWork}]
         /\ ListShape'
         /\ (UNCHANGED <<pc, cur>> => SlotsAccounted')
         /\ (pc' # "free" /\ pc # "free" => SlotsAccounted')
<1> DEFINE n == Len(order)
<1>1. Type /\ ListShape /\ SlotsAccounted /\ (pc = "free" => cur \in Slots)
  BY DEF IInv
<1>2. CASE UNCHANGED slotVars
  BY <1>1, <1>2 DEF slotVars, Type, ListShape, SlotsAccounted, Held
<1>3. ASSUME NEW s \in Free,
             /\ item' = [item EXCEPT ![s] = w]
             /\ next' = [r \in Slots |->
                           IF r = s THEN NULL ELSE IF r = tail THEN s ELSE next[r]]
             /\ head' = IF tail = NULL THEN s ELSE head
             /\ tail' = s
             /\ order' = Append(order, s)
      PROVE  /\ head' \in Links /\ tail' \in Links
             /\ next' \in [Slots -> Links] /\ item' \in [Slots -> Works \cup {NoWork}]
             /\ ListShape'
             /\ (UNCHANGED <<pc, cur>> => SlotsAccounted')
             /\ (pc' # "free" /\ pc # "free" => SlotsAccounted')
  <2>1. /\ s \in Slots /\ item[s] = NoWork /\ NoWork \notin Works
        /\ s \notin InList /\ s \notin Held
    BY <1>1, QueueAssumption DEF Free, SlotsAccounted, InList
  <2>2. /\ n \in Nat /\ DOMAIN order = 1 .. n /\ NULL \notin Slots
        /\ \A i \in 1 .. n : order[i] \in Slots
        /\ order = << >> <=> n = 0
    BY <1>1, Shapes DEF ListShape
  <2>3. /\ order' \in Seq(Slots) /\ Len(order') = n + 1
        /\ DOMAIN order' = 1 .. n + 1
        /\ order' # << >>
        /\ \A i \in 1 .. n : order'[i] = order[i]
        /\ order'[n + 1] = s
    <3>1. order \in Seq(Slots)
      BY <1>1 DEF ListShape
    <3>2. /\ order' \in Seq(Slots) /\ Len(order') = n + 1 /\ order' # << >>
          /\ \A i \in 1 .. n : order'[i] = order[i]
          /\ order'[n + 1] = s
      BY <1>3, <2>1, <3>1, AppendProperties
    <3> QED BY <3>2, LenProperties
  <2>4. \A i \in 1 .. n : order[i] # s
    BY <2>1, <2>2 DEF InList
  <2> HIDE DEF n
  <2>5. /\ head' \in Links /\ tail' \in Links
        /\ next' \in [Slots -> Links] /\ item' \in [Slots -> Works \cup {NoWork}]
    BY <1>1, <1>3, <2>1 DEF Type, Links
  <2>6. \A i, j \in 1 .. n + 1 : order'[i] = order'[j] => i = j
    <3>1. \A i, j \in 1 .. n : order[i] = order[j] => i = j
      BY <1>1, <2>2 DEF ListShape
    <3> QED BY <2>2, <2>3, <2>4, <3>1
  <2>7. head' = order'[1] /\ tail' = order'[n + 1]
    <3>1. CASE n = 0
      BY <1>1, <1>3, <2>2, <2>3, <3>1 DEF ListShape
    <3>2. CASE n # 0
      <4>1. head = order[1] /\ tail = order[n] /\ tail \in Slots
        BY <1>1, <2>2, <3>2 DEF ListShape, n
      <4> QED BY <1>3, <2>2, <2>3, <3>2, <4>1
    <3> QED BY <3>1, <3>2
  <2>8. ASSUME NEW i \in 1 .. n + 1
        PROVE  next'[order'[i]] = IF i = n + 1 THEN NULL ELSE order'[i + 1]
    <3>1. CASE i = n + 1
      BY <1>3, <2>1, <2>3, <3>1
    <3>2. CASE i # n + 1
      <4>1. i \in 1 .. n /\ order'[i] = order[i] /\ order[i] \in Slots /\ order[i] # s
        BY <2>2, <2>3, <2>4, <3>2
      <4>2. tail = order[n] /\ next[order[i]] = IF i = n THEN NULL ELSE order[i + 1]
        <5>1. n = Len(order) /\ n # 0 /\ order # << >>
          BY <2>2, <4>1 DEF n
        <5>2. tail = order[Len(order)]
          BY <1>1, <5>1 DEF ListShape
        <5>3. i \in DOMAIN order
          BY <2>2, <4>1
        <5>4. next[order[i]] = IF i = Len(order) THEN NULL ELSE order[i + 1]
          BY <1>1, <5>3 DEF ListShape
        <5> QED BY <5>1, <5>2, <5>4
      <4>3. next'[order[i]] = IF order[i] = tail THEN s ELSE next[order[i]]
        BY <1>3, <4>1
      <4>4. order[i] = tail <=> i = n
        BY <1>1, <2>2, <4>1, <4>2 DEF ListShape
      <4>5. CASE i = n
        BY <2>3, <4>1, <4>3, <4>4, <4>5
      <4>6. CASE i # n
        BY <2>2, <2>3, <4>1, <4>2, <4>3, <4>4, <4>6
      <4> QED BY <4>5, <4>6
    <3> QED BY <3>1, <3>2
  <2>9. ListShape'
    BY <2>3, <2>6, <2>7, <2>8 DEF ListShape
  <2>10. {r \in Slots : item'[r] # NoWork} = {r \in Slots : item[r] # NoWork} \cup {s}
    BY <1>1, <1>3, <2>1 DEF Type
  <2>11. {order'[i] : i \in DOMAIN order'} = InList \cup {s}
    BY <2>2, <2>3 DEF InList
  <2>12. ASSUME Held' = Held PROVE SlotsAccounted'
    BY <1>1, <2>1, <2>10, <2>11, <2>12 DEF SlotsAccounted, InList
  <2> QED BY <2>5, <2>9, <2>12 DEF Held
<1> QED BY <1>2, <1>3 DEF Schedule, slotVars

(* work_queue_run_once takes the first slot, which is still accounted for. *)
LEMMA RunOnceKeeps == IInv /\ RunOnce => IInv'
<1> SUFFICES ASSUME IInv, RunOnce PROVE IInv'
  OBVIOUS
<1> DEFINE n == Len(order)
<1>1. Type /\ ListShape /\ SlotsAccounted /\ Held = {}
  BY DEF IInv, RunOnce, Held
<1>2. /\ n \in Nat /\ DOMAIN order = 1 .. n /\ NULL \notin Slots
      /\ \A i \in 1 .. n : order[i] \in Slots
      /\ order = << >> <=> n = 0
      /\ order \in Seq(Slots)
  BY <1>1, Shapes DEF ListShape
<1>3. CASE head = NULL
  BY <1>1, <1>3 DEF RunOnce, IInv, Type, ListShape, SlotsAccounted, Held, purgeVars
<1>4. CASE head # NULL
  <2>1. /\ n # 0 /\ order # << >> /\ head = order[1] /\ head \in Slots
        /\ tail = order[n] /\ tail \in Slots
        /\ next[head] = IF n = 1 THEN NULL ELSE order[2]
    BY <1>1, <1>2, <1>4 DEF ListShape
  <2>2. /\ head' = next[head] /\ cur' = head /\ pc' = "free"
        /\ tail' = IF next[head] = NULL THEN NULL ELSE tail
        /\ next' = [next EXCEPT ![head] = NULL]
        /\ order' = Tail(order)
        /\ UNCHANGED <<item, prev, purged>>
    BY <1>4 DEF RunOnce, purgeVars
  <2>3. /\ order' \in Seq(Slots) /\ Len(order') = n - 1
        /\ \A i \in 1 .. n - 1 : order'[i] = order[i + 1]
        /\ DOMAIN order' = 1 .. n - 1
        /\ order' = << >> <=> n - 1 = 0
    <3>1. /\ order' \in Seq(Slots) /\ Len(order') = n - 1
          /\ \A i \in 1 .. n - 1 : order'[i] = order[i + 1]
      BY <1>2, <2>1, <2>2, HeadTailProperties
    <3> QED BY <3>1, EmptySeq, LenProperties
  <2>4. \A i, j \in 1 .. n : order[i] = order[j] => i = j
    BY <1>1, <1>2 DEF ListShape
  <2>5. \A i \in 1 .. n : next[order[i]] = IF i = n THEN NULL ELSE order[i + 1]
    BY <1>1, <1>2 DEF ListShape
  <2> HIDE DEF n
  <2>6. Type'
    BY <1>1, <2>1, <2>2 DEF Type, Links
  <2>7. \A i, j \in 1 .. n - 1 : order'[i] = order'[j] => i = j
    BY <1>2, <2>3, <2>4
  <2>8. /\ head' = IF n - 1 = 0 THEN NULL ELSE order'[1]
        /\ tail' = IF n - 1 = 0 THEN NULL ELSE order'[n - 1]
    BY <1>2, <2>1, <2>2, <2>3
  <2>9. ASSUME NEW i \in 1 .. n - 1
        PROVE  next'[order'[i]] = IF i = n - 1 THEN NULL ELSE order'[i + 1]
    <3>1. i + 1 \in 1 .. n /\ order'[i] = order[i + 1] /\ order[i + 1] # head
      BY <1>2, <2>1, <2>3, <2>4
    <3>2. next'[order[i + 1]] = next[order[i + 1]]
      BY <1>1, <1>2, <2>2, <3>1 DEF Type
    <3>3. next[order[i + 1]] = IF i + 1 = n THEN NULL ELSE order[i + 1 + 1]
      BY <2>5, <3>1
    <3>4. i # n - 1 => order'[i + 1] = order[i + 1 + 1]
      BY <1>2, <2>3
    <3> QED BY <1>2, <3>1, <3>2, <3>3, <3>4
  <2>10. ListShape'
    BY <2>3, <2>7, <2>8, <2>9 DEF ListShape
  <2>11. InList = {head} \cup {order'[i] : i \in DOMAIN order'}
    <3>1. \A i \in 1 .. n : i # 1 => i - 1 \in 1 .. n - 1 /\ order'[i - 1] = order[i]
      BY <1>2, <2>3
    <3>2. \A i \in 1 .. n - 1 : order'[i] = order[i + 1] /\ i + 1 \in 1 .. n
      BY <1>2, <2>3
    <3>3. order[1] = head /\ DOMAIN order = 1 .. n /\ DOMAIN order' = 1 .. n - 1 /\ 1 \in 1 .. n
      BY <1>2, <2>1, <2>3
    <3>4. InList \subseteq {head} \cup {order'[i] : i \in DOMAIN order'}
      BY <3>1, <3>3 DEF InList
    <3>5. {head} \cup {order'[i] : i \in DOMAIN order'} \subseteq InList
      BY <3>2, <3>3 DEF InList
    <3> QED BY <3>4, <3>5
  <2>12. head \notin {order'[i] : i \in DOMAIN order'}
    BY <1>2, <2>1, <2>3, <2>4
  <2>13. Held' = {head} /\ {s \in Slots : item'[s] # NoWork} = InList
    BY <1>1, <2>2 DEF Held, SlotsAccounted, InList
  <2>14. SlotsAccounted'
    BY <2>11, <2>12, <2>13 DEF SlotsAccounted
  <2> QED BY <2>1, <2>2, <2>6, <2>10, <2>14 DEF IInv
<1> QED BY <1>3, <1>4

(* The slot is freed after its work was copied. *)
LEMMA FreeSlotKeeps == IInv /\ FreeSlot => IInv'
<1> SUFFICES ASSUME IInv, FreeSlot PROVE IInv'
  OBVIOUS
<1>1. Type' /\ ListShape'
  BY DEF IInv, FreeSlot, Type, ListShape, purgeVars
<1>2. Held = {cur} /\ Held' = {} /\ cur \in Slots
  BY DEF IInv, FreeSlot, Held
<1>3. {s \in Slots : item'[s] # NoWork} = {s \in Slots : item[s] # NoWork} \ {cur}
  BY <1>2 DEF IInv, FreeSlot, Type
<1>4. SlotsAccounted'
  BY <1>2, <1>3 DEF IInv, FreeSlot, SlotsAccounted
<1> QED BY <1>1, <1>4 DEF IInv, FreeSlot

(* work_queue_deschedule unlinks a slot wherever it is in the list, and    *)
(* the walk goes on with the slot behind it.                               *)
LEMMA UnlinkKeeps == IInv /\ PurgeUnlink => IInv'
<1> SUFFICES ASSUME IInv, PurgeUnlink PROVE IInv'
  OBVIOUS
<1> DEFINE n == Len(order)
<1>1. Type /\ ListShape /\ SlotsAccounted /\ Held = {} /\ Walk
  BY DEF IInv, PurgeUnlink, Held
<1>2. /\ n \in Nat /\ DOMAIN order = 1 .. n /\ NULL \notin Slots
      /\ \A i \in 1 .. n : order[i] \in Slots
      /\ order = << >> <=> n = 0
      /\ order \in Seq(Slots)
  BY <1>1, Shapes DEF ListShape
<1>3. /\ \A i, j \in 1 .. n : order[i] = order[j] => i = j
      /\ \A i \in 1 .. n : next[order[i]] = IF i = n THEN NULL ELSE order[i + 1]
      /\ n # 0 => head = order[1] /\ tail = order[n]
  BY <1>1, <1>2 DEF ListShape
<1>4. PICK k \in 1 .. n + 1 :
        /\ cur = IF k <= n THEN order[k] ELSE NULL
        /\ prev = IF k = 1 THEN NULL ELSE order[k - 1]
        /\ \A i \in 1 .. k - 1 : item[order[i]] # purged
  BY <1>1 DEF Walk
<1>5. /\ pc = "purge" /\ pc' = "purge" /\ cur # NULL /\ cur' = next[cur]
      /\ head' = IF prev = NULL THEN next[cur] ELSE head
      /\ tail' = IF next[cur] = NULL THEN prev ELSE tail
      /\ next' = [s \in Slots |->
                    IF s = cur THEN NULL ELSE IF s = prev THEN next[cur] ELSE next[s]]
      /\ item' = [item EXCEPT ![cur] = NoWork]
      /\ order' = Without(order, cur)
      /\ UNCHANGED <<prev, purged>>
  BY DEF PurgeUnlink, Unlink, purgeVars
<1> HIDE DEF n
<1>6. /\ k \in 1 .. n /\ n # 0 /\ cur = order[k] /\ cur \in Slots
      /\ next[cur] = IF k = n THEN NULL ELSE order[k + 1]
  <2>1. k \in 1 .. n /\ n # 0
    BY <1>2, <1>4, <1>5
  <2>2. cur = order[k] /\ cur \in Slots
    BY <1>2, <1>4, <2>1
  <2>3. next[order[k]] = IF k = n THEN NULL ELSE order[k + 1]
    BY <1>3, <2>1
  <2> QED BY <2>1, <2>2, <2>3
<1>7. /\ order' \in Seq(Slots) /\ Len(order') = n - 1 /\ DOMAIN order' = 1 .. n - 1
      /\ \A i \in 1 .. n - 1 : order'[i] = IF i < k THEN order[i] ELSE order[i + 1]
      /\ order' = << >> <=> n - 1 = 0
  <2>1. \A i, j \in DOMAIN order : order[i] = order[j] => i = j
    BY <1>1 DEF ListShape
  <2>2. order' = Without(order, order[k])
    BY <1>5, <1>6
  <2>3. /\ order' \in Seq(Slots) /\ Len(order') = n - 1
        /\ \A i \in 1 .. n - 1 : order'[i] = IF i < k THEN order[i] ELSE order[i + 1]
    <3>1. k \in 1 .. Len(order)
      BY <1>6 DEF n
    <3>2. /\ Without(order, order[k]) \in Seq(Slots)
          /\ Len(Without(order, order[k])) = Len(order) - 1
          /\ \A i \in 1 .. Len(order) - 1 :
               Without(order, order[k])[i] = IF i < k THEN order[i] ELSE order[i + 1]
      BY <1>2, <2>1, <3>1, WithoutOne, ZenonT(60)
    <3> QED BY <2>2, <3>2 DEF n
  <2> QED BY <2>3, EmptySeq, LenProperties
<1>8. Type'
  BY <1>1, <1>5, <1>6 DEF Type, Links
<1>9. \A i, j \in 1 .. n - 1 : order'[i] = order'[j] => i = j
  BY <1>2, <1>3, <1>6, <1>7
<1>10. prev = NULL <=> k = 1
  BY <1>2, <1>4, <1>6
<1>11. /\ head' = IF n - 1 = 0 THEN NULL ELSE order'[1]
       /\ tail' = IF n - 1 = 0 THEN NULL ELSE order'[n - 1]
  <2>1. head' = IF n - 1 = 0 THEN NULL ELSE order'[1]
    BY <1>2, <1>3, <1>5, <1>6, <1>7, <1>10
  <2>2. CASE k = n
    <3>1. tail' = prev
      BY <1>5, <1>6, <2>2
    <3>2. n # 1 => order'[n - 1] = order[n - 1]
      BY <1>2, <1>7, <2>2
    <3> QED BY <1>2, <1>4, <1>6, <2>1, <2>2, <3>1, <3>2
  <2>3. CASE k # n
    <3>1. n - 1 # 0 /\ k + 1 \in 1 .. n
      BY <1>2, <1>6, <2>3
    <3>2. next[cur] # NULL
      BY <1>2, <1>6, <2>3, <3>1
    <3>3. tail' = order[n]
      BY <1>3, <1>5, <1>6, <3>2
    <3>4. order'[n - 1] = order[n]
      BY <1>2, <1>6, <1>7, <2>3, <3>1
    <3> QED BY <2>1, <3>1, <3>3, <3>4
  <2> QED BY <2>2, <2>3
<1>12. ASSUME NEW i \in 1 .. n - 1
       PROVE  next'[order'[i]] = IF i = n - 1 THEN NULL ELSE order'[i + 1]
  <2>1. CASE i < k
    <3>1. i \in 1 .. n /\ order'[i] = order[i] /\ order[i] # cur /\ order[i] \in Slots
      BY <1>2, <1>3, <1>6, <1>7, <2>1
    <3>2. next'[order[i]] = IF order[i] = prev THEN next[cur] ELSE next[order[i]]
      BY <1>5, <3>1
    <3>3. order[i] = prev <=> i = k - 1
      BY <1>2, <1>3, <1>4, <1>6, <1>10, <3>1, <2>1
    <3>4. CASE i = k - 1
      BY <1>2, <1>6, <1>7, <3>1, <3>2, <3>3, <3>4
    <3>5. CASE i # k - 1
      BY <1>2, <1>3, <1>6, <1>7, <2>1, <3>1, <3>2, <3>3, <3>5
    <3> QED BY <3>4, <3>5
  <2>2. CASE ~(i < k)
    <3>1. /\ i + 1 \in 1 .. n /\ order'[i] = order[i + 1]
          /\ order[i + 1] # cur /\ order[i + 1] # prev /\ order[i + 1] \in Slots
      <4>1. i + 1 \in 1 .. n /\ order'[i] = order[i + 1]
        BY <1>2, <1>6, <1>7, <2>2
      <4>2. order[i + 1] # cur /\ order[i + 1] \in Slots
        BY <1>2, <1>3, <1>6, <2>2, <4>1
      <4>3. order[i + 1] # prev
        BY <1>2, <1>3, <1>4, <1>6, <2>2, <4>1, <4>2
      <4> QED BY <4>1, <4>2, <4>3
    <3>2. next'[order[i + 1]] = next[order[i + 1]]
      BY <1>5, <3>1
    <3>3. next[order[i + 1]] = IF i + 1 = n THEN NULL ELSE order[i + 1 + 1]
      BY <1>3, <3>1
    <3>4. i # n - 1 => order'[i + 1] = order[i + 1 + 1]
      BY <1>2, <1>6, <1>7, <2>2
    <3> QED BY <1>2, <3>1, <3>2, <3>3, <3>4
  <2> QED BY <1>2, <1>6, <2>1, <2>2
<1>13. ListShape'
  BY <1>7, <1>9, <1>11, <1>12 DEF ListShape
<1>14. {order'[i] : i \in DOMAIN order'} = InList \ {cur}
  <2>1. ASSUME NEW i \in 1 .. n, i # k
        PROVE  \E j \in 1 .. n - 1 : order'[j] = order[i]
    <3>1. CASE i < k
      BY <1>2, <1>6, <1>7, <2>1, <3>1
    <3>2. CASE k < i
      <4>1. i - 1 \in 1 .. n - 1 /\ order'[i - 1] = order[i]
        BY <1>2, <1>6, <1>7, <2>1, <3>2
      <4> QED BY <4>1
    <3> QED BY <1>6, <2>1, <3>1, <3>2
  <2>2. ASSUME NEW j \in 1 .. n - 1
        PROVE  order'[j] # cur /\ \E i \in 1 .. n : order'[j] = order[i]
    BY <1>2, <1>3, <1>6, <1>7
  <2>3. DOMAIN order = 1 .. n /\ DOMAIN order' = 1 .. n - 1 /\ cur = order[k]
    BY <1>2, <1>6, <1>7
  <2>4. {order'[i] : i \in DOMAIN order'} \subseteq InList \ {cur}
    BY <2>2, <2>3 DEF InList
  <2>5. InList \ {cur} \subseteq {order'[i] : i \in DOMAIN order'}
    BY <2>1, <2>3 DEF InList
  <2> QED BY <2>4, <2>5
<1>15. {s \in Slots : item'[s] # NoWork} = {s \in Slots : item[s] # NoWork} \ {cur}
  BY <1>1, <1>5, <1>6 DEF Type
<1>16. SlotsAccounted'
  BY <1>1, <1>5, <1>14, <1>15 DEF SlotsAccounted, Held, InList
<1>17. Walk'
  <2>1. k \in 1 .. Len(order') + 1
    BY <1>2, <1>6, <1>7
  <2>2. cur' = IF k <= n - 1 THEN order'[k] ELSE NULL
    BY <1>2, <1>5, <1>6, <1>7
  <2>3. prev' = IF k = 1 THEN NULL ELSE order'[k - 1]
    BY <1>2, <1>4, <1>5, <1>6, <1>7
  <2>4. ASSUME NEW i \in 1 .. k - 1 PROVE item'[order'[i]] # purged'
    <3>1. /\ i \in 1 .. n - 1 /\ i < k /\ order'[i] = order[i]
          /\ i \in 1 .. n /\ order[i] # cur /\ order[i] \in Slots
      BY <1>2, <1>3, <1>6, <1>7
    <3>2. item'[order[i]] = item[order[i]]
      BY <1>1, <1>5, <1>6, <3>1 DEF Type
    <3> QED BY <1>4, <1>5, <3>1, <3>2
  <2> QED BY <1>7, <2>1, <2>2, <2>3, <2>4 DEF Walk
<1> QED BY <1>5, <1>8, <1>13, <1>16, <1>17 DEF IInv

-----------------------------------------------------------------------------
LEMMA IInvInit == WqInit => IInv
<1> SUFFICES ASSUME WqInit PROVE IInv
  OBVIOUS
<1>1. order \in Seq(Slots) /\ order = << >> /\ DOMAIN order = {}
  BY EmptySeq DEF WqInit
<1>2. Type
  BY DEF WqInit, Type, Links
<1>3. ListShape
  BY <1>1 DEF WqInit, ListShape
<1>4. SlotsAccounted
  BY <1>1 DEF WqInit, SlotsAccounted, Held
<1> QED BY <1>2, <1>3, <1>4 DEF WqInit, IInv

(* The walk starts at the first slot. *)
LEMMA WorkerDeschedulesKeeps == IInv /\ WorkerDeschedules => IInv'
<1> SUFFICES ASSUME IInv, WorkerDeschedules PROVE IInv'
  OBVIOUS
<1>1. Type' /\ ListShape' /\ SlotsAccounted' /\ pc' = "purge"
  BY DEF IInv, WorkerDeschedules, Type, Links, ListShape, SlotsAccounted, Held, slotVars
<1>2. Walk'
  <2>1. /\ Len(order) \in Nat /\ (order = << >> <=> Len(order) = 0)
        /\ order' = order /\ cur' = head /\ prev' = NULL
        /\ head = IF order = << >> THEN NULL ELSE order[1]
    BY Shapes DEF IInv, WorkerDeschedules, slotVars, ListShape
  <2>2. 1 \in 1 .. Len(order) + 1 /\ cur' = IF 1 <= Len(order) THEN order[1] ELSE NULL
    BY <2>1
  <2>3. 1 .. 1 - 1 = {}
    OBVIOUS
  <2> QED BY <2>1, <2>2, <2>3 DEF Walk
<1> QED BY <1>1, <1>2 DEF IInv

(* It goes on behind a slot that it keeps. *)
LEMMA PurgeKeepKeeps == IInv /\ PurgeKeep => IInv'
<1> SUFFICES ASSUME IInv, PurgeKeep PROVE IInv'
  OBVIOUS
<1> DEFINE n == Len(order)
<1>1. /\ n \in Nat /\ DOMAIN order = 1 .. n /\ NULL \notin Slots
      /\ \A i \in 1 .. n : order[i] \in Slots
      /\ \A i \in 1 .. n : next[order[i]] = IF i = n THEN NULL ELSE order[i + 1]
  BY Shapes DEF IInv, ListShape
<1>2. PICK k \in 1 .. n + 1 :
        /\ cur = IF k <= n THEN order[k] ELSE NULL
        /\ prev = IF k = 1 THEN NULL ELSE order[k - 1]
        /\ \A i \in 1 .. k - 1 : item[order[i]] # purged
  BY DEF IInv, PurgeKeep, Walk
<1>3. /\ cur # NULL /\ prev' = cur /\ cur' = next[cur] /\ order' = order /\ pc' = "purge"
      /\ item[cur] # purged /\ UNCHANGED <<item, purged>>
  BY DEF PurgeKeep, slotVars
<1> HIDE DEF n
<1>4. k \in 1 .. n /\ cur = order[k] /\ cur \in Slots
  BY <1>1, <1>2, <1>3
<1>5. /\ k + 1 \in 1 .. n + 1 /\ prev' = order[k + 1 - 1]
      /\ cur' = IF k + 1 <= n THEN order[k + 1] ELSE NULL
  BY <1>1, <1>3, <1>4
<1>6. \A i \in 1 .. k + 1 - 1 : item[order[i]] # purged
  BY <1>2, <1>3, <1>4
<1>7. Walk'
  BY <1>3, <1>4, <1>5, <1>6 DEF Walk, n
<1>8. Type' /\ ListShape' /\ SlotsAccounted'
  <2>1. cur' \in Links
    BY <1>3, <1>4 DEF IInv, Type
  <2> QED BY <2>1 DEF IInv, PurgeKeep, Type, ListShape, SlotsAccounted, Held, slotVars
<1> QED BY <1>3, <1>7, <1>8 DEF IInv

LEMMA IInvNext == IInv /\ [WqNext]_wqVars => IInv'
<1> SUFFICES ASSUME IInv, [WqNext]_wqVars PROVE IInv'
  OBVIOUS
<1>1. ASSUME NEW w \in Works, Schedule(w), UNCHANGED <<cur, purgeVars>>,
             pc # "purge", pc' = pc \/ (pc = "asleep" /\ pc' = "take")
      PROVE  IInv'
  <2>1. SlotsAccounted'
    BY <1>1, ScheduleKeeps
  <2>2. ListShape' /\ Type'
    BY <1>1, ScheduleKeeps DEF IInv, Type, purgeVars
  <2> QED BY <1>1, <2>1, <2>2 DEF IInv
<1>2. ASSUME UNCHANGED <<slotVars, purgeVars>>, cur' \in Links,
             pc # "free", pc' \notin {"free", "purge"}
      PROVE  IInv'
  BY <1>2 DEF IInv, Type, ListShape, SlotsAccounted, Held, slotVars, purgeVars
<1>3. CASE WorkerSchedules
  BY <1>1, <1>3 DEF WorkerSchedules
<1>4. CASE WqInterrupt
  <2>1. CASE UNCHANGED slotVars
    BY <1>4, <2>1 DEF WqInterrupt, IInv, Type, ListShape, SlotsAccounted, Held, slotVars, purgeVars
  <2>2. CASE \E w \in Works : Schedule(w)
    BY <1>1, <1>4, <2>2 DEF WqInterrupt
  <2> QED BY <1>4, <2>1, <2>2 DEF WqInterrupt
<1>5. CASE SleepIfIdle
  BY <1>2, <1>5 DEF SleepIfIdle, IInv, Type
<1>6. CASE WorkerReturns
  BY <1>2, <1>6 DEF WorkerReturns, Links
<1>7. CASE PurgeEnds
  <2>1. prev' = NULL /\ purged' = NoWork /\ UNCHANGED <<slotVars, cur>> /\ pc' = "exec"
    BY <1>7 DEF PurgeEnds
  <2> QED BY <1>7, <2>1 DEF PurgeEnds, IInv, Type, Links, ListShape, SlotsAccounted, Held, slotVars
<1>8. CASE UNCHANGED wqVars
  BY <1>8 DEF wqVars, IInv, Type, ListShape, SlotsAccounted, Held, Walk, slotVars, purgeVars
<1> QED
  BY <1>3, <1>4, <1>5, <1>6, <1>7, <1>8, RunOnceKeeps, FreeSlotKeeps, UnlinkKeeps,
     WorkerDeschedulesKeeps, PurgeKeepKeeps DEF WqNext, MainLoop

(* The slots, the walk and the list hold together in every state.          *)
THEOREM Invariance == WqSpec => []IInv
BY IInvInit, IInvNext, PTL DEF WqSpec

(* The pointers in wq_storage are a list without a cycle, in the order of  *)
(* arrival, after every step of work_queue_schedule, _run_once and         *)
(* _deschedule.                                                            *)
THEOREM ListKept == WqSpec => []ListShape
<1>1. IInv => ListShape
  BY DEF IInv
<1> QED BY <1>1, Invariance, PTL

(* A slot of wq_storage is taken exactly while its work is in the list or  *)
(* about to be copied by work_queue_run_once.                              *)
THEOREM NoSlotLeaks == WqSpec => []SlotsAccounted
<1>1. IInv => SlotsAccounted
  BY DEF IInv
<1> QED BY <1>1, Invariance, PTL

-----------------------------------------------------------------------------
(* The work whose slot is given back is a work. *)
LEMMA HeldIsWork ==
  ASSUME IInv, pc = "free"
  PROVE  cur \in Slots /\ item[cur] \in Works /\ cur \notin InList
BY DEF IInv, SlotsAccounted, Held, Type, InList

LEMMA LoopInit == WqInit => Loop
BY DEF WqInit, Loop, Started

LEMMA LoopNext == IInv /\ Loop /\ [WqNext]_wqVars => Loop'
<1> SUFFICES ASSUME IInv, Loop, [WqNext]_wqVars PROVE Loop'
  OBVIOUS
<1> USE DEF Loop, Started
<1>1. CASE RunOnce
  BY <1>1 DEF RunOnce, purgeVars
<1>2. CASE FreeSlot
  BY <1>2, HeldIsWork DEF FreeSlot, purgeVars
<1>3. CASE WorkerSchedules \/ WorkerDeschedules
  BY <1>3 DEF WorkerSchedules, WorkerDeschedules, purgeVars
<1>4. CASE PurgeKeep \/ PurgeUnlink \/ PurgeEnds
  BY <1>4 DEF PurgeKeep, PurgeUnlink, PurgeEnds, purgeVars
<1>5. CASE WorkerReturns
  BY <1>5 DEF WorkerReturns, purgeVars
<1>6. CASE SleepIfIdle
  BY <1>6 DEF SleepIfIdle, purgeVars
<1>7. CASE WqInterrupt
  BY <1>7 DEF WqInterrupt, purgeVars
<1>8. CASE UNCHANGED wqVars
  BY <1>8 DEF wqVars, purgeVars
<1> QED
  BY <1>1, <1>2, <1>3, <1>4, <1>5, <1>6, <1>7, <1>8 DEF WqNext, MainLoop

(* The works in the list, place by place. *)
LEMMA ListedShape ==
  ASSUME IInv
  PROVE  /\ Listed \in Seq(Works) /\ Len(Listed) = Len(order)
         /\ Len(order) \in Nat /\ DOMAIN order = 1 .. Len(order)
         /\ \A i \in 1 .. Len(order) :
              /\ order[i] \in Slots /\ Listed[i] = item[order[i]]
              /\ item[order[i]] \in Works
<1>1. /\ Len(order) \in Nat /\ DOMAIN order = 1 .. Len(order)
      /\ \A i \in 1 .. Len(order) : order[i] \in Slots
  BY Shapes DEF IInv, ListShape
<1>2. \A i \in 1 .. Len(order) : item[order[i]] \in Works
  BY <1>1 DEF IInv, SlotsAccounted, Type
<1>3. Listed \in [1 .. Len(order) -> Works]
  BY <1>1, <1>2 DEF Listed
<1>4. Listed \in Seq(Works) /\ Len(Listed) = Len(order)
  BY <1>1, <1>3, SeqDef, LenProperties
<1> QED BY <1>1, <1>2, <1>4 DEF Listed

(* A work is refused exactly when the works that wait and the one whose    *)
(* slot is not given back yet take every place.                            *)
LEMMA PlacesAreSlots ==
  ASSUME IInv, Loop, pc # "purge"
  PROVE  /\ Abstract!Places \in Nat
         /\ Free = {} <=> Abstract!Places = MaxWorks
         /\ Abstract!Places <= MaxWorks
<1> DEFINE taken == {s \in Slots : item[s] # NoWork}
           n == Len(order)
<1>1. /\ n \in Nat /\ DOMAIN order = 1 .. n
      /\ \A i, j \in 1 .. n : order[i] = order[j] => i = j
      /\ Len(Listed) = n /\ Waiting = Listed
  BY ListedShape DEF IInv, ListShape, Waiting
<1>2. IsFiniteSet(InList) /\ Cardinality(InList) = n
  <2> DEFINE f == [i \in 1 .. n |-> order[i]]
  <2>1. f \in Bijection(1 .. n, InList)
    BY <1>1 DEF Bijection, Injection, Surjection, IsInjective, InList
  <2>2. IsFiniteSet(1 .. n) /\ Cardinality(1 .. n) = n
    <3>1. n \in Nat
      BY <1>1
    <3> HIDE DEF n, f, taken
    <3> QED BY <3>1, FS_Interval
  <2> QED BY <2>1, <2>2, FS_Bijection DEF ExistsBijection
<1>3. taken = InList \cup Held /\ Held \cap InList = {}
  BY DEF IInv, SlotsAccounted, InList
<1>4. IsFiniteSet(Held) /\ Cardinality(Held) = IF pc = "free" THEN 1 ELSE 0
  BY FS_Singleton, FS_EmptySet DEF Held
<1>5. /\ IsFiniteSet(Slots) /\ Cardinality(Slots) = MaxWorks
      /\ MaxWorks \in Nat
  BY QueueAssumption, FS_Interval DEF Slots
<1>6. Cardinality(taken) = n + (IF pc = "free" THEN 1 ELSE 0)
  <2>1. Cardinality(InList \cup Held) = n + Cardinality(Held) - Cardinality(InList \cap Held)
    BY <1>2, <1>4, FS_Union
  <2>2. InList \cap Held = {} /\ Cardinality({}) = 0
    BY <1>3, FS_EmptySet
  <2>3. Cardinality(InList \cap Held) = 0
    BY <2>2
  <2> HIDE DEF n, taken
  <2> QED BY <1>1, <1>3, <1>4, <2>1, <2>3
<1>7. Holding # NoWork /\ ~Started <=> pc = "free"
  BY HeldIsWork, QueueAssumption DEF Loop, Holding, Started
<1>8. Abstract!Places = Cardinality(taken)
  BY <1>1, <1>6, <1>7 DEF Abstract!Places
<1>9. taken \in SUBSET Slots /\ (Free = {} <=> taken = Slots)
  BY DEF Free
<1>10. /\ Cardinality(taken) <= Cardinality(Slots)
       /\ Cardinality(Slots) = Cardinality(taken) => taken = Slots
  BY <1>5, <1>9, FS_Subset
<1>11. Cardinality(taken) \in Nat
  BY <1>1, <1>6
<1> HIDE DEF taken
<1> QED BY <1>5, <1>8, <1>9, <1>10, <1>11


(* The works that wait do not depend on anything but the list, the works   *)
(* in its slots and the walk.                                              *)
LEMMA WaitingKept ==
  ASSUME order' = order, pc # "purge", pc' # "purge",
         \A i \in DOMAIN order : item'[order[i]] = item[order[i]]
  PROVE  Waiting' = Waiting
BY DEF Waiting, Listed

(* Scheduling a work accepts it at the end, or refuses it when no place is *)
(* left.                                                                   *)
LEMMA ScheduleRefines ==
  ASSUME IInv, Loop, pc # "purge", pc' # "purge", NEW w \in Works, Schedule(w),
         Holding' = Holding, Started' = Started
  PROVE  [Abstract!SpecNext]_Abstract!specVars
<1>1. /\ Abstract!Places \in Nat
      /\ Free = {} <=> Abstract!Places = MaxWorks
      /\ Abstract!Places <= MaxWorks
  BY PlacesAreSlots
<1>2. /\ Listed \in Seq(Works) /\ Len(Listed) = Len(order)
      /\ Len(order) \in Nat /\ DOMAIN order = 1 .. Len(order)
      /\ \A i \in 1 .. Len(order) : order[i] \in Slots /\ Listed[i] = item[order[i]]
  BY ListedShape
<1>3. CASE Free = {} /\ result' = "ENOMEM" /\ UNCHANGED slotVars
  <2>1. Waiting' = Waiting
    BY <1>3, WaitingKept DEF slotVars
  <2>2. Abstract!Refuse
    BY <1>1, <1>3, <2>1 DEF Abstract!Refuse
  <2> QED BY <2>2 DEF Abstract!SpecNext
<1>4. ASSUME NEW s \in Free, item' = [item EXCEPT ![s] = w],
             order' = Append(order, s), result' = "OK"
      PROVE  [Abstract!SpecNext]_Abstract!specVars
  <2>1. s \in Slots /\ item[s] = NoWork /\ s \notin InList /\ item \in [Slots -> Works \cup {NoWork}]
    BY DEF Free, IInv, SlotsAccounted, InList, Type
  <2>2. \A i \in 1 .. Len(order) : order[i] # s
    BY <1>2, <2>1 DEF InList
  <2>3. /\ Len(order') = Len(order) + 1 /\ DOMAIN order' = 1 .. Len(order) + 1
        /\ \A i \in 1 .. Len(order) : order'[i] = order[i]
        /\ order'[Len(order) + 1] = s
    <3>1. order \in Seq(Slots)
      BY DEF IInv, ListShape
    <3>2. order' \in Seq(Slots)
      BY <1>4, <2>1, <3>1, AppendProperties
    <3> QED BY <1>4, <2>1, <3>1, <3>2, AppendProperties, LenProperties
  <2>4. Listed' = Append(Listed, w)
    <3>1. /\ Append(Listed, w) \in Seq(Works)
          /\ Len(Append(Listed, w)) = Len(order) + 1
          /\ \A i \in 1 .. Len(order) : Append(Listed, w)[i] = Listed[i]
          /\ Append(Listed, w)[Len(order) + 1] = w
      BY <1>2, AppendProperties
    <3>2. Append(Listed, w) = [i \in 1 .. Len(order) + 1 |-> Append(Listed, w)[i]]
      BY <3>1, SeqDef, LenProperties
    <3>3. Listed' = [i \in 1 .. Len(order) + 1 |-> item'[order'[i]]]
      BY <2>3 DEF Listed
    <3>4. ASSUME NEW i \in 1 .. Len(order) + 1
          PROVE  item'[order'[i]] = Append(Listed, w)[i]
      <4>1. CASE i = Len(order) + 1
        BY <1>4, <2>1, <2>3, <3>1, <4>1
      <4>2. CASE i # Len(order) + 1
        <5>1. i \in 1 .. Len(order)
          BY <1>2, <4>2
        <5> QED BY <1>2, <1>4, <2>1, <2>2, <2>3, <3>1, <5>1
      <4> QED BY <4>1, <4>2
    <3> QED BY <3>2, <3>3, <3>4
  <2>5. Waiting' = Append(Waiting, w)
    BY <2>4 DEF Waiting
  <2>6. Free # {}
    OBVIOUS
  <2>7. Abstract!Places < MaxWorks
    BY <1>1, <2>6, QueueAssumption
  <2>8. Abstract!Accept(w)
    BY <1>4, <2>5, <2>7 DEF Abstract!Accept
  <2> QED BY <2>8 DEF Abstract!SpecNext
<1> QED BY <1>3, <1>4 DEF Schedule

(* The main loop takes the oldest work. *)
LEMMA RunOnceRefines ==
  ASSUME IInv, Loop, RunOnce
  PROVE  [Abstract!SpecNext]_Abstract!specVars
<1>1. /\ Listed \in Seq(Works) /\ Len(Listed) = Len(order)
      /\ Len(order) \in Nat /\ DOMAIN order = 1 .. Len(order)
      /\ \A i \in 1 .. Len(order) : order[i] \in Slots /\ Listed[i] = item[order[i]]
  BY ListedShape
<1>2. pc = "take" /\ Holding = NoWork /\ Started = FALSE /\ Waiting = Listed
  BY DEF RunOnce, Loop, Holding, Started, Waiting
<1>3. CASE head = NULL
  <2>1. pc' = "idle" /\ UNCHANGED <<order, item, running, result>>
    BY <1>3 DEF RunOnce
  <2>2. Waiting' = Waiting /\ Holding' = Holding /\ Started' = Started
    BY <1>2, <2>1, WaitingKept DEF Holding, Started
  <2> QED BY <2>1, <2>2 DEF Abstract!specVars
<1>4. CASE head # NULL
  <2>1. /\ pc' = "free" /\ cur' = head /\ order' = Tail(order)
        /\ UNCHANGED <<item, running, result>>
    BY <1>4 DEF RunOnce
  <2>2. order # << >> /\ head = order[1] /\ order \in Seq(Slots)
    BY <1>4 DEF IInv, ListShape
  <2>3. Len(order) # 0
    BY <2>2, EmptySeq
  <2>4. /\ DOMAIN order' = 1 .. Len(order) - 1
        /\ \A i \in 1 .. Len(order) - 1 : order'[i] = order[i + 1]
    <3>1. /\ order' \in Seq(Slots) /\ Len(order') = Len(order) - 1
          /\ \A i \in 1 .. Len(order) - 1 : order'[i] = order[i + 1]
      BY <2>1, <2>2, HeadTailProperties
    <3> QED BY <3>1, LenProperties
  <2>5. Listed # << >>
    BY <1>1, <2>3, EmptySeq
  <2>6. Listed' = Tail(Listed)
    <3>1. /\ Tail(Listed) \in Seq(Works) /\ Len(Tail(Listed)) = Len(order) - 1
          /\ \A i \in 1 .. Len(order) - 1 : Tail(Listed)[i] = Listed[i + 1]
      BY <1>1, <2>5, HeadTailProperties
    <3>2. Tail(Listed) = [i \in 1 .. Len(order) - 1 |-> Tail(Listed)[i]]
      BY <3>1, SeqDef, LenProperties
    <3>3. Listed' = [i \in 1 .. Len(order) - 1 |-> item[order[i + 1]]]
      BY <2>1, <2>4 DEF Listed
    <3>4. \A i \in 1 .. Len(order) - 1 : Tail(Listed)[i] = item[order[i + 1]]
      BY <1>1, <3>1
    <3> QED BY <3>2, <3>3, <3>4
  <2>7. Head(Listed) = item[head]
    BY <1>1, <2>2, <2>3, <2>5, HeadTailProperties
  <2>8. Waiting' = Tail(Waiting) /\ Holding' = Head(Waiting) /\ Started' = Started
    BY <1>2, <2>1, <2>6, <2>7 DEF Waiting, Holding, Started
  <2>9. Abstract!TakeOldest
    BY <1>2, <2>1, <2>5, <2>8 DEF Abstract!TakeOldest
  <2> QED BY <2>9 DEF Abstract!SpecNext
<1> QED BY <1>3, <1>4

(* Giving the slot back is the start of the work. *)
LEMMA FreeSlotRefines ==
  ASSUME IInv, Loop, FreeSlot
  PROVE  [Abstract!SpecNext]_Abstract!specVars
<1>1. /\ pc = "free" /\ pc' = "exec" /\ running' = item[cur]
      /\ item' = [item EXCEPT ![cur] = NoWork] /\ UNCHANGED <<order, result>>
  BY DEF FreeSlot
<1>2. cur \in Slots /\ item[cur] \in Works /\ cur \notin InList
  BY <1>1, HeldIsWork
<1>3. Waiting' = Waiting
  <2>1. \A i \in DOMAIN order : order[i] \in Slots /\ order[i] # cur
    BY <1>2, ListedShape DEF InList
  <2>2. \A i \in DOMAIN order : item'[order[i]] = item[order[i]]
    BY <1>1, <1>2, <2>1 DEF IInv, Type
  <2> QED BY <1>1, <2>2, WaitingKept
<1>4. Holding = item[cur] /\ Holding' = item[cur] /\ Holding # NoWork
  BY <1>1, <1>2, QueueAssumption DEF Holding
<1>5. Started = FALSE /\ Started' = TRUE
  BY <1>1 DEF Started
<1>6. Abstract!Start
  BY <1>1, <1>3, <1>4, <1>5 DEF Abstract!Start
<1> QED BY <1>6 DEF Abstract!SpecNext

(* The abstract queue removes a work the way the lemmas of RunQueueLemmas  *)
(* say.                                                                    *)
LEMMA SameWithout == \A q, w : Abstract!Without(q, w) = Without(q, w)
BY DEF Abstract!Without, Abstract!Nth, Abstract!Cardinality, Without, Nth, Cardinality

(* The purge is done at once, when the walk begins.                        *)
LEMMA WorkerDeschedulesRefines ==
  ASSUME IInv, Loop, WorkerDeschedules
  PROVE  [Abstract!SpecNext]_Abstract!specVars
<1>1. /\ pc = "exec" /\ pc' = "purge" /\ purged' \in Works
      /\ UNCHANGED <<order, item, running, result>>
  BY DEF WorkerDeschedules, slotVars
<1>2. Waiting = Listed /\ Listed' = Listed /\ Waiting' = Without(Listed, purged')
  BY <1>1 DEF Waiting, Listed
<1>3. Holding' = Holding /\ Started = TRUE /\ Started' = TRUE
  BY <1>1 DEF Holding, Started
<1>4. Abstract!Purge(purged')
  BY <1>1, <1>2, <1>3, SameWithout DEF Abstract!Purge
<1> QED BY <1>1, <1>4 DEF Abstract!SpecNext


(* Unlinking a slot leaves the works that will remain.                     *)
LEMMA PurgeUnlinkRefines ==
  ASSUME IInv, Loop, PurgeUnlink
  PROVE  Waiting' = Waiting
<1> DEFINE n == Len(order)
<1>1. /\ Listed \in Seq(Works) /\ Len(Listed) = n
      /\ n \in Nat /\ DOMAIN order = 1 .. n
      /\ \A i \in 1 .. n : order[i] \in Slots /\ Listed[i] = item[order[i]]
  BY ListedShape
<1>2. /\ pc = "purge" /\ pc' = "purge" /\ cur # NULL /\ item[cur] = purged
      /\ item' = [item EXCEPT ![cur] = NoWork] /\ order' = Without(order, cur)
      /\ purged' = purged
  BY DEF PurgeUnlink, Unlink, purgeVars
<1>3. PICK k \in 1 .. n + 1 : cur = IF k <= n THEN order[k] ELSE NULL
  BY <1>2 DEF IInv, Walk
<1>4. /\ order \in Seq(Slots) /\ item \in [Slots -> Works \cup {NoWork}]
      /\ \A i, j \in DOMAIN order : order[i] = order[j] => i = j
  BY DEF IInv, ListShape, Type
<1>5. k \in 1 .. n /\ cur = order[k] /\ cur \in Slots
  <2> HIDE DEF n
  <2> QED BY <1>1, <1>2, <1>3
<1>6. /\ order' \in Seq(Slots) /\ Len(order') = n - 1 /\ DOMAIN order' = 1 .. n - 1
      /\ \A i \in 1 .. n - 1 : order'[i] = IF i < k THEN order[i] ELSE order[i + 1]
  <2>1. /\ order' \in Seq(Slots) /\ Len(order') = n - 1
        /\ \A i \in 1 .. n - 1 : order'[i] = IF i < k THEN order[i] ELSE order[i + 1]
    BY <1>2, <1>4, <1>5, WithoutOne
  <2> QED BY <2>1, LenProperties
<1> HIDE DEF n
<1>7. ASSUME NEW i \in 1 .. n - 1
      PROVE  item'[order'[i]] = IF i < k THEN Listed[i] ELSE Listed[i + 1]
  <2>1. CASE i < k
    <3>1. i \in 1 .. n /\ order'[i] = order[i] /\ order[i] # cur
      BY <1>1, <1>4, <1>5, <1>6, <2>1
    <3> QED BY <1>1, <1>2, <1>4, <2>1, <3>1
  <2>2. CASE ~(i < k)
    <3>1. i + 1 \in 1 .. n /\ order'[i] = order[i + 1] /\ order[i + 1] # cur
      BY <1>1, <1>4, <1>5, <1>6, <2>2, SMTT(30)
    <3> QED BY <1>1, <1>2, <1>4, <2>2, <3>1
  <2> QED BY <2>1, <2>2
<1>8. Listed' = [i \in 1 .. n - 1 |-> IF i < k THEN Listed[i] ELSE Listed[i + 1]]
  BY <1>6, <1>7 DEF Listed
<1>9. /\ Listed' \in Seq(Works) /\ Len(Listed') = n - 1
      /\ \A i \in 1 .. n - 1 : Listed'[i] = IF i < k THEN Listed[i] ELSE Listed[i + 1]
  <2>1. \A i \in 1 .. n : Listed[i] \in Works
    BY <1>1, ElementOfSeq
  <2>2. n - 1 \in Nat /\ \A i \in 1 .. n - 1 : i \in 1 .. n /\ i + 1 \in 1 .. n
    BY <1>1, <1>5
  <2>3. Listed' \in [1 .. n - 1 -> Works]
    BY <1>8, <2>1, <2>2
  <2>4. Listed' \in Seq(Works) /\ Len(Listed') = n - 1
    BY <2>2, <2>3, SeqDef, LenProperties
  <2> QED BY <1>8, <2>4
<1>10. Listed[k] = purged
  BY <1>1, <1>2, <1>5
<1>11. Without(Listed', purged) = Without(Listed, purged)
  <2>1. k \in 1 .. Len(Listed) /\ Len(Listed') = Len(Listed) - 1
    BY <1>1, <1>5, <1>9
  <2>2. \A i \in 1 .. Len(Listed') : Listed'[i] = IF i < k THEN Listed[i] ELSE Listed[i + 1]
    BY <1>9
  <2> QED BY <1>1, <1>9, <1>10, <2>1, <2>2, WithoutOneMore
<1> QED BY <1>2, <1>11 DEF Waiting

(* At the end of the walk no slot holds the work removed.                  *)
LEMMA PurgeEndsRefines ==
  ASSUME IInv, Loop, PurgeEnds
  PROVE  Waiting' = Waiting
<1>1. /\ Listed \in Seq(Works) /\ Len(Listed) = Len(order)
      /\ Len(order) \in Nat /\ DOMAIN order = 1 .. Len(order)
      /\ \A i \in 1 .. Len(order) : order[i] \in Slots /\ Listed[i] = item[order[i]]
  BY ListedShape
<1>2. pc = "purge" /\ pc' = "exec" /\ cur = NULL /\ UNCHANGED <<order, item>>
  BY DEF PurgeEnds, slotVars
<1>3. PICK k \in 1 .. Len(order) + 1 :
        /\ cur = IF k <= Len(order) THEN order[k] ELSE NULL
        /\ \A i \in 1 .. k - 1 : item[order[i]] # purged
  BY <1>2 DEF IInv, Walk
<1>4. k = Len(order) + 1
  BY <1>1, <1>2, <1>3 DEF Slots, NULL
<1>5. \A i \in 1 .. Len(order) : item[order[i]] # purged
  BY <1>1, <1>3, <1>4
<1>6. ~Queued(Listed, purged)
  BY <1>1, <1>5 DEF Queued, Listed
<1>7. Without(Listed, purged) = Listed
  BY <1>1, <1>6, WithoutAbsent
<1> QED BY <1>2, <1>7 DEF Waiting, Listed

LEMMA StepRefines ==
  ASSUME IInv, Loop, [WqNext]_wqVars
  PROVE  [Abstract!SpecNext]_Abstract!specVars
<1>1. CASE WorkerSchedules
  <2>1. PICK w \in Works : Schedule(w)
    BY <1>1 DEF WorkerSchedules
  <2>2. pc = "exec" /\ pc' = "exec" /\ running' = running
    BY <1>1 DEF WorkerSchedules
  <2>3. Holding' = Holding /\ Started' = Started
    BY <2>2 DEF Holding, Started
  <2> QED BY <2>1, <2>2, <2>3, ScheduleRefines
<1>2. CASE WqInterrupt
  <2>1. /\ pc # "purge" /\ UNCHANGED <<cur, purged, running>>
        /\ pc' = IF pc = "asleep" THEN "take" ELSE pc
    BY <1>2 DEF WqInterrupt, purgeVars
  <2>2. pc' # "purge" /\ Started' = Started
    BY <2>1 DEF Started
  <2>3. CASE UNCHANGED <<slotVars, result>>
    <3>1. Holding' = Holding /\ Waiting' = Waiting
      BY <2>1, <2>2, <2>3 DEF Holding, Waiting, Listed, slotVars
    <3> QED BY <2>2, <2>3, <3>1 DEF Abstract!specVars
  <2>4. ASSUME NEW w \in Works, Schedule(w)
        PROVE  [Abstract!SpecNext]_Abstract!specVars
    <3>1. item'[cur] = item[cur] \/ pc # "free"
      <4>1. CASE pc = "free"
        <5>1. cur \in Slots /\ item[cur] # NoWork /\ item \in [Slots -> Works \cup {NoWork}]
          BY <4>1, HeldIsWork, QueueAssumption DEF IInv, Type
        <5> QED BY <2>4, <5>1 DEF Schedule, Free, slotVars
      <4> QED BY <4>1
    <3>2. Holding' = Holding
      BY <2>1, <3>1 DEF Holding
    <3> QED BY <2>1, <2>2, <2>4, <3>2, ScheduleRefines
  <2> QED BY <1>2, <2>3, <2>4 DEF WqInterrupt
<1>3. CASE SleepIfIdle
  <2>1. /\ pc = "idle" /\ pc' \in {"asleep", "take"}
        /\ UNCHANGED <<order, item, running, result>>
    BY <1>3 DEF SleepIfIdle, slotVars
  <2>2. Waiting' = Waiting /\ Holding' = Holding /\ Started' = Started
    BY <2>1 DEF Waiting, Listed, Holding, Started
  <2> QED BY <2>1, <2>2 DEF Abstract!specVars
<1>4. CASE WorkerReturns
  <2>1. /\ pc = "exec" /\ pc' = "idle" /\ running' = NoWork
        /\ UNCHANGED <<order, item, result>>
    BY <1>4 DEF WorkerReturns, slotVars
  <2>2. Waiting' = Waiting /\ Holding' = NoWork
    BY <2>1 DEF Waiting, Listed, Holding
  <2>3. Started = TRUE /\ Started' = FALSE
    BY <2>1 DEF Started
  <2>4. Abstract!Finish
    BY <2>1, <2>2, <2>3 DEF Abstract!Finish
  <2> QED BY <2>4 DEF Abstract!SpecNext
<1>5. CASE PurgeKeep \/ PurgeUnlink \/ PurgeEnds
  <2>1. Waiting' = Waiting
    <3>1. CASE PurgeKeep
      BY <3>1 DEF PurgeKeep, Waiting, Listed, slotVars
    <3> QED BY <1>5, <3>1, PurgeUnlinkRefines, PurgeEndsRefines
  <2>2. /\ pc = "purge" /\ pc' \in {"purge", "exec"}
        /\ running' = running /\ result' = result
    BY <1>5 DEF PurgeKeep, PurgeUnlink, PurgeEnds
  <2>3. Holding' = Holding /\ Started' = Started
    BY <2>2 DEF Holding, Started
  <2> QED BY <2>1, <2>2, <2>3 DEF Abstract!specVars
<1>6. CASE UNCHANGED wqVars
  <2>1. UNCHANGED <<pc, order, item, running, purged, cur, result>>
    BY <1>6 DEF wqVars, slotVars, purgeVars
  <2>2. Waiting' = Waiting /\ Holding' = Holding /\ Started' = Started
    BY <2>1 DEF Waiting, Listed, Holding, Started
  <2> QED BY <2>1, <2>2 DEF Abstract!specVars
<1> QED
  BY <1>1, <1>2, <1>3, <1>4, <1>5, <1>6, RunOnceRefines, FreeSlotRefines,
     WorkerDeschedulesRefines DEF WqNext, MainLoop

LEMMA InitRefines == WqInit => Abstract!SpecInit
<1> SUFFICES ASSUME WqInit PROVE Abstract!SpecInit
  OBVIOUS
<1>1. Listed = << >>
  <2>1. DOMAIN order = {} /\ << >> = [i \in {} |-> item[order[i]]]
    BY EmptySeq, SeqDef DEF WqInit
  <2> QED BY <2>1 DEF Listed
<1>2. Waiting = << >> /\ Holding = NoWork /\ Started = FALSE /\ result = "OK"
  BY <1>1 DEF WqInit, Waiting, Holding, Started
<1> QED BY <1>2 DEF Abstract!SpecInit

(* The main loop executes a work only between its slot being given back    *)
(* and its return.                                                         *)
THEOREM LoopKept == WqSpec => []Loop
BY LoopInit, LoopNext, Invariance, PTL DEF WqSpec

(* work_queue_schedule, _run_once and _deschedule are the bounded queue    *)
(* their callers rely on, whatever the number of slots and works: a work   *)
(* accepted is executed in the order of arrival, refused only when every   *)
(* place is taken, and a purge removes every occurrence of a work and      *)
(* nothing else.                                                           *)
THEOREM ImplementsQueue == WqSpec => Abstract!SpecSafety
BY InitRefines, StepRefines, Invariance, LoopKept, PTL DEF WqSpec, Abstract!SpecSafety

=============================================================================
