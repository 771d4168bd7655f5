----------------------------- MODULE WorkQueue -----------------------------
(***************************************************************************)
(* The run queue of work-queue.c as it is stored: a table of slots linked  *)
(* by next pointers, filled by the interrupts and by the work being        *)
(* executed, emptied by the main loop.  "pc" is the place of the main      *)
(* loop; an interrupt may come between any two of its steps, except inside *)
(* an ATOMIC_BLOCK.  The loop of work_queue_deschedule is one step per     *)
(* slot, with the interrupts disabled until it ends.                       *)
(*                                                                         *)
(* "order" is a history variable: the slots in the order they were linked. *)
(* Nothing reads it but the invariant, which says that the pointers follow *)
(* it, and the refinement mapping to WorkQueueSpec.                        *)
(***************************************************************************)
EXTENDS RunQueue

CONSTANTS
  Works,     \* a work here is a worker with a command; its argument is carried along
  NoWork,    \* a slot whose worker is NULL
  MaxWorks   \* MAX_PENDING_WORKS

ASSUME QueueAssumption == MaxWorks \in Nat \ {0} /\ NoWork \notin Works

Slots == 1 .. MaxWorks
NULL == 0
Links == Slots \cup {NULL}

VARIABLES
  head, tail,   \* runq_head, runq_tail
  next, item,   \* wq_storage: the next pointer and the work of each slot
  cur,          \* run_once: the slot it took; deschedule: the slot it looks at
  prev,         \* deschedule: the last slot it kept
  purged,       \* deschedule: the work it removes
  running,      \* the work being executed
  pc,           \* where the main loop is
  result,       \* what work_queue_schedule returned last
  order         \* history

slotVars == <<head, tail, next, item, order>>
purgeVars == <<prev, purged>>
wqVars == <<slotVars, cur, purgeVars, running, pc, result>>

WqInit ==
  /\ head = NULL /\ tail = NULL
  /\ next = [s \in Slots |-> NULL] /\ item = [s \in Slots |-> NoWork]
  /\ cur = NULL /\ prev = NULL /\ purged = NoWork
  /\ running = NoWork /\ pc = "take" /\ result = "OK" /\ order = << >>

-----------------------------------------------------------------------------
Free == {s \in Slots : item[s] = NoWork}

(* work_queue_schedule uses the first free slot and links it at the tail.  *)
Schedule(w) ==
  \/ /\ Free = {}
     /\ result' = "ENOMEM"
     /\ UNCHANGED slotVars
  \/ \E s \in Free :
       /\ \A r \in Free : s <= r
       /\ item' = [item EXCEPT ![s] = w]
       /\ next' = [r \in Slots |->
                     IF r = s THEN NULL ELSE IF r = tail THEN s ELSE next[r]]
       /\ head' = IF tail = NULL THEN s ELSE head
       /\ tail' = s
       /\ order' = Append(order, s)
       /\ result' = "OK"

(* The ATOMIC_BLOCK of work_queue_run_once. *)
RunOnce ==
  /\ pc = "take"
  /\ cur' = head
  /\ \/ /\ head = NULL
        /\ pc' = "idle"
        /\ UNCHANGED <<head, tail, next, order>>
     \/ /\ head # NULL
        /\ head' = next[head]
        /\ tail' = IF next[head] = NULL THEN NULL ELSE tail
        /\ next' = [next EXCEPT ![head] = NULL]
        /\ order' = Tail(order)
        /\ pc' = "free"
  /\ UNCHANGED <<item, purgeVars, running, result>>

(* The context is copied to the stack, then the slot is freed. *)
FreeSlot ==
  /\ pc = "free"
  /\ running' = item[cur]
  /\ item' = [item EXCEPT ![cur] = NoWork]
  /\ pc' = "exec"
  /\ UNCHANGED <<head, tail, next, order, cur, purgeVars, result>>

(* The work being executed schedules another one. *)
WorkerSchedules ==
  /\ pc = "exec"
  /\ \E w \in Works : Schedule(w)
  /\ UNCHANGED <<cur, purgeVars, running, pc>>

(* It deschedules w: interrupts are disabled until the walk ends. *)
WorkerDeschedules ==
  /\ pc = "exec"
  /\ purged' \in Works
  /\ cur' = head /\ prev' = NULL
  /\ pc' = "purge"
  /\ UNCHANGED <<slotVars, running, result>>

(* Mutant: the tail pointer is not moved when the last work is unlinked.   *)
Unlink_TailKept ==
  /\ head' = IF prev = NULL THEN next[cur] ELSE head
  /\ tail' = tail
  /\ next' = [s \in Slots |->
                IF s = cur THEN NULL ELSE IF s = prev THEN next[cur] ELSE next[s]]
  /\ item' = [item EXCEPT ![cur] = NoWork]

(* Mutant: the unlinked slot is not given back.                            *)
Unlink_SlotKept ==
  /\ head' = IF prev = NULL THEN next[cur] ELSE head
  /\ tail' = IF next[cur] = NULL THEN prev ELSE tail
  /\ next' = [s \in Slots |->
                IF s = cur THEN NULL ELSE IF s = prev THEN next[cur] ELSE next[s]]
  /\ item' = item

(* The slot looked at is unlinked and freed. *)
Unlink ==
  /\ head' = IF prev = NULL THEN next[cur] ELSE head
  /\ tail' = IF next[cur] = NULL THEN prev ELSE tail
  /\ next' = [s \in Slots |->
                IF s = cur THEN NULL ELSE IF s = prev THEN next[cur] ELSE next[s]]
  /\ item' = [item EXCEPT ![cur] = NoWork]

PurgeKeep ==
  /\ pc = "purge" /\ cur # NULL /\ item[cur] # purged
  /\ prev' = cur /\ cur' = next[cur]
  /\ UNCHANGED <<slotVars, purged, running, pc, result>>

PurgeUnlink ==
  /\ pc = "purge" /\ cur # NULL /\ item[cur] = purged
  /\ Unlink
  /\ order' = Without(order, cur)
  /\ cur' = next[cur]
  /\ UNCHANGED <<purgeVars, running, pc, result>>

PurgeEnds ==
  /\ pc = "purge" /\ cur = NULL
  /\ prev' = NULL /\ purged' = NoWork
  /\ pc' = "exec"
  /\ UNCHANGED <<slotVars, cur, running, result>>

WorkerReturns ==
  /\ pc = "exec"
  /\ running' = NoWork /\ cur' = NULL
  /\ pc' = "idle"
  /\ UNCHANGED <<slotVars, purgeVars, result>>

(* Mutant: the main loop sleeps after every round, without the test.       *)
SleepIfIdle_Always ==
  /\ pc = "idle"
  /\ pc' = "asleep"
  /\ UNCHANGED <<slotVars, cur, purgeVars, running, result>>

(* sleep_if(!runq_head): the interrupts are disabled from the test on, and *)
(* sei has effect only after the sleep instruction that follows it.        *)
SleepIfIdle ==
  /\ pc = "idle"
  /\ pc' = IF head = NULL THEN "asleep" ELSE "take"
  /\ UNCHANGED <<slotVars, cur, purgeVars, running, result>>

(* Any interrupt ends the sleep; the main loop goes on once it returns.    *)
WqInterrupt ==
  /\ pc # "purge"
  /\ \/ \E w \in Works : Schedule(w)
     \/ UNCHANGED <<slotVars, result>>
  /\ pc' = IF pc = "asleep" THEN "take" ELSE pc
  /\ UNCHANGED <<cur, purgeVars, running>>

MainLoop ==
  \/ RunOnce \/ FreeSlot \/ SleepIfIdle \/ WorkerReturns
  \/ PurgeKeep \/ PurgeUnlink \/ PurgeEnds

WqNext == MainLoop \/ WorkerSchedules \/ WorkerDeschedules \/ WqInterrupt

(* The main loop is never starved by interrupts and every worker returns:  *)
(* the handlers have no unbounded loop.                                    *)
WqSpec ==
  /\ WqInit /\ [][WqNext]_wqVars
  /\ WF_wqVars(MainLoop) /\ SF_wqVars(WorkerReturns)

-----------------------------------------------------------------------------
(* The slots that hold a work which is neither waiting nor freed yet.      *)
Held == IF pc = "free" THEN {cur} ELSE {}

(* The pointers are a list without a cycle that ends at runq_tail, in the  *)
(* order of arrival, at every step of an unlinking walk too; otherwise an  *)
(* interrupt would append behind a slot that is no longer reached.         *)
ListShape ==
  /\ order \in Seq(Slots)
  /\ \A i, j \in DOMAIN order : order[i] = order[j] => i = j
  /\ head = IF order = << >> THEN NULL ELSE order[1]
  /\ tail = IF order = << >> THEN NULL ELSE order[Len(order)]
  /\ \A i \in DOMAIN order :
       next[order[i]] = IF i = Len(order) THEN NULL ELSE order[i + 1]

(* No slot leaks and none is used twice: a slot is taken exactly while its *)
(* work waits in the list or is about to be copied by the main loop.       *)
SlotsAccounted ==
  /\ {s \in Slots : item[s] # NoWork} = {order[i] : i \in DOMAIN order} \cup Held
  /\ Held \cap {order[i] : i \in DOMAIN order} = {}

(* The works in the list, oldest first. *)
Listed == [i \in DOMAIN order |-> item[order[i]]]

(* The works that wait; while the list is walked, those that will remain.  *)
Waiting == IF pc = "purge" THEN Without(Listed, purged) ELSE Listed

(* The work the main loop took out of the list, and whether it has copied  *)
(* it and given its slot back.                                             *)
Holding == IF pc = "free" THEN item[cur] ELSE running
Started == pc \in {"exec", "purge"}

(* The slots and pointers implement the bounded queue: order of arrival,   *)
(* refusal only when every slot is taken, a purge that removes every       *)
(* occurrence and nothing else, and no work that sleeps in the queue.      *)
Abstract ==
  INSTANCE WorkQueueSpec WITH
    fifo <- Waiting, holding <- Holding, started <- Started, result <- result

Refines == Abstract!Promise

=============================================================================
