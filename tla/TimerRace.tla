------------------------------ MODULE TimerRace ------------------------------
(***************************************************************************)
(* Two callers of timer.c at once.  The functions mask the tick interrupt  *)
(* only; the main loop calls them for the idle timer and the triggers, and *)
(* the pin change interrupts call them for the word timeout of the readers *)
(* and the debounce of the buttons, so a pin may change while the main     *)
(* loop is inside timer_schedule_in.  Here the list is what it is in       *)
(* memory, a head and next pointers, and the main loop's call is cut       *)
(* between its assignments.  An assignment is one step, though the         *)
(* processor moves a pointer in two: the real call can be interrupted at   *)
(* more places.  The time is abstract: a caller gives any timeout.         *)
(***************************************************************************)
EXTENDS Naturals, FiniteSets

CONSTANTS MainTimers, PinTimers, NULL, Times

Timers == MainTimers \cup PinTimers

VARIABLES
  list,    \* pending, and the next pointer, flag and timeout of each timer
  masked,  \* the tick interrupt is masked
  pc,      \* where the main loop is in timer_schedule_in
  t,       \* its argument
  after    \* the timer it will link its own behind

vars == <<list, masked, pc, t, after>>

Init ==
  /\ list = [head |-> NULL, next |-> [x \in Timers |-> NULL],
             flag |-> [x \in Timers |-> FALSE], when |-> [x \in Timers |-> 0]]
  /\ masked = FALSE /\ pc = "idle" /\ t = NULL /\ after = NULL

-----------------------------------------------------------------------------
(* The timers reached from the head, by their distance. *)
Chain(l) ==
  LET c[i \in 0 .. Cardinality(Timers)] ==
        IF i = 0 THEN l.head
        ELSE IF c[i - 1] = NULL THEN NULL ELSE l.next[c[i - 1]]
  IN  c
Linked(l) == {Chain(l)[i] : i \in DOMAIN Chain(l)} \ {NULL}

(* The list ends; a walk along one that became a ring would not, so the    *)
(* walks below have this guard. *)
Ends(l) == Chain(l)[Cardinality(Timers)] = NULL

(* timer_dequeue_pending, when nothing comes in between. *)
Dequeue(l, x) ==
  IF ~l.flag[x] THEN l
  ELSE [head |-> IF l.head = x THEN l.next[x] ELSE l.head,
        next |-> [y \in Timers |->
                    IF y = x THEN NULL
                    ELSE IF l.head # x /\ y \in Linked(l) /\ l.next[y] = x THEN l.next[x]
                    ELSE l.next[y]],
        flag |-> [l.flag EXCEPT ![x] = FALSE],
        when |-> l.when]

(* timer_queue_pending, when nothing comes in between: the new head, or    *)
(* the timer to link behind. *)
BecomesHead(l, x) ==
  IF l.head = NULL THEN TRUE ELSE l.when[x] < l.when[l.head]

InsertPoint(l, x) ==
  LET c == Chain(l)
      stops(i) == c[i] # NULL /\
                    (l.next[c[i]] = NULL \/ l.when[l.next[c[i]]] > l.when[x])
  IN  c[CHOOSE i \in DOMAIN c : stops(i) /\ \A j \in DOMAIN c : stops(j) => i <= j]

Enqueue(l, x) ==
  LET p == InsertPoint(l, x)
  IN  IF BecomesHead(l, x)
      THEN [l EXCEPT !.flag[x] = TRUE, !.next[x] = l.head, !.head = x]
      ELSE [l EXCEPT !.flag[x] = TRUE, !.next[x] = l.next[p], !.next[p] = x]

-----------------------------------------------------------------------------
(* timer_schedule_in of the main loop *)

Call ==
  /\ pc = "idle"
  /\ t' \in MainTimers
  /\ \E w \in Times : list' = [list EXCEPT !.when[t'] = w]
  /\ masked' = TRUE
  /\ pc' = "dequeue"
  /\ UNCHANGED after

DequeueOwn ==
  /\ pc = "dequeue" /\ Ends(list)
  /\ list' = Dequeue(list, t)
  /\ pc' = "queue"
  /\ UNCHANGED <<masked, t, after>>

(* The flag is set, the place found, and the new timer points to what      *)
(* follows it. *)
FindPlace ==
  /\ pc = "queue" /\ Ends(list)
  /\ \/ /\ BecomesHead(list, t)
        /\ list' = [list EXCEPT !.flag[t] = TRUE, !.next[t] = list.head]
        /\ pc' = "set head"
        /\ UNCHANGED after
     \/ /\ ~BecomesHead(list, t)
        /\ after' = InsertPoint(list, t)
        /\ list' = [list EXCEPT !.flag[t] = TRUE, !.next[t] = list.next[after']]
        /\ pc' = "set next"
  /\ UNCHANGED <<masked, t>>

LinkIt ==
  /\ \/ pc = "set head" /\ list' = [list EXCEPT !.head = t]
     \/ pc = "set next" /\ list' = [list EXCEPT !.next[after] = t]
  /\ pc' = "unmask"
  /\ UNCHANGED <<masked, t, after>>

Return ==
  /\ pc = "unmask"
  /\ masked' = FALSE /\ pc' = "idle" /\ t' = NULL /\ after' = NULL
  /\ UNCHANGED list

-----------------------------------------------------------------------------
(* A pin changed: the interrupt handler runs timer_schedule_in, or         *)
(* timer_deschedule, from its start to its end, and unmasks the tick.      *)
PinChange ==
  /\ Ends(list)
  /\ \E x \in PinTimers, w \in Times :
       LET l == Dequeue([list EXCEPT !.when[x] = w], x)
       IN  list' = Enqueue(l, x) \/ list' = Dequeue(list, x)
  /\ masked' = FALSE
  /\ UNCHANGED <<pc, t, after>>

(* The tick interrupt takes the head; its callback is left out. *)
Expire ==
  /\ ~masked /\ list.head # NULL
  /\ LET x == list.head
     IN  list' = [list EXCEPT !.head = list.next[x], !.next[x] = NULL, !.flag[x] = FALSE]
  /\ UNCHANGED <<masked, pc, t, after>>

Next ==
  Call \/ DequeueOwn \/ FindPlace \/ LinkIt \/ Return \/ PinChange \/ Expire

Spec == Init /\ [][Next]_vars

-----------------------------------------------------------------------------
(* timer.h says of the flag: "Set if the timer is in the pending list".    *)
(* So it should be whenever no call is under way.                          *)
FlagSetIfInList ==
  pc = "idle" => \A x \in Timers : list.flag[x] => x \in Linked(list)

=============================================================================
