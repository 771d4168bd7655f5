----------------------------- MODULE TimerQueue -----------------------------
(***************************************************************************)
(* The timers of timer.c: a list of the pending timers ordered by timeout, *)
(* a 16 bit clock that wraps, and the tick interrupt that runs the         *)
(* callbacks.  The list is a sequence and each call is one step: what      *)
(* happens when an interrupt comes inside a call is the subject of         *)
(* TimerRace.  A callback runs inside the tick interrupt and may schedule  *)
(* and deschedule timers, its own included, before the loop goes on.       *)
(***************************************************************************)
EXTENDS Integers, Sequences

CONSTANTS
  Timers,
  Half,    \* 2^15: the clock counts modulo 2 * Half
  Delays   \* the delays the callers ask for: at least 1, open_time at most

Period == 2 * Half

(* "only delay up to 32 seconds make sense" *)
ASSUME TimeAssumption ==
  /\ Half \in Nat \ {0}
  /\ Delays \subseteq 1 .. Half - 1

VARIABLES
  now,      \* the clock
  when,     \* t->when
  flag,     \* t->pending
  pending,  \* the list, next to expire first
  masked,   \* the tick interrupt is masked for the sleep
  asleep,   \* the main loop is between timers_sleep and timers_wakeup
  isr,      \* "none", or where the tick interrupt is: "loop" or "callback"
  left      \* history: the ticks until t must expire

listVars == <<when, flag, pending, left>>
tqVars == <<now, listVars, masked, asleep, isr>>

TqInit ==
  /\ now = 0 /\ when = [t \in Timers |-> 0] /\ flag = [t \in Timers |-> FALSE]
  /\ pending = << >> /\ left = [t \in Timers |-> 0]
  /\ masked = FALSE /\ asleep = FALSE /\ isr = "none"

-----------------------------------------------------------------------------
(* Mutant: the times are compared as they are.                             *)
TimeBeforeEq_Unsigned(a, b) == a <= b

(* The sign of the 16 bit difference. *)
TimeBeforeEq(a, b) == (b - a) % Period < Half

TimeBefore(a, b) == (a - b) % Period >= Half

(* timer_dequeue_pending; a timer whose flag is clear is not searched. *)
Dequeued(t) ==
  IF ~flag[t] \/ \A i \in DOMAIN pending : pending[i] # t
  THEN pending
  ELSE LET i == CHOOSE i \in DOMAIN pending : pending[i] = t
       IN  SubSeq(pending, 1, i - 1) \o SubSeq(pending, i + 1, Len(pending))

(* Mutant: the walk starts without looking at the head.                    *)
InFront_HeadSkipped(q, w) ==
  IF q = << >> THEN 0
  ELSE CHOOSE n \in 1 .. Len(q) :
         /\ \A i \in 2 .. n : TimeBeforeEq(when[q[i]], w)
         /\ n < Len(q) => ~TimeBeforeEq(when[q[n + 1]], w)

(* timer_queue_pending: how many timers stay in front of one due at w. *)
InFront(q, w) ==
  IF q = << >> \/ TimeBefore(w, when[q[1]]) THEN 0
  ELSE CHOOSE n \in 1 .. Len(q) :
         /\ \A i \in 2 .. n : TimeBeforeEq(when[q[i]], w)
         /\ n < Len(q) => ~TimeBeforeEq(when[q[n + 1]], w)

(* timer_schedule_in; it leaves the tick interrupt unmasked. *)
ScheduleIn(t, delay) ==
  LET w == (now + delay) % Period
      q == Dequeued(t)
      n == InFront(q, w)
  IN  /\ when' = [when EXCEPT ![t] = w]
      /\ pending' = SubSeq(q, 1, n) \o <<t>> \o SubSeq(q, n + 1, Len(q))
      /\ flag' = [flag EXCEPT ![t] = TRUE]
      /\ left' = [left EXCEPT ![t] = delay]
      /\ masked' = FALSE

(* timer_deschedule; it leaves the tick interrupt unmasked as well. *)
Deschedule(t) ==
  /\ pending' = Dequeued(t)
  /\ flag' = [flag EXCEPT ![t] = FALSE]
  /\ left' = [left EXCEPT ![t] = 0]
  /\ masked' = FALSE
  /\ UNCHANGED when

(* The main loop, a pin change interrupt or a callback uses a timer. *)
Use ==
  /\ isr # "loop"
  /\ \E t \in Timers : Deschedule(t) \/ \E d \in Delays : ScheduleIn(t, d)
  /\ UNCHANGED <<now, asleep, isr>>

-----------------------------------------------------------------------------
(* timers_tick *)
Tick ==
  /\ isr = "none" /\ ~masked
  /\ now' = (now + 1) % Period
  /\ left' = [t \in Timers |-> IF flag[t] THEN left[t] - 1 ELSE left[t]]
  /\ isr' = "loop"
  /\ UNCHANGED <<when, flag, pending, masked, asleep>>

Due == pending # << >> /\ TimeBeforeEq(when[pending[1]], now)

(* Mutant: the flag of an expired timer is not cleared.                    *)
Expire_FlagKept ==
  /\ isr = "loop" /\ Due
  /\ pending' = Tail(pending)
  /\ isr' = "callback"
  /\ UNCHANGED <<now, when, flag, left, masked, asleep>>

(* The head is detached and its callback called. *)
Expire ==
  /\ isr = "loop" /\ Due
  /\ pending' = Tail(pending)
  /\ flag' = [flag EXCEPT ![pending[1]] = FALSE]
  /\ isr' = "callback"
  /\ UNCHANGED <<now, when, left, masked, asleep>>

CallbackReturns ==
  /\ isr = "callback"
  /\ isr' = "loop"
  /\ UNCHANGED <<now, listVars, masked, asleep>>

TickEnds ==
  /\ isr = "loop" /\ ~Due
  /\ isr' = "none"
  /\ UNCHANGED <<now, listVars, masked, asleep>>

(* Mutant: the clock is stopped for every sleep.                           *)
TimersSleep_Always ==
  /\ isr = "none" /\ ~asleep
  /\ asleep' = TRUE
  /\ masked' = TRUE
  /\ UNCHANGED <<now, listVars, isr>>

(* timers_sleep, with the interrupts disabled. *)
TimersSleep ==
  /\ isr = "none" /\ ~asleep
  /\ asleep' = TRUE
  /\ masked' = IF pending = << >> THEN TRUE ELSE masked
  /\ UNCHANGED <<now, listVars, isr>>

(* timers_wakeup, once an interrupt woke the main loop. *)
TimersWakeup ==
  /\ isr = "none" /\ asleep
  /\ asleep' = FALSE
  /\ masked' = IF pending = << >> THEN FALSE ELSE masked
  /\ UNCHANGED <<now, listVars, isr>>

TickInterrupt == Tick \/ Expire \/ CallbackReturns \/ TickEnds

TqNext == Use \/ TickInterrupt \/ TimersSleep \/ TimersWakeup

(* Unless it is masked the tick interrupt keeps coming.  A callback        *)
(* returns.  Nothing is assumed of the users of the timers, nor of what    *)
(* wakes a main loop that sleeps with the clock stopped.                   *)
TqSpec ==
  /\ TqInit /\ [][TqNext]_tqVars
  /\ WF_tqVars(Tick) /\ WF_tqVars(Expire) /\ WF_tqVars(TickEnds)
  /\ SF_tqVars(CallbackReturns)

-----------------------------------------------------------------------------
(* The flag of a timer says whether it is in the list, and no timer is in  *)
(* the list twice: a second link would make the list a ring.               *)
FlagIsMembership ==
  /\ \A t \in Timers : flag[t] <=> \E i \in DOMAIN pending : pending[i] = t
  /\ \A i, j \in DOMAIN pending : pending[i] = pending[j] => i = j

(* The list is ordered by the time that is left, also when some of the     *)
(* timeouts lie behind the wrap of the clock; otherwise a timer behind a   *)
(* later one would be late.                                                *)
OrderedByTimeout ==
  \A i, j \in DOMAIN pending : i < j => left[pending[i]] <= left[pending[j]]

(* No timer is overdue once the tick interrupt returns, and none is taken  *)
(* from the list before its delay has elapsed: it expires in the tick that *)
(* completes the delay.                                                    *)
OnTime ==
  [][/\ \A t \in Timers :
          Expire /\ flag[t] /\ ~flag'[t] => left[t] = 0
     /\ TickEnds => \A i \in DOMAIN pending : left[pending[i]] > 0]_tqVars

(* A pending timer is never forgotten: the clock is stopped only while     *)
(* there is none, so once nobody uses the timers any more all of them      *)
(* expire, whenever the main loop goes to sleep.                           *)
PendingExpires == []<>(pending = << >>) \/ []<><<Use>>_tqVars

=============================================================================
