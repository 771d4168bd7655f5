--------------------------- MODULE WorkQueueSpec ---------------------------
(***************************************************************************)
(* What the users of work-queue.c rely on: a bounded queue that executes   *)
(* one work at a time, in the order they were accepted, refuses a work     *)
(* only when it is full, and executes every accepted work that is not      *)
(* descheduled.                                                            *)
(***************************************************************************)
EXTENDS RunQueue

CONSTANTS Works, NoWork, MaxWorks

VARIABLES
  fifo,     \* the accepted works, oldest first
  holding,  \* the work the main loop took, or NoWork
  started,  \* it is being executed: it no longer takes a place
  result    \* what the last call of work_queue_schedule returned

specVars == <<fifo, holding, started, result>>

SpecInit ==
  /\ fifo = << >> /\ holding = NoWork /\ started = FALSE
  /\ result = "OK"

Places == Len(fifo) + (IF holding # NoWork /\ ~started THEN 1 ELSE 0)

Accept(w) ==
  /\ Places < MaxWorks
  /\ fifo' = Append(fifo, w)
  /\ result' = "OK"
  /\ UNCHANGED <<holding, started>>

Refuse ==
  /\ Places = MaxWorks
  /\ result' = "ENOMEM"
  /\ UNCHANGED <<fifo, holding, started>>

TakeOldest ==
  /\ holding = NoWork /\ fifo # << >>
  /\ holding' = Head(fifo) /\ fifo' = Tail(fifo)
  /\ UNCHANGED <<started, result>>

Start ==
  /\ holding # NoWork /\ ~started
  /\ started' = TRUE
  /\ UNCHANGED <<fifo, holding, result>>

Finish ==
  /\ started
  /\ holding' = NoWork /\ started' = FALSE
  /\ UNCHANGED <<fifo, result>>

(* The work being executed removes every w that is waiting. *)
Purge(w) ==
  /\ started
  /\ fifo' = Without(fifo, w)
  /\ UNCHANGED <<holding, started, result>>

SpecNext ==
  \/ \E w \in Works : Accept(w) \/ Purge(w)
  \/ Refuse \/ TakeOldest \/ Start \/ Finish

(* The main loop never stops while there is a work: in particular it does  *)
(* not sleep through one.                                                  *)
SpecFairness ==
  WF_specVars(TakeOldest) /\ WF_specVars(Start) /\ WF_specVars(Finish)

(* What never happens, whatever the main loop's speed, and the promise.    *)
SpecSafety == SpecInit /\ [][SpecNext]_specVars

Promise == SpecSafety /\ SpecFairness

=============================================================================
