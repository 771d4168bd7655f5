------------------------------ MODULE MCQueues ------------------------------
(***************************************************************************)
(* The run queue and the timers for TLC, one of them in each behaviour:    *)
(* they share no state.  As many slots as it takes to unlink the first, a  *)
(* middle and the last one in one walk, and two works, so that a walk      *)
(* removes several occurrences and keeps others.  A clock of eight ticks,  *)
(* so that it wraps while timers are pending, and three timers, so that    *)
(* one is inserted between two others; the delays reach the last one the   *)
(* signed difference can tell.                                             *)
(***************************************************************************)
EXTENDS WorkQueue, TimerQueue

VARIABLES queue \* the one that the behaviour is about

queueVars == <<queue, wqVars, tqVars>>

Init == queue \in {"works", "timers"} /\ WqInit /\ TqInit

WorksDo(A) == queue = "works" /\ A /\ UNCHANGED <<queue, tqVars>>
TimersDo(A) == queue = "timers" /\ A /\ UNCHANGED <<queue, wqVars>>

Next == WorksDo(WqNext) \/ TimersDo(TqNext)

(* The fairness of WqSpec and of TqSpec, for the queue that there is.      *)
Fairness ==
  /\ WF_queueVars(WorksDo(MainLoop)) /\ SF_queueVars(WorksDo(WorkerReturns))
  /\ WF_queueVars(TimersDo(Tick)) /\ WF_queueVars(TimersDo(Expire))
  /\ WF_queueVars(TimersDo(TickEnds)) /\ SF_queueVars(TimersDo(CallbackReturns))

Spec == Init /\ [][Next]_queueVars /\ Fairness

=============================================================================
