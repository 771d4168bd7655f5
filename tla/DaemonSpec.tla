----------------------------- MODULE DaemonSpec -----------------------------
(***************************************************************************)
(* What a client of the daemon relies on: the calls of a controller's      *)
(* methods are taken in the order they were made, each gets exactly one    *)
(* answer, success or failure, and none waits for ever.                    *)
(***************************************************************************)
EXTENDS Sequences

CONSTANTS Requests \* the method calls of a behaviour

VARIABLES
  waiting,  \* the deferred calls, oldest first
  outcome   \* what became of each call

promiseVars == <<waiting, outcome>>

Unmade == [r \in Requests |-> "unmade"]

PromiseInit == waiting = << >> /\ outcome = Unmade

Defer(r) ==
  /\ outcome[r] = "unmade"
  /\ outcome' = [outcome EXCEPT ![r] = "waiting"]
  /\ waiting' = Append(waiting, r)

CompleteOldest(result) ==
  /\ waiting # << >>
  /\ outcome' = [outcome EXCEPT ![Head(waiting)] = result]
  /\ waiting' = Tail(waiting)

Complete == \E result \in {"ok", "failed"} : CompleteOldest(result)

PromiseNext == Complete \/ \E r \in Requests : Defer(r)

(* What never happens, and the promise. *)
PromiseSafety == PromiseInit /\ [][PromiseNext]_promiseVars

Promise == PromiseSafety /\ WF_promiseVars(Complete)

=============================================================================
