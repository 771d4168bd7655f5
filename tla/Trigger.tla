------------------------------- MODULE Trigger -------------------------------
(***************************************************************************)
(* A trigger (trigger.c) drives one output through a sequence of steps:    *)
(* step p lasts seq[p] milliseconds, the output is on during the even      *)
(* steps (counted from 0), a step of length 0 is skipped, and after the    *)
(* last one the output is off.  A trigger is a record with the fields the  *)
(* functions of trigger.c change: the sequence and the position in it, the *)
(* value written to the GPIO, and whether its timer is pending.            *)
(***************************************************************************)
EXTENDS Naturals, Sequences

TriggerState ==
  [seq : Seq(Nat), pos : Nat, gpio : BOOLEAN, armed : BOOLEAN]

(* trigger_set: the timer is descheduled, the sequence forgotten. *)
TriggerSet(value) ==
  [seq |-> << >>, pos |-> 0, gpio |-> value, armed |-> FALSE]

(* trigger_stop, and the state that trigger_init leaves. *)
TriggerStop == TriggerSet(FALSE)

(* The positions that the loop of trigger_on_timeout may stop at. *)
StepsLeft(tr) == {p \in tr.pos .. Len(tr.seq) - 1 : tr.seq[p + 1] # 0}

(* The position it does stop at, when there is one. *)
NextStep(tr) == CHOOSE p \in StepsLeft(tr) : \A r \in StepsLeft(tr) : p <= r

(* trigger_on_timeout: play the next step, or stop after the last one. *)
TriggerOnTimeout(tr) ==
  IF StepsLeft(tr) = {}
  THEN TriggerStop
  ELSE [seq |-> tr.seq,
        pos |-> NextStep(tr) + 1,
        gpio |-> (NextStep(tr) % 2 = 0),
        armed |-> TRUE]

(* trigger_on_timeout reached the end: on_finished is put on the queue. *)
TriggerFinishes(tr) == StepsLeft(tr) = {}

(* trigger_start_seq plays the first step at once, whatever was playing.   *)
TriggerStartSeq(seq) ==
  TriggerOnTimeout([seq |-> seq, pos |-> 0, gpio |-> FALSE, armed |-> FALSE])

(* trigger_start: one step of the given length. *)
TriggerStart(duration) == TriggerStartSeq(<<duration>>)

=============================================================================
