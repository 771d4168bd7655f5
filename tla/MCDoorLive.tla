----------------------------- MODULE MCDoorLive -----------------------------
(***************************************************************************)
(* Progress of DoorCtrl once people leave the door alone: the reader, the  *)
(* button and the other users of the queue act at most Budget times.  The  *)
(* main loop keeps running and a pending timer expires in the end; nothing *)
(* is assumed of the outside.                                              *)
(***************************************************************************)
EXTENDS MCDoorCtrl

CONSTANT Budget
VARIABLE budget

LiveVars == <<vars, budget>>

LiveInit == Init /\ budget = Budget

Inside == (MainLoop \/ TimerInterrupt) /\ UNCHANGED budget
Visit == Outside /\ budget > 0 /\ budget' = budget - 1

LiveNext == Inside \/ Visit

LiveSpec ==
  /\ LiveInit /\ [][LiveNext]_LiveVars
  /\ WF_LiveVars(MainLoop /\ UNCHANGED budget)
  /\ WF_LiveVars(OnIdleTimer /\ UNCHANGED budget)
  /\ WF_LiveVars(OnBuzzerTimer /\ UNCHANGED budget)
  /\ WF_LiveVars(OnOpenTimer /\ UNCHANGED budget)
  /\ WF_LiveVars(OnLedTimer /\ UNCHANGED budget)
  /\ WF_LiveVars(OnDebounceTimer /\ UNCHANGED budget)

(* A door that ignores keys and cards (it is opening, rejecting, reporting *)
(* a timeout or an error) listens again in the end, unless the queue was   *)
(* full when its BUZZER_FINISHED was scheduled.                            *)
BusyEnds == state \in Busy ~> state \notin Busy \/ BuzzerFinished \in lost

(* A PIN entry that is left alone is given up, unless the queue was full   *)
(* when its IDLE_TIMEOUT was scheduled.                                    *)
PinEntryEnds ==
  state = "READING_PIN" ~> state # "READING_PIN" \/ IdleTimeout \in lost

(* A lock that is driven is released in the end, unless the button is held *)
(* down.                                                                   *)
LockReleased == openTrig.gpio ~> ~openTrig.gpio \/ btn.level

=============================================================================
