---------------------------- MODULE MCTimerRace ----------------------------
(***************************************************************************)
(* TimerRace for TLC: one timer of the main loop (a door's idle timer) and *)
(* two of the pin change interrupts (a reader's word timeout, a button's   *)
(* debounce).                                                              *)
(***************************************************************************)
EXTENDS TimerRace
=============================================================================
