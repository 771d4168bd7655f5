------------------------------ MODULE DoorLock ------------------------------
(***************************************************************************)
(* door_ctrl_set_open from the inside.  DoorCtrl takes it as one step; the *)
(* code reads dc->open_status, writes it back and then acts, and the       *)
(* debounce timer of the button runs the same function in the interrupt,   *)
(* which may come between any two of these steps of the main loop.         *)
(*                                                                         *)
(* The lock is what the open trigger makes of it: driven until further     *)
(* notice, driven for the open time, or released; the LED goes with it.    *)
(* The rest of the door and the time are left out: a card is accepted      *)
(* whenever the main loop is idle, and the open time may end at any        *)
(* moment.                                                                 *)
(***************************************************************************)

VARIABLES
  status,  \* dc->open_status: the sources that hold the door open
  old,     \* old_status of the main loop's call
  lock,    \* "released", "driven" or "timed"
  button,  \* the state the button reported last
  pc,      \* where the main loop is in door_ctrl_open
  changed, \* the button reported a change during the call
  opened   \* history: the lock was driven during the call

vars == <<status, old, lock, button, pc, changed, opened>>

Init ==
  /\ status = {} /\ old = {} /\ lock = "released"
  /\ button = FALSE /\ pc = "idle" /\ changed = FALSE /\ opened = FALSE

-----------------------------------------------------------------------------
(* What follows the write: only the first and the last source matter. *)
Act(before, now) ==
  lock' = CASE (before = {}) = (now = {}) -> lock
            [] OTHER -> IF now = {} THEN "timed" ELSE "driven"

(* A card is accepted. *)
OpenBegins ==
  /\ pc = "idle"
  /\ pc' = "read set" /\ changed' = FALSE /\ opened' = (lock # "released")
  /\ UNCHANGED <<status, old, lock, button>>

Read(from, to) ==
  /\ pc = from
  /\ old' = status
  /\ pc' = to
  /\ UNCHANGED <<status, lock, button, changed, opened>>

Store(from, value, to) ==
  /\ pc = from
  /\ status' = value
  /\ pc' = to
  /\ UNCHANGED <<old, lock, button, changed, opened>>

(* open_status is not volatile: the compiled code tests the value it wrote *)
(* or reads it again.                                                      *)
Drive(from, written, to) ==
  /\ pc = from
  /\ Act(old, written) \/ Act(old, status)
  /\ opened' = (opened \/ lock' # "released")
  /\ pc' = to
  /\ UNCHANGED <<status, old, button, changed>>

(* door_ctrl_set_open for the reader, with 1 and then with 0. *)
DoorCtrlOpen ==
  \/ Read("read set", "write set")
  \/ Store("write set", old \cup {"READER"}, "act set")
  \/ Drive("act set", old \cup {"READER"}, "read clear")
  \/ Read("read clear", "write clear")
  \/ Store("write clear", old \ {"READER"}, "act clear")
  \/ Drive("act clear", old \ {"READER"}, "returned")

OpenEnds ==
  /\ pc = "returned"
  /\ pc' = "idle"
  /\ UNCHANGED <<status, old, lock, button, changed, opened>>

(* The debounced button changed: the whole call, in the timer interrupt.   *)
(* Two changes are a debounce delay apart, much longer than a call of the  *)
(* main loop, so at most one of them falls into it.                        *)
OnOpenButtonChanged ==
  /\ pc = "idle" \/ ~changed
  /\ changed' = TRUE
  /\ button' = ~button
  /\ status' = IF button' THEN status \cup {"BUTTON"} ELSE status \ {"BUTTON"}
  /\ Act(status, status')
  /\ opened' = (opened \/ lock' # "released")
  /\ UNCHANGED <<old, pc>>

OpenTimeEnds ==
  /\ lock = "timed"
  /\ lock' = "released"
  /\ UNCHANGED <<status, old, button, pc, changed, opened>>

Next ==
  OpenBegins \/ DoorCtrlOpen \/ OpenEnds \/ OnOpenButtonChanged \/ OpenTimeEnds

Spec == Init /\ [][Next]_vars

-----------------------------------------------------------------------------
(* eeprom-types.h has "Time the door should stay open in ms" for the time  *)
(* the lock is driven after a card was accepted: so it is driven at some   *)
(* moment of the call that an accepted card makes.                         *)
AcceptedOpens == pc = "returned" => opened

=============================================================================
