----------------------------- MODULE MCDoorCtrl -----------------------------
(***************************************************************************)
(* DoorCtrl for TLC: one digit that is not 0, one card that is granted on  *)
(* its own and one that needs a PIN of one digit, two-nibble PINs.         *)
(***************************************************************************)
EXTENDS DoorCtrl

CONSTANTS d0, d1, f, enter, esc, c1, c2, none

MCGranted ==
  {[type |-> "CARD", card |-> c1, pin |-> <<d0, d0>>],
   [type |-> "CARD_AND_PIN", card |-> c2, pin |-> <<f, d1>>],
   [type |-> "PIN", card |-> none, pin |-> <<d0, d1>>]}

(* As many steps as it takes to have a silent and a sounding one after the *)
(* skipped first; the code's sequences repeat them.                        *)
MCAcceptedSeq == <<0, 100, 200>>
MCRejectedSeq == <<0, 200>>
MCTimeoutSeq == <<0, 100>>

=============================================================================
