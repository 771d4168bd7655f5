------------------------------ MODULE DoorCtrl ------------------------------
(***************************************************************************)
(* One door: the state machine of door-controller.c, the run queue that    *)
(* feeds it, its idle timer, its three triggers and its open button.       *)
(*                                                                         *)
(* Three kinds of actors interleave.  The main loop (work_queue_run) takes *)
(* one work at a time from the queue and runs on_event; the timer          *)
(* interrupt runs the callbacks of expired timers; the reader and the      *)
(* button interrupts post events.  "pc" is the place the main loop is at;  *)
(* an interrupt may come between any two of its steps.  Within one step    *)
(* nothing interrupts; DoorLock is door_ctrl_set_open from the inside.     *)
(*                                                                         *)
(* Time is abstracted: a pending timer may expire at any moment, in any    *)
(* order with the other timers.  Works of the other users of the queue     *)
(* (the other door, the message handler, the UART transport) are the one   *)
(* work Foreign: it takes a slot and does nothing here.                    *)
(***************************************************************************)
EXTENDS Integers, RunQueue, Trigger

CONSTANTS
  MaxWorks,   \* MAX_PENDING_WORKS, the slots of the run queue
  Digits,     \* digit keys of the keypad
  Zero,       \* the digit 0, all that an erased PIN holds
  Filler,     \* the nibble 0xF of the positions that were not typed
  Enter, Esc, \* WIEGAND_KEY_ENTER and WIEGAND_KEY_ESC
  Cards,      \* card numbers
  NoCard,     \* the card number 0 of a check by PIN alone
  PinDigits,  \* nibbles of the uint32_t pin, 8 in the code
  Granted,    \* the access requests for which check_key returns 0
  OpenTime,   \* dc->open_time
  AcceptedSeq, RejectedSeq, TimeoutSeq, \* the buzzer sequences
  ErrorDuration                         \* BUZZER_ERROR_DURATION

Nibbles == Digits \cup {Filler}
Pins == [1 .. PinDigits -> Nibbles]
Keys == Digits \cup {Enter, Esc}

AccessRequest ==
  [type : {"CARD", "PIN", "CARD_AND_PIN"}, card : Cards \cup {NoCard}, pin : Pins]

(* A sequence that makes some noise: not empty and not all zero. *)
Audible(seq) == seq \in Seq(Nat) /\ \E i \in 1 .. Len(seq) : seq[i] # 0

ASSUME ConstantsAssumption ==
  /\ MaxWorks \in Nat \ {0}
  /\ PinDigits \in Nat \ {0}
  /\ Zero \in Digits
  /\ Filler \notin Digits
  /\ Enter \notin Digits /\ Esc \notin Digits /\ Enter # Esc
  /\ Granted \subseteq AccessRequest
  /\ OpenTime \in Nat
  /\ ErrorDuration \in Nat \ {0}
  /\ Audible(AcceptedSeq) /\ Audible(RejectedSeq) /\ Audible(TimeoutSeq)

NoArg == Zero \* WORK_ARG(NULL)

(* The works that door_ctrl_event, the reader and the others schedule. *)
Work(cmd, arg) == [cmd |-> cmd, arg |-> arg]
BuzzerFinished == Work("BUZZER_FINISHED", NoArg)
IdleTimeout == Work("IDLE_TIMEOUT", NoArg)
Foreign == Work("FOREIGN", NoArg)
ReaderWorks ==
  {Work("KEY", k) : k \in Keys} \cup {Work("CARD", c) : c \in Cards}
    \cup {Work("ERROR", NoArg)}
NoWork == Work("NONE", NoArg)
Works == ReaderWorks \cup {BuzzerFinished, IdleTimeout, Foreign}

Busy == {"OPENING", "REJECTED", "TIMEOUT", "ERROR"}
DoorStates == {"IDLE", "READING_PIN"} \cup Busy

(* The states that end the processing: the idle timer is of no use there. *)
Settled == {"IDLE", "REJECTED", "OPENING", "ERROR"}

Sources == {"READER", "BUTTON"}

-----------------------------------------------------------------------------
VARIABLES
  state,      \* dc->state
  pin,        \* dc->pin, one key per nibble, the last key at PinDigits
  openStatus, \* dc->open_status, as the set of the sources whose bit is set
  openTrig,   \* dc->open_trigger, the lock
  ledTrig,    \* dc->led_trigger
  buzzer,     \* dc->buzzer_trigger
  idleArmed,  \* dc->idle_timer is pending
  btn,        \* dc->open_btn and the level of its pin
  queue,      \* the pending works, oldest first
  work,       \* the work the main loop took and has not executed
  pc,         \* where the main loop is
  keys,       \* history: digits handled since the PIN entry began
  request,    \* history: the request that was granted, until the lock moves
  lost        \* history: wake-ups dropped by a full queue, not made up since

doorVars == <<state, pin, keys, request>>
lockVars == <<openStatus, openTrig, ledTrig>>
queueVars == <<queue, lost>>
mainVars == <<work, pc>>
vars == <<doorVars, lockVars, buzzer, idleArmed, btn, queueVars, mainVars>>

NoRequest == [type |-> "NONE"]

-----------------------------------------------------------------------------
(* The run queue *)

(* The slot of a work is free again only when the main loop is about to    *)
(* execute it, so the work it has just taken still counts.                 *)
InUse == Len(queue) + (IF pc = "run" THEN 1 ELSE 0)

(* Mutant: the slot of the work just taken is not counted.                 *)
Schedule_SlotMiscounted(w) ==
  IF Len(queue) < MaxWorks
  THEN queue' = Append(queue, w) /\ UNCHANGED lost
  ELSE UNCHANGED queueVars

(* work_queue_schedule; its callers ignore -ENOMEM. *)
Schedule(w) ==
  IF InUse < MaxWorks
  THEN queue' = Append(queue, w) /\ UNCHANGED lost
  ELSE /\ lost' = lost \cup ({w} \cap {BuzzerFinished, IdleTimeout})
       /\ UNCHANGED queue

(* The atomic part of work_queue_run_once. *)
TakeWork ==
  /\ pc = "loop"
  /\ queue # << >>
  /\ work' = Head(queue)
  /\ queue' = Tail(queue)
  /\ pc' = "run"
  /\ UNCHANGED <<doorVars, lockVars, buzzer, idleArmed, btn, lost>>

-----------------------------------------------------------------------------
(* The lock *)

(* Mutant: every release starts the open time, other source or not.        *)
SetOpen_AnyReleaseStarts(source, on) ==
  LET status == IF on THEN openStatus \cup {source} ELSE openStatus \ {source}
  IN  /\ openStatus' = status
      /\ IF on
         THEN openTrig' = TriggerSet(TRUE) /\ ledTrig' = TriggerSet(TRUE)
         ELSE /\ openTrig' = TriggerStart(OpenTime)
              /\ ledTrig' = TriggerStart(OpenTime)

(* Mutant: the lock falls back at once when the last source releases it.   *)
SetOpen_StopAtOnce(source, on) ==
  LET status == IF on THEN openStatus \cup {source} ELSE openStatus \ {source}
  IN  /\ openStatus' = status
      /\ IF (status = {}) = (openStatus = {})
         THEN UNCHANGED <<openTrig, ledTrig>>
         ELSE openTrig' = TriggerSet(on) /\ ledTrig' = TriggerSet(on)

(* door_ctrl_set_open: the triggers move only when the first source asks   *)
(* for the door or the last one stops asking.                              *)
SetOpen(source, on) ==
  LET status == IF on THEN openStatus \cup {source} ELSE openStatus \ {source}
  IN  /\ openStatus' = status
      /\ \/ /\ (status = {}) = (openStatus = {})
            /\ UNCHANGED <<openTrig, ledTrig>>
         \/ /\ openStatus = {} /\ status # {}
            /\ openTrig' = TriggerSet(TRUE)
            /\ ledTrig' = TriggerSet(TRUE)
         \/ /\ openStatus # {} /\ status = {}
            /\ openTrig' = TriggerStart(OpenTime)
            /\ ledTrig' = TriggerStart(OpenTime)

-----------------------------------------------------------------------------
(* on_event.  It is cut where an interrupt can tell: after the state is    *)
(* set and the idle timer descheduled, after the queue is purged of        *)
(* IDLE_TIMEOUT, and between the two calls of door_ctrl_set_open.          *)

(* What is left to do once the queue is purged. *)
AfterSetState(s) ==
  CASE s = "IDLE" -> "loop" [] s = "OPENING" -> "open" [] OTHER -> "buzz"

(* Mutant: the timer is descheduled, the event it already queued is not.   *)
SetState_NoPurge(s) ==
  /\ state' = s
  /\ idleArmed' = IF s # state /\ s \in Settled THEN FALSE ELSE idleArmed
  /\ pc' = AfterSetState(s)

(* door_ctrl_set_state up to timer_deschedule. *)
SetState(s) ==
  /\ state' = s
  /\ IF s # state /\ s \in Settled
     THEN idleArmed' = FALSE /\ pc' = "purge"
     ELSE UNCHANGED idleArmed /\ pc' = AfterSetState(s)

(* The work being executed. *)
Executing(cmd) == pc = "run" /\ work.cmd = cmd

OnForeign ==
  /\ Executing("FOREIGN")
  /\ work' = NoWork
  /\ pc' = "loop"
  /\ UNCHANGED <<doorVars, lockVars, buzzer, idleArmed, btn, queueVars>>

(* Mutant: only an opened door goes back to IDLE.                          *)
OnBuzzerFinished_OnlyOpening ==
  /\ Executing("BUZZER_FINISHED")
  /\ work' = NoWork
  /\ IF state = "OPENING" THEN SetState("IDLE") ELSE pc' = "loop" /\ UNCHANGED <<state, idleArmed>>
  /\ UNCHANGED <<pin, keys, request, lockVars, buzzer, btn, queueVars>>

OnBuzzerFinished ==
  /\ Executing("BUZZER_FINISHED")
  /\ work' = NoWork
  /\ SetState("IDLE")
  /\ UNCHANGED <<pin, keys, request, lockVars, buzzer, btn, queueVars>>

OnIdleTimeout ==
  /\ Executing("IDLE_TIMEOUT")
  /\ work' = NoWork
  /\ SetState("TIMEOUT")
  /\ UNCHANGED <<pin, keys, request, lockVars, buzzer, btn, queueVars>>

OnReaderError ==
  /\ Executing("ERROR")
  /\ work' = NoWork
  /\ SetState("ERROR")
  /\ UNCHANGED <<pin, keys, request, lockVars, buzzer, btn, queueVars>>

(* Mutant: the result of check_key is taken for a truth value.             *)
CheckKey_Inverted(type, card, p) ==
  LET req == [type |-> type, card |-> card, pin |-> p]
  IN  IF req \notin Granted
      THEN SetState("OPENING") /\ request' = req
      ELSE SetState("REJECTED") /\ UNCHANGED request

(* door_ctrl_check_key, then door_ctrl_open or door_ctrl_reject. *)
CheckKey(type, card, p) ==
  LET req == [type |-> type, card |-> card, pin |-> p]
  IN  IF req \in Granted
      THEN SetState("OPENING") /\ request' = req
      ELSE SetState("REJECTED") /\ UNCHANGED request

ZeroPin == [i \in 1 .. PinDigits |-> Zero]

(* The pin register after a key: cleared to 1s by the first key. *)
FirstDigit(k) == [i \in 1 .. PinDigits |-> IF i = PinDigits THEN k ELSE Filler]
NextDigit(p, k) == [i \in 1 .. PinDigits |-> IF i = PinDigits THEN k ELSE p[i + 1]]

OnEnterIdle ==
  /\ Executing("KEY") /\ work.arg = Enter
  /\ work' = NoWork
  /\ state = "IDLE"
  /\ SetState("ERROR")
  /\ UNCHANGED <<pin, keys, request, lockVars, buzzer, btn, queueVars>>

(* Mutant: the first digit is shifted into the PIN that was left behind.   *)
OnDigitIdle_PinNotReset ==
  /\ Executing("KEY") /\ work.arg \in Digits
  /\ work' = NoWork
  /\ state = "IDLE"
  /\ state' = "READING_PIN"
  /\ pin' = NextDigit(pin, work.arg)
  /\ keys' = 1
  /\ idleArmed' = TRUE
  /\ lost' = lost \ {IdleTimeout}
  /\ pc' = "loop"
  /\ UNCHANGED <<request, lockVars, buzzer, btn, queue>>

(* Mutant: the idle timer is started by the second digit only.             *)
OnDigitIdle_TimerNotStarted ==
  /\ Executing("KEY") /\ work.arg \in Digits
  /\ work' = NoWork
  /\ state = "IDLE"
  /\ state' = "READING_PIN"
  /\ pin' = FirstDigit(work.arg)
  /\ keys' = 1
  /\ pc' = "loop"
  /\ UNCHANGED <<request, lockVars, buzzer, idleArmed, btn, queueVars>>

OnDigitIdle ==
  /\ Executing("KEY") /\ work.arg \in Digits
  /\ work' = NoWork
  /\ state = "IDLE"
  /\ state' = "READING_PIN"
  /\ pin' = FirstDigit(work.arg)
  /\ keys' = 1
  /\ idleArmed' = TRUE
  /\ lost' = lost \ {IdleTimeout}
  /\ pc' = "loop"
  /\ UNCHANGED <<request, lockVars, buzzer, btn, queue>>

OnCardIdle ==
  /\ Executing("CARD")
  /\ work' = NoWork
  /\ state = "IDLE"
  /\ CheckKey("CARD", work.arg, ZeroPin)
  /\ UNCHANGED <<pin, keys, lockVars, buzzer, btn, queueVars>>

(* A card or ENTER ends the PIN entry; the pin is erased after the check. *)
OnPinComplete ==
  /\ state = "READING_PIN"
  /\ \/ Executing("CARD") /\ CheckKey("CARD_AND_PIN", work.arg, pin)
     \/ Executing("KEY") /\ work.arg = Enter /\ CheckKey("PIN", NoCard, pin)
  /\ work' = NoWork
  /\ pin' = ZeroPin
  /\ keys' = 0
  /\ UNCHANGED <<lockVars, buzzer, btn, queueVars>>

OnEscReading ==
  /\ Executing("KEY") /\ work.arg = Esc
  /\ work' = NoWork
  /\ state = "READING_PIN"
  /\ SetState("IDLE")
  /\ UNCHANGED <<pin, keys, request, lockVars, buzzer, btn, queueVars>>

OnDigitReading ==
  /\ Executing("KEY") /\ work.arg \in Digits
  /\ work' = NoWork
  /\ state = "READING_PIN"
  /\ pin' = NextDigit(pin, work.arg)
  /\ keys' = IF keys < PinDigits THEN keys + 1 ELSE keys
  /\ idleArmed' = TRUE
  /\ lost' = lost \ {IdleTimeout}
  /\ pc' = "loop"
  /\ UNCHANGED <<state, request, lockVars, buzzer, btn, queue>>

(* ESC in IDLE; any key or card while the door is busy. *)
OnIgnored ==
  /\ Executing("KEY") \/ Executing("CARD")
  /\ work' = NoWork
  /\ state \in Busy \/ (state = "IDLE" /\ work = Work("KEY", Esc))
  /\ pc' = "loop"
  /\ UNCHANGED <<doorVars, lockVars, buzzer, idleArmed, btn, queueVars>>

OnEvent ==
  \/ OnForeign \/ OnBuzzerFinished \/ OnIdleTimeout \/ OnReaderError
  \/ OnEnterIdle \/ OnDigitIdle \/ OnCardIdle
  \/ OnPinComplete \/ OnEscReading \/ OnDigitReading \/ OnIgnored

(* The end of door_ctrl_set_state: work_queue_deschedule. *)
PurgeIdleTimeout ==
  /\ pc = "purge"
  /\ queue' = Without(queue, IdleTimeout)
  /\ pc' = AfterSetState(state)
  /\ UNCHANGED <<doorVars, lockVars, buzzer, idleArmed, btn, lost, work>>

(* The two calls of door_ctrl_set_open in door_ctrl_open. *)
OpenFromReader ==
  /\ pc = "open"
  /\ SetOpen("READER", TRUE)
  /\ pc' = "close"
  /\ UNCHANGED <<doorVars, buzzer, idleArmed, btn, queueVars, work>>

(* Mutant: door_ctrl_open leaves the reader's bit set.                     *)
ReleaseFromReader_Forgotten ==
  /\ pc = "close"
  /\ request' = NoRequest
  /\ pc' = "buzz"
  /\ UNCHANGED <<state, pin, keys, lockVars, buzzer, idleArmed, btn, queueVars, work>>

ReleaseFromReader ==
  /\ pc = "close"
  /\ SetOpen("READER", FALSE)
  /\ request' = NoRequest
  /\ pc' = "buzz"
  /\ UNCHANGED <<state, pin, keys, buzzer, idleArmed, btn, queueVars, work>>

BuzzerSeq(s) ==
  CASE s = "OPENING" -> AcceptedSeq
    [] s = "REJECTED" -> RejectedSeq
    [] s = "TIMEOUT" -> TimeoutSeq
    [] OTHER -> <<ErrorDuration>>

(* The last call of door_ctrl_open, _reject, _timeout and _error. *)
StartBuzzer ==
  /\ pc = "buzz"
  /\ buzzer' = TriggerStartSeq(BuzzerSeq(state))
  /\ lost' = lost \ {BuzzerFinished}
  /\ pc' = "loop"
  /\ UNCHANGED <<doorVars, lockVars, idleArmed, btn, queue, work>>

MainLoop ==
  TakeWork \/ OnEvent \/ PurgeIdleTimeout \/ OpenFromReader
    \/ ReleaseFromReader \/ StartBuzzer

-----------------------------------------------------------------------------
(* The timer interrupt *)

OnIdleTimer ==
  /\ idleArmed
  /\ idleArmed' = FALSE
  /\ Schedule(IdleTimeout)
  /\ UNCHANGED <<doorVars, lockVars, buzzer, btn, mainVars>>

OnBuzzerTimer ==
  /\ buzzer.armed
  /\ buzzer' = TriggerOnTimeout(buzzer)
  /\ IF TriggerFinishes(buzzer)
     THEN Schedule(BuzzerFinished)
     ELSE UNCHANGED queueVars
  /\ UNCHANGED <<doorVars, lockVars, idleArmed, btn, mainVars>>

(* The lock and LED triggers have no on_finished worker. *)
OnOpenTimer ==
  /\ openTrig.armed
  /\ openTrig' = TriggerOnTimeout(openTrig)
  /\ UNCHANGED <<doorVars, openStatus, ledTrig, buzzer, idleArmed, btn,
                 queueVars, mainVars>>

OnLedTimer ==
  /\ ledTrig.armed
  /\ ledTrig' = TriggerOnTimeout(ledTrig)
  /\ UNCHANGED <<doorVars, openStatus, openTrig, buzzer, idleArmed, btn,
                 queueVars, mainVars>>

(* Mutant: the first run reports a change only, like the others.           *)
OnDebounceTimer_NoFirstReport ==
  /\ btn.armed
  /\ btn' = [level |-> btn.level, next |-> btn.next, state |-> btn.next,
             inited |-> TRUE, armed |-> FALSE]
  /\ IF btn.state # btn.next
     THEN SetOpen("BUTTON", btn.next)
     ELSE UNCHANGED lockVars
  /\ UNCHANGED <<doorVars, buzzer, idleArmed, queueVars, mainVars>>

(* button_timeout: the first run always reports the state. *)
OnDebounceTimer ==
  /\ btn.armed
  /\ btn' = [level |-> btn.level, next |-> btn.next, state |-> btn.next,
             inited |-> TRUE, armed |-> FALSE]
  /\ IF ~btn.inited \/ btn.state # btn.next
     THEN SetOpen("BUTTON", btn.next)
     ELSE UNCHANGED lockVars
  /\ UNCHANGED <<doorVars, buzzer, idleArmed, queueVars, mainVars>>

TimerInterrupt ==
  OnIdleTimer \/ OnBuzzerTimer \/ OnOpenTimer \/ OnLedTimer \/ OnDebounceTimer

-----------------------------------------------------------------------------
(* The pin change interrupts *)

(* Someone presses or releases the button: button_isr. *)
OnButtonEdge ==
  /\ btn' = [level |-> ~btn.level, next |-> ~btn.level, state |-> btn.state,
             inited |-> btn.inited, armed |-> TRUE]
  /\ UNCHANGED <<doorVars, lockVars, buzzer, idleArmed, queueVars, mainVars>>

(* The reader delivers a key, a card or an error. *)
OnReader ==
  /\ \E w \in ReaderWorks : Schedule(w)
  /\ UNCHANGED <<doorVars, lockVars, buzzer, idleArmed, btn, mainVars>>

(* Another user of the queue schedules a work. *)
OnOther ==
  /\ Schedule(Foreign)
  /\ UNCHANGED <<doorVars, lockVars, buzzer, idleArmed, btn, mainVars>>

Outside == OnButtonEdge \/ OnReader \/ OnOther

-----------------------------------------------------------------------------
(* What door_ctrl_init leaves: everything cleared, the button's debounce   *)
(* timer pending so that its first state is reported.                      *)
Init ==
  /\ state = "IDLE"
  /\ pin = ZeroPin /\ keys = 0
  /\ request = NoRequest
  /\ openStatus = {}
  /\ openTrig = TriggerStop /\ ledTrig = TriggerStop /\ buzzer = TriggerStop
  /\ idleArmed = FALSE
  /\ \E b \in BOOLEAN :
       btn = [level |-> b, next |-> b, state |-> b, inited |-> FALSE, armed |-> TRUE]
  /\ queue = << >> /\ lost = {}
  /\ work = NoWork /\ pc = "loop"

Next == MainLoop \/ TimerInterrupt \/ Outside

Spec == Init /\ [][Next]_vars

-----------------------------------------------------------------------------
(* Properties *)

(* Every variable has the values the code gives it, and no work is ever    *)
(* accepted beyond the slots of wq_storage.                                *)
TypeOK ==
  /\ state \in DoorStates
  /\ pin \in Pins
  /\ openStatus \in SUBSET Sources
  /\ openTrig \in TriggerState /\ ledTrig \in TriggerState
  /\ buzzer \in TriggerState
  /\ idleArmed \in BOOLEAN
  /\ btn \in [level : BOOLEAN, next : BOOLEAN, state : BOOLEAN,
              inited : BOOLEAN, armed : BOOLEAN]
  /\ queue \in Seq(Works)
  /\ work \in Works \cup {NoWork}
  /\ pc \in {"loop", "run", "purge", "open", "close", "buzz"}
  /\ keys \in 0 .. PinDigits
  /\ request \in AccessRequest \cup {NoRequest}
  /\ InUse <= MaxWorks
  /\ lost \in SUBSET {BuzzerFinished, IdleTimeout}

(* Work w is in the queue or in the hands of the main loop. *)
Pending(w) == Queued(queue, w) \/ work = w

(* Nothing of the idle timer outlives the processing it guarded: outside   *)
(* PIN entry and TIMEOUT the timer is stopped and no IDLE_TIMEOUT is left, *)
(* not even one the interrupt queued while door_ctrl_set_state was at      *)
(* work, so a stale timeout can never turn an accepted card into TIMEOUT.  *)
NoStaleTimeout ==
  state \in Settled =>
    /\ ~idleArmed
    /\ pc # "purge" => ~Pending(IdleTimeout)

(* A PIN entry never waits for ever: from the first digit on the idle      *)
(* timer runs or its event is on its way, unless a full queue dropped it.  *)
PinEntryWatched ==
  state = "READING_PIN" /\ pc \in {"loop", "run"} =>
    idleArmed \/ Pending(IdleTimeout) \/ IdleTimeout \in lost

(* A busy door comes back: while it ignores keys and cards the buzzer      *)
(* plays or BUZZER_FINISHED is on its way, unless a full queue dropped it. *)
BusyWillFinish ==
  state \in Busy /\ pc \in {"loop", "run"} =>
    buzzer.armed \/ Pending(BuzzerFinished) \/ BuzzerFinished \in lost

(* Whatever the order of cards, button edges and timers, the lock is       *)
(* driven exactly while a source asks for it or the open time runs, the    *)
(* LED likewise, and the reader asks only inside door_ctrl_open.           *)
LockDriven ==
  /\ openTrig.gpio <=> openStatus # {} \/ openTrig.armed
  /\ ledTrig.gpio <=> openStatus # {} \/ ledTrig.armed
  /\ "READER" \in openStatus => pc = "close"

(* Once the debounce timer is done the button's bit is the real button.    *)
ButtonFollowed ==
  ~btn.armed => ("BUTTON" \in openStatus <=> btn.level)

(* A PIN is checked with the keys of this entry only: as many nibbles are  *)
(* digits as keys were pressed since the entry began (at most PinDigits,   *)
(* the last ones), and the others are filler, so a missing leading zero is *)
(* detected and nothing of an abandoned entry is left.                     *)
PinIsOfThisEntry ==
  state = "READING_PIN" =>
    /\ keys > 0
    /\ \A i \in 1 .. PinDigits : pin[i] = Filler <=> i <= PinDigits - keys

(* The lock is switched on only by a granted request, still the one that   *)
(* was checked when the trigger is reached, or by a button press that      *)
(* outlasted the debounce delay.                                           *)
OpensOnlyIfAllowed ==
  [][~openTrig.gpio /\ openTrig'.gpio =>
       \/ pc = "open" /\ request \in Granted
       \/ btn.armed /\ btn.next /\ btn'.state]_vars

(* Once driven, the lock is released by the end of the open time alone:    *)
(* no later card, reject, error or PIN timeout cuts it short.              *)
ReleasedOnlyByTimer ==
  [][openTrig.gpio /\ ~openTrig'.gpio =>
       openStatus' = {} /\ (openTrig.armed \/ OpenTime = 0)]_vars

=============================================================================
