--------------------------- MODULE DoorCtrlProofs ---------------------------
(***************************************************************************)
(* The safety properties of DoorCtrl, proved for every queue size, keypad, *)
(* PIN length, set of granted requests, open time and buzzer sequences.    *)
(***************************************************************************)
EXTENDS DoorCtrl, RunQueueLemmas, WellFoundedInduction

-----------------------------------------------------------------------------
(* The functions of trigger.c, for every sequence *)

(* The loop of trigger_on_timeout stops at a step of the sequence that is  *)
(* not empty, when one is left.                                            *)
LEMMA NextStepExists ==
  ASSUME NEW tr \in TriggerState, StepsLeft(tr) # {}
  PROVE  NextStep(tr) \in StepsLeft(tr)
<1>1. StepsLeft(tr) \subseteq Nat
  BY LenProperties DEF StepsLeft, TriggerState
<1>2. \A r, p \in Nat : r < p => <<r, p>> \in OpToRel(<, Nat)
  BY Zenon DEF OpToRel
<1>3. PICK p \in StepsLeft(tr) :
        \A r \in StepsLeft(tr) : ~(<<r, p>> \in OpToRel(<, Nat))
  BY <1>1, WFMin, NatLessThanWellFounded, Zenon
<1>4. \A r \in StepsLeft(tr) : ~(r < p)
  BY <1>1, <1>2, <1>3, Zenon
<1>5. \A r \in StepsLeft(tr) : p <= r
  BY <1>1, <1>4
<1> QED BY <1>5 DEF NextStep

(* A trigger whose timer expired is a well-formed trigger again.           *)
LEMMA TriggerOnTimeoutType ==
  ASSUME NEW tr \in TriggerState
  PROVE  TriggerOnTimeout(tr) \in TriggerState
<1>1. CASE StepsLeft(tr) = {}
  BY <1>1 DEF TriggerOnTimeout, TriggerStop, TriggerSet, TriggerState
<1>2. CASE StepsLeft(tr) # {}
  <2>1. NextStep(tr) \in Nat
    BY <1>2, NextStepExists, LenProperties DEF StepsLeft, TriggerState
  <2> QED BY <1>2, <2>1 DEF TriggerOnTimeout, TriggerState
<1> QED BY <1>1, <1>2

(* Starting a sequence that has a step leaves the timer pending; so the    *)
(* sequence will report its end.                                           *)
LEMMA TriggerStartSeqArms ==
  ASSUME NEW seq \in Seq(Nat), NEW i \in 1 .. Len(seq), seq[i] # 0
  PROVE  /\ TriggerStartSeq(seq) \in TriggerState
         /\ TriggerStartSeq(seq).armed
<1> DEFINE t == [seq |-> seq, pos |-> 0, gpio |-> FALSE, armed |-> FALSE]
<1>1. t \in TriggerState /\ t.seq = seq /\ t.pos = 0
  BY DEF TriggerState
<1>2. i - 1 \in StepsLeft(t)
  BY <1>1, LenProperties DEF StepsLeft
<1>3. TriggerOnTimeout(t).armed
  BY <1>2 DEF TriggerOnTimeout
<1> QED BY <1>1, <1>3, TriggerOnTimeoutType DEF TriggerStartSeq

(* A trigger that plays the single step of trigger_start.                  *)
Running(d) == [seq |-> <<d>>, pos |-> 1, gpio |-> TRUE, armed |-> TRUE]

(* trigger_start switches the output on for one step, or off when the      *)
(* duration is 0.                                                          *)
LEMMA TriggerStartOn ==
  ASSUME NEW d \in Nat
  PROVE  TriggerStart(d) = IF d = 0 THEN TriggerStop ELSE Running(d)
<1> DEFINE t == [seq |-> <<d>>, pos |-> 0, gpio |-> FALSE, armed |-> FALSE]
<1>1. t \in TriggerState /\ t.seq = <<d>> /\ t.pos = 0
  BY DEF TriggerState
<1>2. Len(<<d>>) = 1 /\ <<d>>[1] = d
  OBVIOUS
<1>3. StepsLeft(t) = IF d = 0 THEN {} ELSE {0}
  BY <1>1, <1>2 DEF StepsLeft
<1>4. CASE d = 0
  BY <1>3, <1>4 DEF TriggerStart, TriggerStartSeq, TriggerOnTimeout
<1>5. CASE d # 0
  <2>1. NextStep(t) = 0
    BY <1>1, <1>3, <1>5, NextStepExists
  <2>2. NextStep(t) + 1 = 1 /\ (NextStep(t) % 2 = 0) = TRUE
    BY <2>1
  <2>3. StepsLeft(t) # {}
    BY <1>3, <1>5
  <2>4. TriggerOnTimeout(t) = Running(d)
    <3> HIDE DEF t
    <3>1. TriggerOnTimeout(t) =
            [seq |-> t.seq, pos |-> 1, gpio |-> TRUE, armed |-> TRUE]
      BY <2>2, <2>3, Zenon DEF TriggerOnTimeout
    <3> QED BY <1>1, <3>1 DEF Running
  <2> QED BY <1>5, <2>4 DEF TriggerStart, TriggerStartSeq
<1> QED BY <1>4, <1>5

(* The end of that step switches the output off.                           *)
LEMMA TriggerRunningEnds ==
  ASSUME NEW d \in Nat
  PROVE  TriggerOnTimeout(Running(d)) = TriggerStop
<1>1. Running(d).seq = <<d>> /\ Running(d).pos = 1
  BY DEF Running
<1>2. Len(<<d>>) = 1
  OBVIOUS
<1>3. StepsLeft(Running(d)) = {}
  BY <1>1, <1>2 DEF StepsLeft
<1> QED BY <1>3 DEF TriggerOnTimeout

-----------------------------------------------------------------------------
(* The run queue *)

(* Scheduling a work keeps the queue well formed and within its slots;     *)
(* what was queued stays queued, and a wake-up is queued or known lost.    *)
LEMMA ScheduleProperties ==
  ASSUME TypeOK, NEW w \in Works, Schedule(w)
  PROVE  /\ queue' \in Seq(Works)
         /\ lost' \in SUBSET {BuzzerFinished, IdleTimeout}
         /\ Len(queue') + (IF pc = "run" THEN 1 ELSE 0) <= MaxWorks
         /\ \A v : Queued(queue, v) => Queued(queue', v)
         /\ \A v : Queued(queue', v) => Queued(queue, v) \/ v = w
         /\ lost \subseteq lost'
         /\ w \in {BuzzerFinished, IdleTimeout} => Queued(queue', w) \/ w \in lost'
<1>1. /\ queue \in Seq(Works) /\ Len(queue) \in Nat
      /\ DOMAIN queue = 1 .. Len(queue)
      /\ lost \in SUBSET {BuzzerFinished, IdleTimeout}
      /\ InUse <= MaxWorks /\ MaxWorks \in Nat
  BY LenProperties, ConstantsAssumption DEF TypeOK
<1>2. CASE InUse < MaxWorks
  <2>1. queue' = Append(queue, w) /\ lost' = lost
    BY <1>2 DEF Schedule
  <2>2. /\ queue' \in Seq(Works)
        /\ Len(queue') = Len(queue) + 1
        /\ DOMAIN queue' = 1 .. Len(queue) + 1
        /\ \A i \in 1 .. Len(queue) : queue'[i] = queue[i]
        /\ queue'[Len(queue) + 1] = w
    BY <1>1, <2>1, AppendProperties, LenProperties
  <2>3. \A v : Queued(queue, v) => Queued(queue', v)
    BY <1>1, <2>2 DEF Queued
  <2>4. \A v : Queued(queue', v) => Queued(queue, v) \/ v = w
    BY <1>1, <2>2 DEF Queued
  <2>5. Queued(queue', w)
    BY <1>1, <2>2 DEF Queued
  <2> QED BY <1>1, <1>2, <2>1, <2>2, <2>3, <2>4, <2>5 DEF InUse
<1>3. CASE ~(InUse < MaxWorks)
  <2>1. queue' = queue /\ lost' = lost \cup ({w} \cap {BuzzerFinished, IdleTimeout})
    BY <1>3 DEF Schedule
  <2> QED BY <1>1, <2>1 DEF InUse
<1> QED BY <1>2, <1>3

(* Taking a work moves it from the head of the queue to the main loop.     *)
LEMMA TakeWorkProperties ==
  ASSUME TypeOK, TakeWork
  PROVE  /\ work' \in Works
         /\ queue' \in Seq(Works)
         /\ Len(queue') + 1 <= MaxWorks
         /\ \A v : Queued(queue, v) => Queued(queue', v) \/ work' = v
         /\ \A v : Queued(queue', v) \/ work' = v => Queued(queue, v)
<1>1. /\ queue \in Seq(Works) /\ queue # << >> /\ Len(queue) \in Nat
      /\ DOMAIN queue = 1 .. Len(queue)
      /\ InUse <= MaxWorks /\ MaxWorks \in Nat
  BY LenProperties, ConstantsAssumption DEF TypeOK, TakeWork
<1>2. /\ work' = queue[1] /\ work' \in Works
      /\ queue' \in Seq(Works)
      /\ Len(queue') = Len(queue) - 1
      /\ DOMAIN queue' = 1 .. Len(queue) - 1
      /\ \A i \in 1 .. Len(queue) - 1 : queue'[i] = queue[i + 1]
  BY <1>1, HeadTailProperties, LenProperties DEF TakeWork
<1>3. Len(queue) > 0
  BY <1>1, EmptySeq
<1>4. ASSUME NEW v, Queued(queue, v)
      PROVE  Queued(queue', v) \/ work' = v
  <2>1. PICK i \in 1 .. Len(queue) : queue[i] = v
    BY <1>1, <1>4 DEF Queued
  <2>2. CASE i = 1
    BY <1>2, <2>1, <2>2
  <2>3. CASE i # 1
    <3>1. i - 1 \in 1 .. Len(queue) - 1 /\ queue'[i - 1] = queue[i]
      BY <1>1, <1>2, <2>3
    <3> QED BY <1>2, <2>1, <3>1 DEF Queued
  <2> QED BY <2>2, <2>3
<1>5. ASSUME NEW v, Queued(queue', v)
      PROVE  Queued(queue, v)
  <2>1. PICK i \in 1 .. Len(queue) - 1 : queue'[i] = v
    BY <1>2, <1>5 DEF Queued
  <2>2. i + 1 \in 1 .. Len(queue) /\ queue[i + 1] = v
    BY <1>1, <1>2, <2>1
  <2> QED BY <1>1, <2>2 DEF Queued
<1>6. Queued(queue, work')
  BY <1>1, <1>2, <1>3 DEF Queued
<1>7. Len(queue') + 1 <= MaxWorks
  BY <1>1, <1>2 DEF InUse, TakeWork
<1> QED BY <1>2, <1>4, <1>5, <1>6, <1>7

-----------------------------------------------------------------------------
(* Types *)

(* Every sequence the buzzer is started with makes some noise.             *)
LEMMA BuzzerSeqArms ==
  ASSUME NEW s
  PROVE  /\ TriggerStartSeq(BuzzerSeq(s)) \in TriggerState
         /\ TriggerStartSeq(BuzzerSeq(s)).armed
<1>1. Audible(<<ErrorDuration>>)
  <2>1. /\ <<ErrorDuration>> \in Seq(Nat) /\ Len(<<ErrorDuration>>) = 1
        /\ <<ErrorDuration>>[1] # 0
    BY ConstantsAssumption
  <2> QED BY <2>1 DEF Audible
<1>2. /\ Audible(AcceptedSeq) /\ Audible(RejectedSeq) /\ Audible(TimeoutSeq)
  BY ConstantsAssumption
<1>3. Audible(BuzzerSeq(s))
  <2>1. CASE s = "OPENING"
    BY <1>2, <2>1 DEF BuzzerSeq
  <2>2. CASE s = "REJECTED"
    BY <1>2, <2>2 DEF BuzzerSeq
  <2>3. CASE s = "TIMEOUT"
    BY <1>2, <2>3 DEF BuzzerSeq
  <2>4. CASE s \notin {"OPENING", "REJECTED", "TIMEOUT"}
    BY <1>1, <2>4 DEF BuzzerSeq
  <2> QED BY <2>1, <2>2, <2>3, <2>4
<1>4. PICK i \in 1 .. Len(BuzzerSeq(s)) : BuzzerSeq(s)[i] # 0
  BY <1>3 DEF Audible
<1> QED BY <1>3, <1>4, TriggerStartSeqArms DEF Audible

(* door_ctrl_set_open leaves well-formed triggers.                         *)
LEMMA SetOpenType ==
  ASSUME TypeOK, NEW src \in Sources, NEW on \in BOOLEAN, SetOpen(src, on)
  PROVE  /\ openStatus' \in SUBSET Sources
         /\ openTrig' \in TriggerState /\ ledTrig' \in TriggerState
<1>1. /\ TriggerSet(TRUE) \in TriggerState /\ TriggerStop \in TriggerState
      /\ TriggerStart(OpenTime) \in TriggerState
  <2>1. TriggerSet(TRUE) \in TriggerState /\ TriggerStop \in TriggerState
    BY EmptySeq DEF TriggerSet, TriggerStop, TriggerState
  <2>2. OpenTime \in Nat
    BY ConstantsAssumption
  <2>3. <<OpenTime>> \in Seq(Nat)
    BY <2>2
  <2>4. Running(OpenTime) \in TriggerState
    BY <2>3 DEF Running, TriggerState
  <2> QED BY <2>1, <2>2, <2>4, TriggerStartOn
<1> QED BY <1>1 DEF SetOpen, TypeOK

(* door_ctrl_set_state.                                                    *)
LEMMA SetStateType ==
  ASSUME TypeOK, NEW s \in DoorStates, SetState(s)
  PROVE  /\ state' = s /\ idleArmed' \in BOOLEAN
         /\ pc' \in {"loop", "purge", "open", "buzz"}
BY DEF SetState, AfterSetState, TypeOK

(* The pin register holds nibbles.                                         *)
LEMMA PinType ==
  /\ ZeroPin \in Pins
  /\ \A k \in Digits : FirstDigit(k) \in Pins
  /\ \A p \in Pins, k \in Digits : NextDigit(p, k) \in Pins
<1>1. PinDigits \in Nat \ {0} /\ Zero \in Digits
  BY ConstantsAssumption
<1>2. ZeroPin \in Pins
  BY <1>1 DEF ZeroPin, Pins, Nibbles
<1>3. ASSUME NEW k \in Digits
      PROVE  FirstDigit(k) \in Pins
  BY <1>1 DEF FirstDigit, Pins, Nibbles
<1>4. ASSUME NEW p \in Pins, NEW k \in Digits
      PROVE  NextDigit(p, k) \in Pins
  BY <1>1 DEF NextDigit, Pins, Nibbles
<1> QED BY <1>2, <1>3, <1>4

(* check_key and what it leads to.                                         *)
LEMMA CheckKeyType ==
  ASSUME TypeOK, NEW t, NEW c, NEW p, CheckKey(t, c, p)
  PROVE  /\ state' \in {"OPENING", "REJECTED"} /\ idleArmed' \in BOOLEAN
         /\ pc' \in {"loop", "purge", "open", "buzz"}
         /\ request' \in AccessRequest \cup {NoRequest}
<1> DEFINE req == [type |-> t, card |-> c, pin |-> p]
<1>1. CASE req \in Granted
  <2>1. SetState("OPENING") /\ request' = req
    BY <1>1 DEF CheckKey
  <2>2. req \in AccessRequest
    BY <1>1, ConstantsAssumption
  <2>3. "OPENING" \in DoorStates
    BY DEF DoorStates, Busy
  <2> QED BY <2>1, <2>2, <2>3, SetStateType
<1>2. CASE req \notin Granted
  <2>1. SetState("REJECTED") /\ request' = request
    BY <1>2 DEF CheckKey
  <2>2. "REJECTED" \in DoorStates
    BY DEF DoorStates, Busy
  <2> QED BY <2>1, <2>2, SetStateType DEF TypeOK
<1> QED BY <1>1, <1>2

(* The works that the handlers schedule.                                   *)
LEMMA WorksType ==
  /\ ReaderWorks \subseteq Works
  /\ BuzzerFinished \in Works /\ IdleTimeout \in Works /\ Foreign \in Works
  /\ NoWork \notin Works
BY DEF Works, ReaderWorks, BuzzerFinished, IdleTimeout, Foreign, NoWork, Work

(* A step of the main loop or of an interrupt keeps the types.             *)
LEMMA TypeStep ==
  ASSUME TypeOK, [Next]_vars
  PROVE  TypeOK'
<1> USE DEF DoorStates, Busy
<1>0. Len(queue) \in Nat /\ MaxWorks \in Nat \ {0}
  BY LenProperties, ConstantsAssumption DEF TypeOK
<1>1. CASE TakeWork
  BY <1>0, <1>1, TakeWorkProperties, LenProperties DEF TypeOK, InUse, TakeWork, doorVars, lockVars
<1>2. CASE OnForeign
  BY <1>0, <1>2 DEF TypeOK, InUse, OnForeign, Executing, doorVars, lockVars, queueVars
<1>3. CASE OnBuzzerFinished
  <2>1. SetState("IDLE")
    BY <1>3 DEF OnBuzzerFinished
  <2> QED BY <1>0, <1>3, <2>1, SetStateType DEF TypeOK, InUse, OnBuzzerFinished, Executing, lockVars, queueVars
<1>4. CASE OnIdleTimeout
  <2>1. SetState("TIMEOUT")
    BY <1>4 DEF OnIdleTimeout
  <2> QED BY <1>0, <1>4, <2>1, SetStateType DEF TypeOK, InUse, OnIdleTimeout, Executing, lockVars, queueVars
<1>5. CASE OnReaderError
  <2>1. SetState("ERROR")
    BY <1>5 DEF OnReaderError
  <2> QED BY <1>0, <1>5, <2>1, SetStateType DEF TypeOK, InUse, OnReaderError, Executing, lockVars, queueVars
<1>6. CASE OnEnterIdle
  <2>1. SetState("ERROR")
    BY <1>6 DEF OnEnterIdle
  <2> QED BY <1>0, <1>6, <2>1, SetStateType DEF TypeOK, InUse, OnEnterIdle, Executing, lockVars, queueVars
<1>7. CASE OnEscReading
  <2>1. SetState("IDLE")
    BY <1>7 DEF OnEscReading
  <2> QED BY <1>0, <1>7, <2>1, SetStateType DEF TypeOK, InUse, OnEscReading, Executing, lockVars, queueVars
<1>8. CASE OnDigitIdle
  BY <1>0, <1>8, PinType, ConstantsAssumption DEF TypeOK, InUse, OnDigitIdle, Executing, lockVars
<1>9. CASE OnCardIdle
  <2>1. CheckKey("CARD", work.arg, ZeroPin)
    BY <1>9 DEF OnCardIdle
  <2> QED BY <1>0, <1>9, <2>1, CheckKeyType DEF TypeOK, InUse, OnCardIdle, Executing, lockVars, queueVars
<1>10. CASE OnPinComplete
  <2>1. \E t, c : CheckKey(t, c, pin)
    BY <1>10 DEF OnPinComplete
  <2>2. pc = "run"
    BY <1>10 DEF OnPinComplete, Executing
  <2>3. 0 \in 0 .. PinDigits
    BY ConstantsAssumption
  <2> QED BY <1>0, <1>10, <2>1, <2>2, <2>3, CheckKeyType, PinType DEF TypeOK, InUse, OnPinComplete, lockVars, queueVars
<1>11. CASE OnDigitReading
  <2>1. keys' \in 0 .. PinDigits
    BY <1>11, ConstantsAssumption DEF OnDigitReading, TypeOK
  <2> QED BY <1>0, <1>11, <2>1, PinType DEF TypeOK, InUse, OnDigitReading, Executing, lockVars
<1>12. CASE OnIgnored
  BY <1>0, <1>12 DEF TypeOK, InUse, OnIgnored, Executing, doorVars, lockVars, queueVars
<1>13. CASE PurgeIdleTimeout
  <2>1. queue' \in Seq(Works) /\ Len(queue') <= Len(queue)
    BY <1>13, WithoutProperties DEF PurgeIdleTimeout, TypeOK
  <2>2. pc' \in {"loop", "open", "buzz"}
    BY <1>13 DEF PurgeIdleTimeout, AfterSetState
  <2> QED BY <1>0, <1>13, <2>1, <2>2, LenProperties DEF TypeOK, InUse, PurgeIdleTimeout, doorVars, lockVars
<1>14. CASE OpenFromReader
  BY <1>0, <1>14, SetOpenType, ZenonT(60) DEF TypeOK, InUse, OpenFromReader, Sources, doorVars, queueVars
<1>15. CASE ReleaseFromReader
  BY <1>0, <1>15, SetOpenType DEF TypeOK, InUse, ReleaseFromReader, Sources, queueVars
<1>16. CASE StartBuzzer
  BY <1>0, <1>16, BuzzerSeqArms DEF TypeOK, InUse, StartBuzzer, doorVars, lockVars
<1>17. CASE OnIdleTimer
  <2>1. idleArmed' \in BOOLEAN /\ Schedule(IdleTimeout)
    BY <1>17 DEF OnIdleTimer
  <2>2. UNCHANGED <<doorVars, lockVars, buzzer, btn, mainVars>>
    BY <1>17 DEF OnIdleTimer
  <2> QED BY <1>0, <2>1, <2>2, ScheduleProperties, WorksType DEF TypeOK, InUse, doorVars, lockVars, mainVars
<1>18. CASE OnBuzzerTimer
  <2>1. buzzer' \in TriggerState
    BY <1>18, TriggerOnTimeoutType DEF TypeOK, OnBuzzerTimer
  <2>2. CASE Schedule(BuzzerFinished)
    BY <1>0, <1>18, <2>1, <2>2, ScheduleProperties, WorksType DEF TypeOK, InUse, OnBuzzerTimer, doorVars, lockVars, mainVars
  <2>3. CASE UNCHANGED queueVars
    BY <1>0, <1>18, <2>1, <2>3 DEF TypeOK, InUse, OnBuzzerTimer, doorVars, lockVars, mainVars, queueVars
  <2> QED BY <1>18, <2>2, <2>3 DEF OnBuzzerTimer
<1>19. CASE OnOpenTimer
  BY <1>0, <1>19, TriggerOnTimeoutType DEF TypeOK, InUse, OnOpenTimer, doorVars, queueVars, mainVars
<1>20. CASE OnLedTimer
  BY <1>0, <1>20, TriggerOnTimeoutType DEF TypeOK, InUse, OnLedTimer, doorVars, queueVars, mainVars
<1>21. CASE OnDebounceTimer
  <2>1. /\ openStatus' \in SUBSET Sources
        /\ openTrig' \in TriggerState /\ ledTrig' \in TriggerState
    <3>1. CASE SetOpen("BUTTON", btn.next)
      BY <3>1, SetOpenType DEF TypeOK, Sources
    <3>2. CASE UNCHANGED lockVars
      BY <3>2 DEF TypeOK, lockVars
    <3> QED BY <1>21, <3>1, <3>2 DEF OnDebounceTimer
  <2> QED BY <1>0, <1>21, <2>1 DEF TypeOK, InUse, OnDebounceTimer, doorVars, queueVars, mainVars
<1>22. CASE OnButtonEdge
  BY <1>0, <1>22 DEF TypeOK, InUse, OnButtonEdge, doorVars, lockVars, queueVars, mainVars
<1>23. CASE OnReader
  BY <1>0, <1>23, ScheduleProperties, WorksType DEF TypeOK, InUse, OnReader, doorVars, lockVars, mainVars
<1>24. CASE OnOther
  BY <1>0, <1>24, ScheduleProperties, WorksType DEF TypeOK, InUse, OnOther, doorVars, lockVars, mainVars
<1>25. CASE UNCHANGED vars
  BY <1>25 DEF TypeOK, InUse, vars, doorVars, lockVars, queueVars, mainVars
<1> QED
  BY <1>1, <1>2, <1>3, <1>4, <1>5, <1>6, <1>7, <1>8, <1>9, <1>10, <1>11, <1>12, <1>13, <1>14, <1>15, <1>16, <1>17, <1>18, <1>19, <1>20, <1>21, <1>22, <1>23, <1>24, <1>25
  DEF Next, MainLoop, OnEvent, TimerInterrupt, Outside

(* The initial state has the right types.                                  *)
LEMMA TypeInit == Init => TypeOK
<1> SUFFICES ASSUME Init PROVE TypeOK
  OBVIOUS
<1>1. /\ TriggerStop \in TriggerState
      /\ queue \in Seq(Works) /\ Len(queue) = 0
  BY EmptySeq DEF Init, TriggerStop, TriggerSet, TriggerState
<1>2. 0 \in 0 .. PinDigits /\ 0 <= MaxWorks
  BY ConstantsAssumption
<1>3. btn \in [level : BOOLEAN, next : BOOLEAN, state : BOOLEAN,
              inited : BOOLEAN, armed : BOOLEAN]
  BY DEF Init
<1>4. InUse <= MaxWorks
  BY <1>1, <1>2 DEF Init, InUse
<1> QED BY <1>1, <1>2, <1>3, <1>4, PinType DEF Init, TypeOK, DoorStates

(* Every variable keeps its type and the queue never outgrows its slots.   *)
THEOREM TypeCorrect == Spec => []TypeOK
<1>1. TypeOK /\ [Next]_vars => TypeOK'
  BY TypeStep
<1> QED BY TypeInit, <1>1, PTL DEF Spec

-----------------------------------------------------------------------------
(* What the actions have in common *)

(* The interrupts run in between the steps of the main loop: they touch    *)
(* neither its place nor the door's state, PIN and granted request.        *)
LEMMA InterruptsKeepMain ==
  ASSUME TimerInterrupt \/ Outside
  PROVE  UNCHANGED <<state, pin, keys, request, work, pc>>
BY DEF TimerInterrupt, Outside, OnIdleTimer, OnBuzzerTimer, OnOpenTimer, OnLedTimer,
       OnDebounceTimer, OnButtonEdge, OnReader, OnOther, doorVars, mainVars

(* No two kinds of works are confused.                                     *)
LEMMA WorksDistinct ==
  /\ IdleTimeout \notin ReaderWorks /\ BuzzerFinished \notin ReaderWorks
  /\ IdleTimeout # Foreign /\ BuzzerFinished # Foreign
  /\ IdleTimeout # BuzzerFinished
  /\ NoWork # IdleTimeout /\ NoWork # BuzzerFinished
  /\ IdleTimeout.cmd = "IDLE_TIMEOUT" /\ BuzzerFinished.cmd = "BUZZER_FINISHED"
BY DEF ReaderWorks, BuzzerFinished, IdleTimeout, Foreign, NoWork, Work

(* on_event either ends in door_ctrl_set_state, or takes a digit and       *)
(* starts the idle timer, or changes nothing; the two event kinds whose    *)
(* loss would strand the door are never ignored.                           *)
EndsInSetState ==
  \E s \in DoorStates \ {"READING_PIN"} :
    /\ SetState(s)
    /\ UNCHANGED lost
    /\ s = "OPENING" => request' \in Granted
TakesDigit ==
  /\ state' = "READING_PIN" /\ idleArmed' = TRUE /\ pc' = "loop"
  /\ lost' = lost \ {IdleTimeout}
ChangesNothing ==
  /\ UNCHANGED <<state, pin, keys, idleArmed, lost>> /\ pc' = "loop"
  /\ work # IdleTimeout /\ work # BuzzerFinished

(* door_ctrl_check_key ends in door_ctrl_set_state, with OPENING for a     *)
(* granted request and REJECTED for any other.                             *)
LEMMA CheckKeyEffect ==
  ASSUME NEW t, NEW c, NEW p, CheckKey(t, c, p), UNCHANGED lost
  PROVE  EndsInSetState
<1> DEFINE req == [type |-> t, card |-> c, pin |-> p]
<1>1. CASE req \in Granted
  BY <1>1 DEF CheckKey, EndsInSetState, DoorStates, Busy
<1>2. CASE req \notin Granted
  BY <1>2 DEF CheckKey, EndsInSetState, DoorStates, Busy
<1> QED BY <1>1, <1>2

(* Every handler of on_event sets a state, carries on with a PIN entry, or *)
(* leaves the door as it is.                                               *)
LEMMA HandlerEffect ==
  ASSUME OnEvent
  PROVE  /\ pc = "run" /\ work' = NoWork
         /\ UNCHANGED <<lockVars, buzzer, btn, queue>>
         /\ EndsInSetState \/ TakesDigit \/ ChangesNothing
<1>1. CASE OnForeign
  BY <1>1, WorksDistinct DEF OnForeign, Executing, doorVars, queueVars, ChangesNothing
<1>2. CASE OnBuzzerFinished
  BY <1>2 DEF OnBuzzerFinished, Executing, queueVars, EndsInSetState, DoorStates, Busy
<1>3. CASE OnIdleTimeout
  BY <1>3 DEF OnIdleTimeout, Executing, queueVars, EndsInSetState, DoorStates, Busy
<1>4. CASE OnReaderError
  BY <1>4 DEF OnReaderError, Executing, queueVars, EndsInSetState, DoorStates, Busy
<1>5. CASE OnEnterIdle
  BY <1>5 DEF OnEnterIdle, Executing, queueVars, EndsInSetState, DoorStates, Busy
<1>6. CASE OnDigitIdle
  BY <1>6 DEF OnDigitIdle, Executing, TakesDigit
<1>7. CASE OnCardIdle
  BY <1>7, CheckKeyEffect DEF OnCardIdle, Executing, queueVars
<1>8. CASE OnPinComplete
  BY <1>8, CheckKeyEffect DEF OnPinComplete, Executing, queueVars
<1>9. CASE OnEscReading
  BY <1>9 DEF OnEscReading, Executing, queueVars, EndsInSetState, DoorStates, Busy
<1>10. CASE OnDigitReading
  BY <1>10 DEF OnDigitReading, Executing, TakesDigit
<1>11. CASE OnIgnored
  BY <1>11, WorksDistinct DEF OnIgnored, Executing, doorVars, queueVars, ChangesNothing
<1> QED BY <1>1, <1>2, <1>3, <1>4, <1>5, <1>6, <1>7, <1>8, <1>9, <1>10, <1>11 DEF OnEvent

-----------------------------------------------------------------------------
(* Where the main loop can be *)

Control ==
  /\ pc = "run" <=> work # NoWork
  /\ pc \in {"open", "close"} => state = "OPENING"
  /\ pc = "buzz" => state \in Busy
  /\ pc = "purge" => state \in Settled
  /\ pc = "open" \/ (pc = "purge" /\ state = "OPENING") => request \in Granted

(* The place of the main loop fits the door's state, and the request that  *)
(* leads to the lock is a granted one.                                     *)
LEMMA ControlStep ==
  ASSUME TypeOK, Control, [Next]_vars
  PROVE  Control'
<1>1. CASE TakeWork
  <2>1. work' # NoWork
    BY <1>1, TakeWorkProperties, WorksType
  <2> QED BY <1>1, <2>1 DEF TakeWork, Control, doorVars
<1>2. CASE OnEvent
  <2>1. CASE EndsInSetState
    <3>1. PICK s \in DoorStates \ {"READING_PIN"} :
            SetState(s) /\ (s = "OPENING" => request' \in Granted)
      BY <2>1 DEF EndsInSetState
    <3> QED BY <1>2, <3>1, HandlerEffect
         DEF Control, SetState, AfterSetState, DoorStates, Busy, Settled
  <2>2. CASE TakesDigit
    BY <1>2, <2>2, HandlerEffect DEF Control, TakesDigit
  <2>3. CASE ChangesNothing
    BY <1>2, <2>3, HandlerEffect DEF Control, ChangesNothing
  <2> QED BY <1>2, <2>1, <2>2, <2>3, HandlerEffect
<1>3. CASE PurgeIdleTimeout
  BY <1>3 DEF PurgeIdleTimeout, Control, AfterSetState, Settled, Busy, doorVars
<1>4. CASE OpenFromReader
  BY <1>4 DEF OpenFromReader, Control, doorVars
<1>5. CASE ReleaseFromReader
  BY <1>5 DEF ReleaseFromReader, Control, Busy
<1>6. CASE StartBuzzer
  BY <1>6 DEF StartBuzzer, Control
<1>7. CASE TimerInterrupt \/ Outside
  BY <1>7, InterruptsKeepMain DEF Control
<1>8. CASE UNCHANGED vars
  BY <1>8 DEF vars, doorVars, mainVars, Control
<1> QED BY <1>1, <1>2, <1>3, <1>4, <1>5, <1>6, <1>7, <1>8 DEF Next, MainLoop

-----------------------------------------------------------------------------
(* The wake-ups: NoStaleTimeout, PinEntryWatched and BusyWillFinish *)

Wakeups == NoStaleTimeout /\ PinEntryWatched /\ BusyWillFinish

(* An event that is neither a wake-up changes nothing for the wake-ups.    *)
LEMMA ScheduleOther ==
  ASSUME TypeOK, Wakeups, NEW w \in Works, w # IdleTimeout, w # BuzzerFinished,
         Schedule(w), UNCHANGED <<state, work, pc, buzzer, idleArmed>>
  PROVE  Wakeups'
BY ScheduleProperties DEF Wakeups, NoStaleTimeout, PinEntryWatched, BusyWillFinish, Pending

(* Every step keeps the three invariants about the wake-ups.               *)
LEMMA WakeupsStep ==
  ASSUME TypeOK, Control, Wakeups, [Next]_vars
  PROVE  Wakeups'
<1> USE DEF Wakeups, NoStaleTimeout, PinEntryWatched, BusyWillFinish, Pending
<1>1. CASE TakeWork
  <2>1. work = NoWork
    BY <1>1 DEF Control, TakeWork
  <2> QED BY <1>1, <2>1, TakeWorkProperties, WorksDistinct DEF TakeWork, doorVars
<1>2. CASE OnEvent
  <2>1. /\ pc = "run" /\ work' = NoWork /\ UNCHANGED <<buzzer, queue>>
    BY <1>2, HandlerEffect
  <2>2. CASE EndsInSetState
    <3>1. PICK s \in DoorStates \ {"READING_PIN"} : SetState(s) /\ UNCHANGED lost
      BY <2>2 DEF EndsInSetState
    <3>2. state' = s
      BY <3>1 DEF SetState
    <3>3. NoStaleTimeout'
      BY <2>1, <3>1, WorksDistinct DEF SetState
    <3>4. BusyWillFinish'
      BY <3>1, <3>2 DEF SetState, AfterSetState, Busy
    <3> QED BY <3>2, <3>3, <3>4
  <2>3. CASE TakesDigit
    BY <2>1, <2>3 DEF TakesDigit, Settled, Busy
  <2>4. CASE ChangesNothing
    BY <2>1, <2>4, WorksDistinct DEF ChangesNothing
  <2> QED BY <1>2, <2>2, <2>3, <2>4, HandlerEffect
<1>3. CASE PurgeIdleTimeout
  <2>1. ~Queued(queue', IdleTimeout)
    BY <1>3, WithoutProperties DEF PurgeIdleTimeout, TypeOK
  <2>2. state \in Settled /\ work = NoWork
    BY <1>3 DEF PurgeIdleTimeout, Control
  <2>3. NoStaleTimeout'
    BY <1>3, <2>1, <2>2, WorksDistinct DEF PurgeIdleTimeout, doorVars
  <2>4. PinEntryWatched' /\ BusyWillFinish'
    BY <1>3, <2>2 DEF PurgeIdleTimeout, doorVars, Settled, Busy, AfterSetState
  <2> QED BY <2>3, <2>4
<1>4. CASE OpenFromReader
  BY <1>4 DEF OpenFromReader, doorVars, queueVars
<1>5. CASE ReleaseFromReader
  BY <1>5 DEF ReleaseFromReader, queueVars
<1>6. CASE StartBuzzer
  <2>1. buzzer'.armed
    BY <1>6, BuzzerSeqArms DEF StartBuzzer
  <2>2. state \in Busy
    BY <1>6 DEF StartBuzzer, Control
  <2> QED BY <1>6, <2>1, <2>2 DEF StartBuzzer, doorVars, Busy
<1>7. CASE OnIdleTimer
  <2>1. /\ Schedule(IdleTimeout) /\ idleArmed
        /\ UNCHANGED <<state, work, pc, buzzer>>
    BY <1>7 DEF OnIdleTimer, doorVars, mainVars
  <2>2. state \notin Settled
    BY <2>1
  <2> QED BY <2>1, <2>2, ScheduleProperties, WorksType
<1>8. CASE OnBuzzerTimer
  <2>1. UNCHANGED <<state, work, pc, idleArmed>>
    BY <1>8 DEF OnBuzzerTimer, doorVars, mainVars
  <2>2. CASE TriggerFinishes(buzzer)
    <3>1. Schedule(BuzzerFinished)
      BY <1>8, <2>2 DEF OnBuzzerTimer
    <3> QED BY <2>1, <3>1, ScheduleProperties, WorksType, WorksDistinct
  <2>3. CASE ~TriggerFinishes(buzzer)
    <3>1. buzzer'.armed /\ UNCHANGED queueVars
      BY <1>8, <2>3 DEF OnBuzzerTimer, TriggerFinishes, TriggerOnTimeout
    <3> QED BY <2>1, <3>1 DEF queueVars
  <2> QED BY <2>2, <2>3
<1>9. CASE OnOpenTimer \/ OnLedTimer \/ OnDebounceTimer \/ OnButtonEdge
  BY <1>9 DEF OnOpenTimer, OnLedTimer, OnDebounceTimer, OnButtonEdge, doorVars, queueVars, mainVars
<1>10. CASE OnReader
  <2>1. PICK w \in ReaderWorks : Schedule(w)
    BY <1>10 DEF OnReader
  <2> QED BY <1>10, <2>1, ScheduleOther, WorksType, WorksDistinct
       DEF OnReader, doorVars, mainVars
<1>11. CASE OnOther
  BY <1>11, ScheduleOther, WorksType, WorksDistinct DEF OnOther, doorVars, mainVars
<1>12. CASE UNCHANGED vars
  BY <1>12 DEF vars, doorVars, queueVars, mainVars
<1> QED BY <1>1, <1>2, <1>3, <1>4, <1>5, <1>6, <1>7, <1>8, <1>9, <1>10, <1>11, <1>12
  DEF Next, MainLoop, TimerInterrupt, Outside

-----------------------------------------------------------------------------
(* The lock and the button: LockDriven and ButtonFollowed *)

(* LockDriven alone is not inductive: that the timer of a trigger does not *)
(* run while a source asks for the door, and that the step being played is *)
(* the single step of trigger_start, is what makes its end switch it off.  *)
TriggerOK(tr) ==
  IF openStatus # {}
  THEN tr = TriggerSet(TRUE)
  ELSE tr = TriggerStop \/ tr = Running(OpenTime)

ButtonOK ==
  /\ btn.next = btn.level
  /\ btn.armed \/ (btn.inited /\ btn.state = btn.next)
  /\ "BUTTON" \in openStatus <=> btn.inited /\ btn.state

LockInv ==
  /\ TriggerOK(openTrig)
  /\ TriggerOK(ledTrig)
  /\ "READER" \in openStatus => pc = "close"
  /\ ButtonOK

(* What trigger_set and trigger_stop leave.                                *)
LEMMA TriggerShapes ==
  /\ TriggerSet(TRUE).gpio = TRUE /\ TriggerSet(TRUE).armed = FALSE
  /\ TriggerStop.gpio = FALSE /\ TriggerStop.armed = FALSE
  /\ Running(OpenTime).gpio = TRUE /\ Running(OpenTime).armed = TRUE
BY DEF TriggerSet, TriggerStop, Running

(* The strengthened invariant gives the two properties.                    *)
LEMMA LockInvImplies ==
  ASSUME TypeOK, LockInv
  PROVE  LockDriven /\ ButtonFollowed
<1>1. /\ openTrig.gpio <=> openStatus # {} \/ openTrig.armed
      /\ ledTrig.gpio <=> openStatus # {} \/ ledTrig.armed
  BY TriggerShapes DEF LockInv, TriggerOK
<1>2. ButtonFollowed
  BY DEF LockInv, ButtonOK, ButtonFollowed
<1> QED BY <1>1, <1>2 DEF LockInv, LockDriven

(* door_ctrl_set_open keeps the triggers and the set of sources in step.   *)
LEMMA SetOpenKeeps ==
  ASSUME TypeOK, LockInv, NEW src \in Sources, NEW on \in BOOLEAN, SetOpen(src, on)
  PROVE  /\ TriggerOK(openTrig)' /\ TriggerOK(ledTrig)'
         /\ openStatus' = IF on THEN openStatus \cup {src} ELSE openStatus \ {src}
<1>1. OpenTime \in Nat
  BY ConstantsAssumption
<1>2. TriggerStart(OpenTime) = TriggerStop \/ TriggerStart(OpenTime) = Running(OpenTime)
  BY <1>1, TriggerStartOn
<1> QED BY <1>2 DEF SetOpen, LockInv, TriggerOK

(* A trigger whose timer is pending stops when it expires.                 *)
LEMMA TriggerTimerStops ==
  ASSUME NEW tr, TriggerOK(tr), tr.armed
  PROVE  openStatus = {} /\ TriggerOnTimeout(tr) = TriggerStop
<1>1. OpenTime \in Nat
  BY ConstantsAssumption
<1>2. openStatus = {} /\ tr = Running(OpenTime)
  BY TriggerShapes DEF TriggerOK
<1> QED BY <1>1, <1>2, TriggerRunningEnds

(* Every step keeps the strengthened invariant of the lock.                *)
LEMMA LockInvStep ==
  ASSUME TypeOK, LockInv, [Next]_vars
  PROVE  LockInv'
<1>1. CASE TakeWork
  BY <1>1 DEF TakeWork, LockInv, TriggerOK, ButtonOK, lockVars
<1>2. CASE OnEvent
  <2>1. pc = "run" /\ UNCHANGED <<openStatus, openTrig, ledTrig, btn>>
    BY <1>2, HandlerEffect DEF lockVars
  <2> QED BY <2>1 DEF LockInv, TriggerOK, ButtonOK
<1>3. CASE PurgeIdleTimeout
  BY <1>3 DEF PurgeIdleTimeout, LockInv, TriggerOK, ButtonOK, lockVars
<1>4. CASE OpenFromReader
  <2>1. SetOpen("READER", TRUE) /\ pc' = "close" /\ UNCHANGED btn
    BY <1>4 DEF OpenFromReader
  <2>2. /\ TriggerOK(openTrig)' /\ TriggerOK(ledTrig)'
        /\ openStatus' = openStatus \cup {"READER"}
    BY <2>1, SetOpenKeeps DEF Sources
  <2> QED BY <2>1, <2>2 DEF LockInv, ButtonOK
<1>5. CASE ReleaseFromReader
  <2>1. SetOpen("READER", FALSE) /\ UNCHANGED btn
    BY <1>5 DEF ReleaseFromReader
  <2>2. /\ TriggerOK(openTrig)' /\ TriggerOK(ledTrig)'
        /\ openStatus' = openStatus \ {"READER"}
    BY <2>1, SetOpenKeeps DEF Sources
  <2> QED BY <2>1, <2>2 DEF LockInv, ButtonOK
<1>6. CASE StartBuzzer
  BY <1>6 DEF StartBuzzer, LockInv, TriggerOK, ButtonOK, lockVars
<1>7. CASE OnIdleTimer \/ OnBuzzerTimer \/ OnReader \/ OnOther
  BY <1>7 DEF OnIdleTimer, OnBuzzerTimer, OnReader, OnOther, LockInv, TriggerOK, ButtonOK,
              lockVars, mainVars
<1>8. CASE OnOpenTimer
  <2>1. openStatus = {} /\ openTrig' = TriggerStop
    BY <1>8, TriggerTimerStops DEF OnOpenTimer, LockInv
  <2> QED BY <1>8, <2>1 DEF OnOpenTimer, LockInv, TriggerOK, ButtonOK, mainVars
<1>9. CASE OnLedTimer
  <2>1. openStatus = {} /\ ledTrig' = TriggerStop
    BY <1>9, TriggerTimerStops DEF OnLedTimer, LockInv
  <2> QED BY <1>9, <2>1 DEF OnLedTimer, LockInv, TriggerOK, ButtonOK, mainVars
<1>10. CASE OnDebounceTimer
  <2>1. /\ btn.next \in BOOLEAN /\ btn.state \in BOOLEAN /\ btn.inited \in BOOLEAN
        /\ btn'.level = btn.level /\ btn'.next = btn.next /\ btn'.state = btn.next
        /\ btn'.inited = TRUE /\ pc' = pc
    BY <1>10 DEF OnDebounceTimer, TypeOK, mainVars
  <2>2. CASE ~btn.inited \/ btn.state # btn.next
    <3>1. SetOpen("BUTTON", btn.next)
      BY <1>10, <2>2 DEF OnDebounceTimer
    <3>2. /\ TriggerOK(openTrig)' /\ TriggerOK(ledTrig)'
          /\ openStatus' = IF btn.next THEN openStatus \cup {"BUTTON"}
                           ELSE openStatus \ {"BUTTON"}
      BY <2>1, <3>1, SetOpenKeeps DEF Sources
    <3> QED BY <2>1, <3>2 DEF LockInv, ButtonOK
  <2>3. CASE btn.inited /\ btn.state = btn.next
    <3>1. UNCHANGED lockVars
      BY <1>10, <2>3 DEF OnDebounceTimer
    <3> QED BY <2>1, <2>3, <3>1 DEF LockInv, TriggerOK, ButtonOK, lockVars
  <2> QED BY <2>1, <2>2, <2>3
<1>11. CASE OnButtonEdge
  BY <1>11 DEF OnButtonEdge, LockInv, TriggerOK, ButtonOK, lockVars, mainVars
<1>12. CASE UNCHANGED vars
  BY <1>12 DEF vars, lockVars, mainVars, LockInv, TriggerOK, ButtonOK
<1> QED BY <1>1, <1>2, <1>3, <1>4, <1>5, <1>6, <1>7, <1>8, <1>9, <1>10, <1>11, <1>12
  DEF Next, MainLoop, TimerInterrupt, Outside

-----------------------------------------------------------------------------
(* The PIN *)

(* The digits of the register are those of the running entry.              *)
LEMMA PinStep ==
  ASSUME TypeOK, PinIsOfThisEntry, [Next]_vars
  PROVE  PinIsOfThisEntry'
<1>0. PinDigits \in Nat \ {0} /\ Filler \notin Digits
  BY ConstantsAssumption
<1>1. CASE OnDigitIdle
  <2>1. work.arg \in Digits /\ pin' = FirstDigit(work.arg) /\ keys' = 1
    BY <1>1 DEF OnDigitIdle
  <2> QED BY <1>0, <2>1 DEF PinIsOfThisEntry, FirstDigit
<1>2. CASE OnDigitReading
  <2>1. /\ work.arg \in Digits /\ pin' = NextDigit(pin, work.arg)
        /\ keys' = IF keys < PinDigits THEN keys + 1 ELSE keys
        /\ keys \in 0 .. PinDigits /\ keys > 0
        /\ \A i \in 1 .. PinDigits : pin[i] = Filler <=> i <= PinDigits - keys
    BY <1>2 DEF OnDigitReading, PinIsOfThisEntry, TypeOK
  <2>2. ASSUME NEW i \in 1 .. PinDigits
        PROVE  pin'[i] = Filler <=> i <= PinDigits - keys'
    <3>1. CASE i = PinDigits
      BY <1>0, <2>1, <3>1 DEF NextDigit
    <3>2. CASE i # PinDigits
      <4>1. i + 1 \in 1 .. PinDigits /\ pin'[i] = pin[i + 1]
        BY <1>0, <2>1, <3>2 DEF NextDigit
      <4>2. pin[i + 1] = Filler <=> i + 1 <= PinDigits - keys
        BY <2>1, <4>1
      <4> QED BY <1>0, <2>1, <4>1, <4>2
    <3> QED BY <3>1, <3>2
  <2> QED BY <2>1, <2>2 DEF PinIsOfThisEntry
<1>3. CASE OnForeign \/ OnIgnored
  BY <1>3 DEF OnForeign, OnIgnored, doorVars, PinIsOfThisEntry
<1>4. CASE OnBuzzerFinished \/ OnIdleTimeout \/ OnReaderError \/ OnEnterIdle \/ OnEscReading
  BY <1>4 DEF OnBuzzerFinished, OnIdleTimeout, OnReaderError, OnEnterIdle, OnEscReading,
              SetState, PinIsOfThisEntry
<1>5. CASE OnCardIdle \/ OnPinComplete
  <2>1. \E t, c, p : CheckKey(t, c, p)
    BY <1>5 DEF OnCardIdle, OnPinComplete
  <2>2. state' \in {"OPENING", "REJECTED"}
    BY <2>1 DEF CheckKey, SetState
  <2> QED BY <2>2 DEF PinIsOfThisEntry
<1>6. CASE TakeWork \/ PurgeIdleTimeout \/ OpenFromReader \/ ReleaseFromReader \/ StartBuzzer
  BY <1>6 DEF TakeWork, PurgeIdleTimeout, OpenFromReader, ReleaseFromReader, StartBuzzer,
              doorVars, PinIsOfThisEntry
<1>7. CASE TimerInterrupt \/ Outside
  BY <1>7, InterruptsKeepMain DEF PinIsOfThisEntry
<1>8. CASE UNCHANGED vars
  BY <1>8 DEF vars, doorVars, PinIsOfThisEntry
<1> QED BY <1>1, <1>2, <1>3, <1>4, <1>5, <1>6, <1>7, <1>8 DEF Next, MainLoop, OnEvent

-----------------------------------------------------------------------------
(* The theorems *)

(* The inductive invariant of the door.                                    *)
IInv == TypeOK /\ Control /\ Wakeups /\ LockInv /\ PinIsOfThisEntry

(* door_ctrl_init establishes the inductive invariant.                     *)
LEMMA IInvInit == Init => IInv
<1> SUFFICES ASSUME Init PROVE IInv
  OBVIOUS
<1>1. TypeOK
  BY TypeInit
<1>2. Control
  BY DEF Init, Control
<1>3. Wakeups
  <2>1. ~Queued(queue, IdleTimeout)
    BY DEF Init, Queued
  <2> QED BY <2>1, WorksDistinct
       DEF Init, Wakeups, NoStaleTimeout, PinEntryWatched, BusyWillFinish, Pending, Busy
<1>4. LockInv
  BY DEF Init, LockInv, TriggerOK, ButtonOK
<1>5. PinIsOfThisEntry
  BY DEF Init, PinIsOfThisEntry
<1> QED BY <1>1, <1>2, <1>3, <1>4, <1>5 DEF IInv

(* Every step of the main loop or of an interrupt keeps it.                *)
LEMMA IInvStep == IInv /\ [Next]_vars => IInv'
BY TypeStep, ControlStep, WakeupsStep, LockInvStep, PinStep DEF IInv

(* The inductive invariant holds of every state the door can reach.        *)
THEOREM Invariance == Spec => []IInv
BY IInvInit, IInvStep, PTL DEF Spec

(* No idle timeout outlives the PIN entry it guarded.                      *)
THEOREM StaleTimeoutImpossible == Spec => []NoStaleTimeout
<1>1. IInv => NoStaleTimeout
  BY DEF IInv, Wakeups
<1> QED BY <1>1, Invariance, PTL

(* A PIN entry has its idle timer or its IDLE_TIMEOUT, as long as the run  *)
(* queue had room for it (door_ctrl_set_state, door_ctrl_on_timeout).      *)
THEOREM WakeupsKept == Spec => []PinEntryWatched
<1>1. IInv => PinEntryWatched
  BY DEF IInv, Wakeups
<1> QED BY <1>1, Invariance, PTL

(* A busy door has its buzzer or its BUZZER_FINISHED, as long as the run   *)
(* queue had room for it (door_ctrl_on_buzzer_finished).                   *)
THEOREM BuzzerKept == Spec => []BusyWillFinish
<1>1. IInv => BusyWillFinish
  BY DEF IInv, Wakeups
<1> QED BY <1>1, Invariance, PTL

(* The lock and the LED are driven exactly while somebody asks for the     *)
(* door or the open time runs (door_ctrl_set_open).                        *)
THEOREM LockFollowsRequests == Spec => []LockDriven
<1>1. IInv => LockDriven
  BY LockInvImplies DEF IInv
<1> QED BY <1>1, Invariance, PTL

(* The button's bit follows the debounced button (button_timeout,          *)
(* door_ctrl_on_button).                                                   *)
THEOREM ButtonHeard == Spec => []ButtonFollowed
<1>1. IInv => ButtonFollowed
  BY LockInvImplies DEF IInv
<1> QED BY <1>1, Invariance, PTL

(* A PIN is made of the keys of one entry, whatever was typed before it.   *)
THEOREM PinFresh == Spec => []PinIsOfThisEntry
<1>1. IInv => PinIsOfThisEntry
  BY DEF IInv
<1> QED BY <1>1, Invariance, PTL

-----------------------------------------------------------------------------
(* The steps of the lock *)

(* The steps that do not run door_ctrl_set_open or the timer of the lock   *)
(* leave the lock alone.                                                   *)
LEMMA LockMovers ==
  ASSUME [Next]_vars
  PROVE  \/ UNCHANGED <<openStatus, openTrig>>
         \/ OpenFromReader \/ ReleaseFromReader \/ OnOpenTimer \/ OnDebounceTimer
<1>1. CASE OnEvent
  BY <1>1, HandlerEffect DEF lockVars
<1>2. CASE TakeWork \/ PurgeIdleTimeout \/ StartBuzzer
  BY <1>2 DEF TakeWork, PurgeIdleTimeout, StartBuzzer, lockVars
<1>3. CASE OnIdleTimer \/ OnBuzzerTimer \/ OnLedTimer \/ Outside
  BY <1>3 DEF OnIdleTimer, OnBuzzerTimer, OnLedTimer, Outside, OnButtonEdge, OnReader,
              OnOther, lockVars
<1>4. CASE UNCHANGED vars
  BY <1>4 DEF vars, lockVars
<1> QED BY <1>1, <1>2, <1>3, <1>4 DEF Next, MainLoop, TimerInterrupt

(* door_ctrl_set_open switches the lock on only for a source that asks,    *)
(* and off only when nobody asks any more and no open time is configured.  *)
LEMMA SetOpenMoves ==
  ASSUME TypeOK, LockInv, NEW src \in Sources, NEW on \in BOOLEAN, SetOpen(src, on)
  PROVE  /\ ~openTrig.gpio /\ openTrig'.gpio => on
         /\ openTrig.gpio /\ ~openTrig'.gpio => openStatus' = {} /\ OpenTime = 0
<1>1. OpenTime \in Nat
  BY ConstantsAssumption
<1>2. /\ TriggerOK(openTrig)' /\ openStatus' = IF on THEN openStatus \cup {src}
                                               ELSE openStatus \ {src}
  BY SetOpenKeeps
<1>3. CASE (openStatus' = {}) = (openStatus = {})
  BY <1>3 DEF SetOpen
<1>4. CASE openStatus = {} /\ openStatus' # {}
  <2>1. on
    BY <1>2, <1>4
  <2>2. openTrig'.gpio
    BY <1>2, <1>4, TriggerShapes DEF TriggerOK
  <2> QED BY <2>1, <2>2
<1>5. CASE openStatus # {} /\ openStatus' = {}
  <2>1. openTrig.gpio
    BY <1>5, TriggerShapes DEF LockInv, TriggerOK
  <2>2. openTrig' = TriggerStart(OpenTime)
    BY <1>5 DEF SetOpen
  <2>3. OpenTime # 0 => openTrig'.gpio
    BY <1>1, <2>2, TriggerStartOn, TriggerShapes
  <2> QED BY <1>5, <2>1, <2>3
<1> QED BY <1>3, <1>4, <1>5

(* The lock is switched on only by a granted request or a button press.    *)
THEOREM OpeningAllowed == Spec => OpensOnlyIfAllowed
<1>1. ASSUME IInv, [Next]_vars, ~openTrig.gpio, openTrig'.gpio
      PROVE  \/ pc = "open" /\ request \in Granted
             \/ btn.armed /\ btn.next /\ btn'.state
  <2>1. TypeOK /\ LockInv /\ Control
    BY <1>1 DEF IInv
  <2>2. CASE OpenFromReader
    BY <2>1, <2>2 DEF OpenFromReader, Control
  <2>3. CASE ReleaseFromReader
    <3>1. SetOpen("READER", FALSE)
      BY <2>3 DEF ReleaseFromReader
    <3> QED BY <1>1, <2>1, <3>1, SetOpenMoves DEF Sources
  <2>4. CASE OnOpenTimer
    <3>1. openTrig' = TriggerStop
      BY <2>1, <2>4, TriggerTimerStops DEF OnOpenTimer, LockInv
    <3> QED BY <1>1, <3>1, TriggerShapes
  <2>5. CASE OnDebounceTimer
    <3>1. btn.next \in BOOLEAN /\ btn.armed /\ btn'.state = btn.next
      BY <2>1, <2>5 DEF OnDebounceTimer, TypeOK
    <3>2. SetOpen("BUTTON", btn.next) \/ UNCHANGED lockVars
      BY <2>5 DEF OnDebounceTimer
    <3>3. btn.next
      BY <1>1, <2>1, <3>1, <3>2, SetOpenMoves DEF Sources, lockVars
    <3> QED BY <3>1, <3>3
  <2>6. CASE UNCHANGED openTrig
    BY <1>1, <2>6
  <2> QED BY <1>1, <2>2, <2>3, <2>4, <2>5, <2>6, LockMovers
<1>2. IInv /\ [Next]_vars =>
        [~openTrig.gpio /\ openTrig'.gpio =>
           \/ pc = "open" /\ request \in Granted
           \/ btn.armed /\ btn.next /\ btn'.state]_vars
  BY <1>1
<1> QED BY <1>2, Invariance, PTL DEF Spec, OpensOnlyIfAllowed

(* A driven lock is released by the end of the open time and nothing else. *)
THEOREM ReleaseIsTimed == Spec => ReleasedOnlyByTimer
<1>1. ASSUME IInv, [Next]_vars, openTrig.gpio, ~openTrig'.gpio
      PROVE  openStatus' = {} /\ (openTrig.armed \/ OpenTime = 0)
  <2>1. TypeOK /\ LockInv
    BY <1>1 DEF IInv
  <2>2. CASE OpenFromReader
    <3>1. SetOpen("READER", TRUE)
      BY <2>2 DEF OpenFromReader
    <3> QED BY <1>1, <2>1, <3>1, SetOpenMoves DEF Sources
  <2>3. CASE ReleaseFromReader
    <3>1. SetOpen("READER", FALSE)
      BY <2>3 DEF ReleaseFromReader
    <3> QED BY <1>1, <2>1, <3>1, SetOpenMoves DEF Sources
  <2>4. CASE OnOpenTimer
    <3>1. openStatus = {} /\ openTrig.armed
      BY <2>1, <2>4, TriggerTimerStops DEF OnOpenTimer, LockInv
    <3> QED BY <2>4, <3>1 DEF OnOpenTimer
  <2>5. CASE OnDebounceTimer
    <3>1. btn.next \in BOOLEAN
      BY <2>1 DEF TypeOK
    <3>2. SetOpen("BUTTON", btn.next) \/ UNCHANGED lockVars
      BY <2>5 DEF OnDebounceTimer
    <3> QED BY <1>1, <2>1, <3>1, <3>2, SetOpenMoves DEF Sources, lockVars
  <2>6. CASE UNCHANGED openTrig
    BY <1>1, <2>6
  <2> QED BY <1>1, <2>2, <2>3, <2>4, <2>5, <2>6, LockMovers
<1>2. IInv /\ [Next]_vars =>
        [openTrig.gpio /\ ~openTrig'.gpio =>
           openStatus' = {} /\ (openTrig.armed \/ OpenTime = 0)]_vars
  BY <1>1
<1> QED BY <1>2, Invariance, PTL DEF Spec, ReleasedOnlyByTimer

=============================================================================
