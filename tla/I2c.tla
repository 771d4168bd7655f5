-------------------------------- MODULE I2c --------------------------------
(***************************************************************************)
(* The I2C master (i2c.c) and the clock on its bus (rtc-ds3231.c).  A      *)
(* caller starts a transfer of two messages, the register and the data,    *)
(* and sleeps until it is complete.  Every step of the bus ends with an    *)
(* interrupt that tells the hardware its next step; a step that does not   *)
(* end is the timeout's.  The timer and the bus interrupt both run with    *)
(* the interrupts off.                                                     *)
(*                                                                         *)
(* The registers of the clock: 0 .. TimeRegs - 1 hold the time, then come  *)
(* the control and the status register.  What the time registers hold is   *)
(* opaque, the coding of a date is left out; of the status it matters that *)
(* the oscillator stopped (osf) and that the 32 kHz output is on.          *)
(***************************************************************************)
EXTENDS Integers, Sequences, FiniteSets

CONSTANTS
  TimeRegs,    \* 7: the registers of the time
  Times,       \* the times that are set
  I2cMaxOps,   \* bound: operations on the clock
  I2cMaxFaults \* bound: faults of the bus and its devices

ASSUME I2cAssumption ==
  /\ TimeRegs \in Nat \ {0} /\ Times \subseteq Nat \ {0}
  /\ I2cMaxOps \in Nat /\ I2cMaxFaults \in Nat

VARIABLES
  bus,     \* i2c_bus: busy (xfer is not NULL), msgs, pos, buf, timer
  hw,      \* what the hardware does: the step it is told, and in which mode
  taken,   \* the bytes stored in the buffers that msgs reads into
  clock,   \* the DS3231: regs, ptr, and whether the next byte is the pointer
  rtc,     \* the operation under way: op, step, time; the result of its
           \* transfer; history: the last operation, if it succeeded
  ops,     \* history: how many operations were called
  i2cFaults, \* history: how many faults there were
  overdue  \* history: a transfer was ended by its timeout

i2cVars == <<bus, hw, taken, clock, rtc, ops, i2cFaults, overdue>>

Control == TimeRegs
Status == TimeRegs + 1
Regs == 0 .. Status

Osf(status) == status \div 2
On32kHz(status) == status % 2

(* The status that turns the 32 kHz output off.                            *)
(* Mutant: with all the other bits, and so the mark of the oscillator.     *)
Without32kHz_AllCleared(status) == 0

Without32kHz(status) == 2 * Osf(status)

Idle == [step |-> "none", mode |-> "none", ack |-> FALSE, out |-> 0]
NoTransfer == [busy |-> FALSE, msgs |-> << >>, pos |-> 1, buf |-> 0, timer |-> FALSE]
NoOp == [op |-> "none", step |-> 0, time |-> 0]

I2cInit ==
  /\ bus = NoTransfer /\ hw = Idle /\ taken = << >>
  /\ \E status \in 0 .. 3, t \in Times :
       clock = [regs |-> [r \in Regs |-> IF r = Status THEN status
                                         ELSE IF r = Control THEN 1 ELSE t],
                ptr |-> 0, first |-> FALSE]
  /\ rtc = [now |-> NoOp, result |-> "none", last |-> NoOp]
  /\ ops = 0 /\ i2cFaults = 0 /\ overdue = FALSE

-----------------------------------------------------------------------------
(* rtc_ds3231_op: the message that sends the register, and the one that    *)
(* reads len bytes or goes on sending the data.                            *)
ReadMsgs(reg, n) ==
  <<[dir |-> "write", data |-> <<reg>>, len |-> 1, noStart |-> FALSE],
    [dir |-> "read", data |-> << >>, len |-> n, noStart |-> FALSE]>>

WriteMsgs(reg, data) ==
  <<[dir |-> "write", data |-> <<reg>>, len |-> 1, noStart |-> FALSE],
    [dir |-> "write", data |-> data, len |-> Len(data), noStart |-> TRUE]>>

(* i2c_transfer: the transfer begins with a start condition, unless one is *)
(* still there.  Nothing else interrupts between this and the timer.       *)
Launch(msgs) ==
  /\ bus' = [busy |-> TRUE, msgs |-> msgs, pos |-> 1, buf |-> 0, timer |-> TRUE]
  /\ hw' = [step |-> "start", mode |-> "none", ack |-> FALSE, out |-> 0]
  /\ taken' = << >>

Ended(result, last) == [now |-> NoOp, result |-> result, last |-> last]

Ends(result, last) ==
  /\ rtc' = Ended(result, last)
  /\ UNCHANGED <<bus, hw, taken>>

StepWith(o, n, msgs) ==
  IF bus.busy THEN Ends("EBUSY", NoOp)
  ELSE /\ rtc' = [now |-> [o EXCEPT !.step = n], result |-> "none", last |-> NoOp]
       /\ Launch(msgs)

(* The first transfer of rtc_set, rtc_get and rtc_ds3231_init. *)
First(o) ==
  IF o.op = "set"
  THEN StepWith(o, 1, WriteMsgs(0, [i \in 1 .. TimeRegs |-> o.time]))
  ELSE StepWith(o, 1, ReadMsgs(Status, 1))

Call ==
  /\ rtc.now.op = "none" /\ ops < I2cMaxOps
  /\ ops' = ops + 1
  /\ IF ops = 0 THEN First([op |-> "init", step |-> 1, time |-> 0])
     ELSE \/ First([op |-> "get", step |-> 1, time |-> 0])
          \/ \E t \in Times : First([op |-> "set", step |-> 1, time |-> t])
  /\ UNCHANGED <<clock, i2cFaults, overdue>>

(* The caller wakes up after a transfer that succeeded.  rtc_ds3231_init   *)
(* goes on with rtc_set_system_time, which gets the time.                  *)
WakesUp ==
  /\ rtc.result = "done"
  /\ LET o == rtc.now
     IN CASE o.op = "set" /\ o.step = 1 -> StepWith(o, 2, ReadMsgs(Status, 1))
          [] o.op = "set" /\ o.step = 2 /\ Osf(taken[1]) = 1 ->
               StepWith(o, 3, WriteMsgs(Status, <<On32kHz(taken[1])>>))
          [] o.op = "get" /\ o.step = 1 /\ Osf(taken[1]) = 0 ->
               StepWith(o, 2, ReadMsgs(0, TimeRegs))
          [] o.op = "get" /\ o.step = 1 /\ Osf(taken[1]) = 1 -> Ends("EFAULT", NoOp)
          [] o.op = "init" /\ o.step = 1 ->
               StepWith(o, 2, WriteMsgs(Status, <<Without32kHz(taken[1])>>))
          [] o.op = "init" /\ o.step = 2 -> StepWith(o, 3, WriteMsgs(Control, <<0>>))
          [] o.op = "init" /\ o.step = 3 ->
               StepWith([o EXCEPT !.op = "get"], 1, ReadMsgs(Status, 1))
          [] OTHER -> Ends("OK", o)
  /\ UNCHANGED <<clock, ops, i2cFaults, overdue>>

-----------------------------------------------------------------------------
(* What a step of the hardware comes to, as the status of its interrupt,   *)
(* the byte that came in and the clock after it.                           *)
Outcome(status, in, c) == [status |-> status, in |-> in, clock |-> c]

Store(byte) ==
  IF clock.first THEN [clock EXCEPT !.ptr = byte, !.first = FALSE]
  ELSE [clock EXCEPT !.ptr = (@ + 1) % (Status + 1), !.regs[clock.ptr] = byte]

Works ==
  CASE hw.step = "start" -> Outcome("START", 0, clock)
    [] hw.step = "byte" /\ hw.mode = "address" ->
         IF hw.out = "write" THEN Outcome("MT_SLA_ACK", 0, [clock EXCEPT !.first = TRUE])
         ELSE Outcome("MR_SLA_ACK", 0, clock)
    [] hw.step = "byte" /\ hw.mode = "send" -> Outcome("MT_DATA_ACK", 0, Store(hw.out))
    [] hw.step = "byte" /\ hw.mode = "receive" ->
         Outcome(IF hw.ack THEN "MR_DATA_ACK" ELSE "MR_DATA_NACK", clock.regs[clock.ptr],
                 [clock EXCEPT !.ptr = (@ + 1) % (Status + 1)])

(* What goes wrong instead: no acknowledge, a bus error, another master.   *)
GoesWrong ==
  {Outcome(s, 0, clock) : s \in
     {"BUS_ERROR", "ARB_LOST"} \cup
     (CASE hw.step = "byte" /\ hw.mode = "address" /\ hw.out = "write" -> {"MT_SLA_NACK"}
        [] hw.step = "byte" /\ hw.mode = "address" /\ hw.out = "read" -> {"MR_SLA_NACK"}
        [] hw.step = "byte" /\ hw.mode = "send" -> {"MT_DATA_NACK"}
        [] OTHER -> {})}

Receives(status) == status \in {"MR_DATA_ACK", "MR_DATA_NACK"}

(* The handler takes up a message at the first byte of its buffer. *)
Current == bus.msgs[bus.pos]
IsLast == bus.pos = Len(bus.msgs)
GoesOn == ~IsLast /\ bus.msgs[bus.pos + 1].noStart

(* TWI_vect where the transfer goes on: the next step, with the position.  *)
Goes(step, mode, ack, out, pos, buf) ==
  /\ hw' = [step |-> step, mode |-> mode, ack |-> ack, out |-> out]
  /\ bus' = [bus EXCEPT !.pos = pos, !.buf = buf, !.timer = TRUE]
  /\ UNCHANGED <<rtc>>

(* TWI_vect where it ends: a stop, and the completion of the caller.       *)
(* Mutant: the timeout is left running.                                    *)
Complete_TimerKept(result) ==
  /\ hw' = Idle
  /\ bus' = [bus EXCEPT !.busy = FALSE]
  /\ rtc' = IF result = "done" THEN [rtc EXCEPT !.result = "done"]
            ELSE Ended(result, NoOp)

Complete(result) ==
  /\ hw' = Idle
  /\ bus' = [bus EXCEPT !.busy = FALSE, !.timer = FALSE]
  /\ rtc' = IF result = "done" THEN [rtc EXCEPT !.result = "done"]
            ELSE Ended(result, NoOp)

(* Mutant: the last byte of the last message is left out.                   *)
AfterByte_OneShort(status, buf) ==
  CASE buf + 1 < Current.len + (IF IsLast THEN 0 ELSE 1) /\ Receives(status) ->
         Goes("byte", "receive", buf + 1 < Current.len \/ GoesOn, 0, bus.pos, buf)
    [] buf + 1 < Current.len + (IF IsLast THEN 0 ELSE 1) /\ ~Receives(status) ->
         Goes("byte", "send", FALSE, Current.data[buf + 1], bus.pos, buf + 1)
    [] buf + 1 >= Current.len + (IF IsLast THEN 0 ELSE 1) /\ IsLast -> Complete("done")
    [] buf + 1 >= Current.len + (IF IsLast THEN 0 ELSE 1) /\ GoesOn ->
         Goes("byte", "send", FALSE, bus.msgs[bus.pos + 1].data[1], bus.pos + 1, 1)
    [] buf + 1 >= Current.len + (IF IsLast THEN 0 ELSE 1) /\ ~IsLast /\ ~GoesOn ->
         Goes("start", "none", FALSE, 0, bus.pos + 1, 0)

(* A byte was acknowledged, sent or received, or the address to write to:  *)
(* more of this message, the next one with or without a start, or the end. *)
AfterByte(status, buf) ==
  CASE buf < Current.len /\ Receives(status) ->
         Goes("byte", "receive", buf + 1 < Current.len \/ GoesOn, 0, bus.pos, buf)
    [] buf < Current.len /\ ~Receives(status) ->
         Goes("byte", "send", FALSE, Current.data[buf + 1], bus.pos, buf + 1)
    [] buf >= Current.len /\ IsLast -> Complete("done")
    [] buf >= Current.len /\ GoesOn ->
         Goes("byte", "send", FALSE, bus.msgs[bus.pos + 1].data[1], bus.pos + 1, 1)
    [] buf >= Current.len /\ ~IsLast /\ ~GoesOn ->
         Goes("start", "none", FALSE, 0, bus.pos + 1, 0)

(* The start that is asked for after a lost arbitration is overwritten     *)
(* before the interrupt returns: the bus is only released.                 *)
Handle(status, in) ==
  /\ taken' = IF Receives(status) THEN Append(taken, in) ELSE taken
  /\ CASE status = "START" ->
            Goes("byte", "address", FALSE, Current.dir, bus.pos, bus.buf)
       [] status = "MR_SLA_ACK" ->
            Goes("byte", "receive", Current.len > 1 \/ GoesOn, 0, bus.pos, bus.buf)
       [] Receives(status) -> AfterByte(status, bus.buf + 1)
       [] status \in {"MT_SLA_ACK", "MT_DATA_ACK"} -> AfterByte(status, bus.buf)
       [] status = "ARB_LOST" -> Goes("none", "lost", FALSE, 0, bus.pos, bus.buf)
       [] status \in {"MT_SLA_NACK", "MR_SLA_NACK"} -> Complete("ENODEV")
       [] status \in {"MT_DATA_NACK", "BUS_ERROR"} -> Complete("EIO")

(* The hardware finishes its step and the interrupt is served. *)
TwiInterrupt ==
  /\ hw.step # "none"
  /\ clock' = Works.clock
  /\ Handle(Works.status, Works.in)
  /\ UNCHANGED <<ops, i2cFaults, overdue>>

TwiFault ==
  /\ hw.step # "none"
  /\ i2cFaults < I2cMaxFaults /\ i2cFaults' = i2cFaults + 1
  /\ \/ \E o \in GoesWrong : Handle(o.status, o.in)
     \/ hw' = Idle /\ UNCHANGED <<bus, taken, rtc>>
  /\ UNCHANGED <<clock, ops, overdue>>

(* Mutant: the timeout stops the bus and does not wake the caller.         *)
OnTimeout_NoComplete ==
  /\ bus.timer /\ hw.step = "none"
  /\ bus' = [bus EXCEPT !.timer = FALSE]
  /\ overdue' = TRUE
  /\ UNCHANGED <<rtc, hw, taken, clock, ops, i2cFaults>>

(* i2c_on_timeout: the bus is told to stop, the caller is woken, and xfer  *)
(* stays: nothing is transferred any more until the controller restarts.   *)
OnTimeout ==
  /\ bus.timer /\ hw.step = "none"
  /\ bus' = [bus EXCEPT !.timer = FALSE]
  /\ overdue' = TRUE
  /\ rtc' = Ended("EINTR", NoOp)
  /\ UNCHANGED <<hw, taken, clock, ops, i2cFaults>>

I2cNext == Call \/ WakesUp \/ TwiInterrupt \/ TwiFault \/ OnTimeout

(* The hardware ends its steps but for the faults, the timer expires, the  *)
(* caller is woken.                                                        *)
I2cFairness ==
  WF_i2cVars(WakesUp) /\ WF_i2cVars(TwiInterrupt) /\ WF_i2cVars(OnTimeout)

I2cSpec == I2cInit /\ [][I2cNext]_i2cVars /\ I2cFairness

-----------------------------------------------------------------------------
(* When an operation reports success the clock holds the time that was     *)
(* set, in all its registers, or the time that was got is the clock's; and *)
(* the clock trusts it (rtc_set, rtc_get, TWI_vect).                       *)
ClockTold ==
  rtc.last.op # "none" =>
    /\ Osf(clock.regs[Status]) = 0
    /\ \A r \in 0 .. TimeRegs - 1 :
         clock.regs[r] = IF rtc.last.op = "set" THEN rtc.last.time ELSE taken[r + 1]

(* The mark that the time is not valid goes only when a time was written   *)
(* as a whole, whatever fails on the bus (rtc_set, rtc_ds3231_init).       *)
MarkedWhenWhole ==
  [][(Osf(clock.regs[Status]) = 1 /\ Osf(clock'.regs[Status]) = 0)
       => \A r \in 0 .. TimeRegs - 1 : clock'.regs[r] = rtc.now.time]_i2cVars

(* A caller that sleeps is woken: the bus works for it and the timeout     *)
(* runs.  Without one the bus is at rest and, but for a timeout that came  *)
(* before, free (i2c_transfer, TWI_vect, i2c_on_timeout).                  *)
CallerWatched ==
  /\ rtc.now.op # "none" /\ rtc.result # "done" => bus.busy /\ bus.timer
  /\ rtc.now.op = "none" =>
       hw.step = "none" /\ ~bus.timer /\ (bus.busy => overdue)

(* After a lost arbitration the transfer is begun again: "send a re-START" *)
(* says the comment at TW_MR_ARB_LOST in TWI_vect.                         *)
LossIsRetried == hw.mode = "lost" => hw.step = "start"

(* Every operation on the clock returns. *)
ClockAnswers == rtc.now.op # "none" ~> rtc.now.op = "none"

=============================================================================
