------------------------------ MODULE MCParts ------------------------------
(***************************************************************************)
(* The parts that stand alone for TLC, one in each behaviour: the Wiegand  *)
(* reader, the clock on the I2C bus, the serial line and a right with one  *)
(* time passwords.  They share no state but the timers and the work queue, *)
(* which have modules of their own.                                        *)
(***************************************************************************)
EXTENDS Wiegand, I2c, UartLink, AclOtp

VARIABLES part \* the one that the behaviour is about

partVars == <<part, wrVars, i2cVars, ulVars, otpVars>>

-----------------------------------------------------------------------------
(* The words of a reader: keys of four bits and of eight, where the second *)
(* half is the complement of the first, and a card of 24 bits between its  *)
(* parity bits.  What each stands for is written down here and not         *)
(* computed, so that the decoder has something to be compared with.        *)
BitOf(n, i) == (n \div 2 ^ i) % 2
Ones(n, from, to) == Cardinality({i \in from .. to : BitOf(n, i) = 1})

Key(k) == [i \in 1 .. 4 |-> BitOf(k, 4 - i)]
Key8(k) ==
  [i \in 1 .. 8 |-> IF i <= 4 THEN BitOf(k, 4 - i) ELSE 1 - BitOf(k, 8 - i)]
Card(n) ==
  <<Ones(n, 12, 23) % 2>> \o [i \in 1 .. 24 |-> BitOf(n, 24 - i)]
    \o <<1 - (Ones(n, 0, 11) % 2)>>

MCMeaning ==
  [w \in {Key(5), Key(8), Key8(6), Card(5570645)} |->
     CASE w = Key(5) -> [kind |-> "KEY", value |-> 5]
       [] w = Key(8) -> [kind |-> "KEY", value |-> 8]
       [] w = Key8(6) -> [kind |-> "KEY", value |-> 6]
       [] w = Card(5570645) -> [kind |-> "CARD", value |-> 5570645]]

-----------------------------------------------------------------------------
(* A byte has five bits: 5 and 6 are escaped.                              *)
MCFlip(byte) == (byte + 16) % 32
MCCrcUpdate(crc, byte) == (crc * 31 + byte + 6) % 1021

MCAsked == {Message(1, << >>), Message(2, <<5, 3>>), Message(3, <<9>>)}
MCCommands == [t \in {1, 2} |-> IF t = 1 THEN 0 ELSE 2]
(* With its escapes, one in the checksum, the second of these is too long  *)
(* for outbuf.                                                             *)
MCAnswers == {<< >>, <<5, 6>>}

-----------------------------------------------------------------------------
(* The hash of a one time password. *)
MCHotp(n) == (7 * n + 3) % 1009

-----------------------------------------------------------------------------
Init ==
  /\ part \in {"reader", "clock", "line", "password"}
  /\ WrInit /\ I2cInit /\ UlInit /\ OtpInit
  /\ part # "clock" => clock.regs[Status] = 0 /\ clock.regs[0] = CHOOSE t \in Times : TRUE
  /\ part # "password" => type = "hotp" /\ value = 0 /\ follow = CHOOSE f \in Followings : TRUE

Reader(A) == part = "reader" /\ A /\ UNCHANGED <<part, i2cVars, ulVars, otpVars>>
Clock(A) == part = "clock" /\ A /\ UNCHANGED <<part, wrVars, ulVars, otpVars>>
Line(A) == part = "line" /\ A /\ UNCHANGED <<part, wrVars, i2cVars, otpVars>>
Password(A) == part = "password" /\ A /\ UNCHANGED <<part, wrVars, i2cVars, ulVars>>

Next == Reader(WrNext) \/ Clock(I2cNext) \/ Line(UlNext) \/ Password(OtpNext)

(* WrFairness, I2cFairness and UlFairness, for the part that there is.     *)
Fairness ==
  /\ WF_partVars(Reader(WordTimeout)) /\ WF_partVars(Reader(ServedLate))
  /\ WF_partVars(Reader(ReaderEdge))
  /\ WF_partVars(Clock(WakesUp)) /\ WF_partVars(Clock(TwiInterrupt))
  /\ WF_partVars(Clock(OnTimeout))
  /\ WF_partVars(Line(Run)) /\ WF_partVars(Line(Reply)) /\ WF_partVars(Line(Boot))
  /\ WF_partVars(Line(TxReady))

Spec == Init /\ [][Next]_partVars /\ Fairness

=============================================================================
