---------------------------- MODULE DriverProofs ----------------------------
(***************************************************************************)
(* Theorems about the Wiegand reader, the I2C master with its clock, and   *)
(* the serial line.  A word that is sent to the reader without trouble is  *)
(* reported for what it is.  On the bus and on the line somebody waits for *)
(* an interrupt, and what he waits for is always under way; what an        *)
(* operation on the clock tells is true; and a message on the line is      *)
(* heard.                                                                  *)
(***************************************************************************)
EXTENDS Wiegand, I2c, UartLink, SequenceTheorems, WellFoundedInduction, TLAPS

-----------------------------------------------------------------------------
(* The reader *)

(* What is decoded depends on the bits that were counted alone. *)
LEMMA NumberOfRange ==
  ASSUME NEW from \in Nat, NEW to \in Nat, NEW a, NEW b, \A i \in from .. to : a[i] = b[i]
  PROVE  Number(a, from, to) = Number(b, from, to)
<1> DEFINE F(x, f) == [k \in 0 .. to - from + 1 |->
                         IF k = 0 THEN 0 ELSE 2 * f[k - 1] + x[from + k - 1]]
<1>1. ASSUME NEW f
      PROVE  F(a, f) = F(b, f)
  <2>1. ASSUME NEW k \in 0 .. to - from + 1, k # 0
        PROVE  a[from + k - 1] = b[from + k - 1]
    <3>1. from + k - 1 \in from .. to
      BY <2>1
    <3> QED BY <3>1
  <2> QED BY <2>1
<1>2. Number(a, from, to) = (CHOOSE f : f = F(a, f))[to - from + 1]
  BY DEF Number
<1>3. Number(b, from, to) = (CHOOSE f : f = F(b, f))[to - from + 1]
  BY DEF Number
<1>4. (CHOOSE f : f = F(a, f)) = (CHOOSE f : f = F(b, f))
  <2> HIDE DEF F
  <2>1. \A f : f = F(a, f) <=> f = F(b, f)
    BY <1>1
  <2> QED BY <2>1, Zenon
<1> QED BY <1>2, <1>3, <1>4, Zenon

LEMMA ParityOfRange ==
  ASSUME NEW from \in Nat, NEW to \in Nat, NEW a, NEW b, \A i \in from .. to : a[i] = b[i]
  PROVE  Parity(a, from, to) = Parity(b, from, to)
<1>1. {i \in from .. to : a[i] = 1} = {i \in from .. to : b[i] = 1}
  OBVIOUS
<1> QED BY <1>1, Zenon DEF Parity

LEMMA DecodeOfBits ==
  ASSUME NEW num \in Nat, NEW a, NEW b, num < 27 => \A i \in 0 .. num - 1 : a[i] = b[i]
  PROVE  Decode(a, num) = Decode(b, num)
<1>1. ASSUME \A i \in 0 .. 3 : a[i] = b[i]
      PROVE  Code4(a) = Code4(b)
  <2>1. Number(a, 0, 3) = Number(b, 0, 3)
    <3>1. PICK from \in Nat, to \in Nat : from = 0 /\ to = 3
      OBVIOUS
    <3>2. \A i \in from .. to : a[i] = b[i]
      BY <1>1, <3>1
    <3>3. Number(a, from, to) = Number(b, from, to)
      BY <3>2, NumberOfRange, Zenon
    <3> QED BY <3>1, <3>3, Zenon
  <2> QED BY <2>1, Zenon DEF Code4
<1>2. CASE num = 4
  <2>1. \A i \in 0 .. 3 : a[i] = b[i]
    BY <1>2
  <2>2. Code4(a) = Code4(b)
    BY <2>1, <1>1
  <2> QED BY <1>2, <2>2 DEF Decode
<1>3. CASE num = 8
  <2>1. \A i \in 0 .. 7 : a[i] = b[i]
    BY <1>3
  <2>2. \A i \in 0 .. 3 : a[i] = b[i]
    BY <2>1
  <2>3. Code4(a) = Code4(b)
    BY <2>2, <1>1
  <2>4. LowHalf(a) = LowHalf(b) /\ HighHalf(a) = HighHalf(b)
    BY <2>1 DEF LowHalf, HighHalf
  <2>5. Code8(a) = Code8(b)
    BY <2>3, <2>4, Zenon DEF Code8
  <2> QED BY <1>3, <2>5 DEF Decode
<1>4. CASE num = 26
  <2>1. \A i \in 0 .. 25 : a[i] = b[i]
    BY <1>4
  <2>2. /\ \A i \in 1 .. 24 : a[i] = b[i]
        /\ \A i \in 1 .. 12 : a[i] = b[i]
        /\ \A i \in 13 .. 24 : a[i] = b[i]
        /\ a[0] = b[0] /\ a[25] = b[25]
    BY <2>1
  <2>3. Number(a, 1, 24) = Number(b, 1, 24)
    <3>1. PICK from \in Nat, to \in Nat : from = 1 /\ to = 24
      OBVIOUS
    <3>2. \A i \in from .. to : a[i] = b[i]
      BY <2>2, <3>1
    <3>3. Number(a, from, to) = Number(b, from, to)
      BY <3>2, NumberOfRange, Zenon
    <3> QED BY <3>1, <3>3, Zenon
  <2>4. Parity(a, 1, 12) = Parity(b, 1, 12)
    <3>1. PICK from \in Nat, to \in Nat : from = 1 /\ to = 12
      OBVIOUS
    <3>2. \A i \in from .. to : a[i] = b[i]
      BY <2>2, <3>1
    <3>3. Parity(a, from, to) = Parity(b, from, to)
      BY <3>2, ParityOfRange, Zenon
    <3> QED BY <3>1, <3>3, Zenon
  <2>5. Parity(a, 13, 24) = Parity(b, 13, 24)
    <3>1. PICK from \in Nat, to \in Nat : from = 13 /\ to = 24
      OBVIOUS
    <3>2. \A i \in from .. to : a[i] = b[i]
      BY <2>2, <3>1
    <3>3. Parity(a, from, to) = Parity(b, from, to)
      BY <3>2, ParityOfRange, Zenon
    <3> QED BY <3>1, <3>3, Zenon
  <2>6. Code26(a) = Code26(b)
    BY <2>2, <2>3, <2>4, <2>5, Zenon DEF Code26
  <2> QED BY <1>4, <2>6 DEF Decode
<1>5. CASE num \notin {4, 8, 26}
  BY <1>5 DEF Decode
<1> QED BY <1>2, <1>3, <1>4, <1>5

(* Eight bits never are a key, whatever they are                           *)
(* (wiegand_reader_process_8bits_code).                                    *)
THEOREM EightBitsRefused ==
  ASSUME NEW bits \in [0 .. 7 -> {0, 1}]
  PROVE  Decode(bits, 8) = Bad
<1>1. \A i \in 0 .. 7 : bits[i] \in {0, 1}
  OBVIOUS
<1>2. /\ bits[0] \in Nat /\ bits[1] \in Nat /\ bits[2] \in Nat /\ bits[3] \in Nat
      /\ bits[4] \in Nat /\ bits[5] \in Nat /\ bits[6] \in Nat /\ bits[7] \in Nat
  BY <1>1
<1>3. LowHalf(bits) # -HighHalf(bits) - 1
  BY <1>2 DEF LowHalf, HighHalf
<1>4. Code8(bits) = Bad
  BY <1>3, Zenon DEF Code8
<1> QED BY <1>4 DEF Decode

Level == {0, 1}
ReaderRecord ==
  [data : [Lines -> Level], num : 0 .. 255, bits : [0 .. BitsSize - 1 -> Level],
   timer : BOOLEAN]

(* The record knows the lines as the interrupt saw them last, and without  *)
(* the timeout of a word it has no bits.                                   *)
ReaderInv ==
  /\ pins \in [Lines -> Level] /\ latched \in BOOLEAN /\ wr \in ReaderRecord
  /\ ~latched => wr.data = pins
  /\ ~wr.timer => wr.num = 0
  /\ begun \subseteq DOMAIN Meaning /\ (word # << >> => word \in begun)
  /\ edge \in 0 .. 2 * Len(word)

(* The four changes of the lines.                                          *)
LEMMA LevelsAre ==
  ASSUME NEW d \in [Lines -> Level]
  PROVE  /\ d = Low <=> d[0] = 0 /\ d[1] = 0
         /\ d = High <=> d[0] = 1 /\ d[1] = 1
<1>1. d = [l \in Lines |-> d[l]] /\ Lines = {0, 1} /\ d[0] \in Level /\ d[1] \in Level
  BY DEF Lines
<1> QED BY <1>1 DEF Low, High, Lines, Level

Changed(to, now, data) ==
  /\ data[0] = 0 /\ data[1] = 0 => to = [now EXCEPT !.num = 0, !.timer = FALSE]
  /\ data[0] = 1 /\ data[1] = 1 => to = [now EXCEPT !.num = (@ + 1) % 256, !.timer = TRUE]
  /\ data[0] = 1 /\ data[1] = 0 => to = WithBit(now, 1)
  /\ data[0] = 0 /\ data[1] = 1 => to = WithBit(now, 0)

LEMMA PinChangedIs ==
  ASSUME NEW r \in ReaderRecord, NEW l \in Lines, NEW level \in Level,
         NEW data, data = [r.data EXCEPT ![l] = level],
         NEW now, now = [r EXCEPT !.data = data]
  PROVE  Changed(PinChanged(r, l, level), now, data)
<1>1. data \in [Lines -> Level]
  BY DEF ReaderRecord
<1>2. PinChanged(r, l, level) =
        CASE data = Low -> [now EXCEPT !.num = 0, !.timer = FALSE]
          [] data = High -> [now EXCEPT !.num = (@ + 1) % 256, !.timer = TRUE]
          [] data[0] = 1 /\ data[1] = 0 -> WithBit(now, 1)
          [] data[0] = 0 /\ data[1] = 1 -> WithBit(now, 0)
  BY Zenon DEF PinChanged
<1>3. /\ data = Low <=> data[0] = 0 /\ data[1] = 0
      /\ data = High <=> data[0] = 1 /\ data[1] = 1
  BY <1>1, LevelsAre
<1> QED BY <1>2, <1>3 DEF Changed

LEMMA WithBitKeeps ==
  ASSUME NEW r \in ReaderRecord, NEW b \in Level
  PROVE  /\ WithBit(r, b) \in ReaderRecord
         /\ WithBit(r, b).data = r.data /\ WithBit(r, b).num = r.num
         /\ WithBit(r, b).timer = r.timer
         /\ \A i \in 0 .. BitsSize - 1 :
              WithBit(r, b).bits[i] = IF i = r.num THEN b ELSE r.bits[i]
<1>1. r.num \in 0 .. 255 /\ BitsSize \in Nat
  BY WiegandAssumption DEF ReaderRecord
<1>2. CASE r.num < BitsSize
  <2>1. PICK bits : bits = [r.bits EXCEPT ![r.num] = b]
    OBVIOUS
  <2>2. r.num \in 0 .. BitsSize - 1
    BY <1>1, <1>2
  <2>3. /\ bits \in [0 .. BitsSize - 1 -> Level]
        /\ \A i \in 0 .. BitsSize - 1 : bits[i] = IF i = r.num THEN b ELSE r.bits[i]
    BY <2>1, <2>2 DEF ReaderRecord
  <2>4. WithBit(r, b) = [r EXCEPT !.bits = bits]
    BY <1>2, <2>1, Zenon DEF WithBit
  <2> QED BY <2>3, <2>4 DEF ReaderRecord
<1>3. CASE ~(r.num < BitsSize)
  <2>1. WithBit(r, b) = r
    BY <1>3, Zenon DEF WithBit
  <2> QED BY <1>1, <1>3, <2>1
<1> QED BY <1>2, <1>3

LEMMA DataSet ==
  ASSUME NEW r \in ReaderRecord, NEW data \in [Lines -> Level],
         NEW now, now = [r EXCEPT !.data = data]
  PROVE  /\ now \in ReaderRecord /\ now.data = data
         /\ now.num = r.num /\ now.bits = r.bits /\ now.timer = r.timer
BY DEF ReaderRecord

LEMMA PinChangedKeeps ==
  ASSUME NEW r \in ReaderRecord, NEW l \in Lines, NEW level \in Level,
         ~r.timer => r.num = 0
  PROVE  LET p == PinChanged(r, l, level)
         IN /\ p \in ReaderRecord /\ p.data = [r.data EXCEPT ![l] = level]
            /\ ~p.timer => p.num = 0
<1>1. PICK data \in [Lines -> Level] : data = [r.data EXCEPT ![l] = level]
  BY DEF ReaderRecord
<1>2. PICK now : now = [r EXCEPT !.data = data]
  OBVIOUS
<1>3. now \in ReaderRecord /\ now.data = data /\ (~now.timer => now.num = 0)
  BY <1>2, DataSet
<1>4. PICK p : p = PinChanged(r, l, level)
  OBVIOUS
<1>5. Changed(p, now, data)
  BY <1>1, <1>2, <1>4, PinChangedIs, Zenon
<1>6. data[0] \in Level /\ data[1] \in Level
  BY DEF Lines
<1>7. CASE p = [now EXCEPT !.num = 0, !.timer = FALSE]
  <2>1. p \in ReaderRecord /\ p.data = data /\ p.num = 0
    BY <1>3, <1>7, 0 \in 0 .. 255 DEF ReaderRecord
  <2> QED BY <1>1, <1>4, <2>1
<1>8. CASE p = [now EXCEPT !.num = (@ + 1) % 256, !.timer = TRUE]
  <2>1. (now.num + 1) % 256 \in 0 .. 255
    <3>1. now.num \in 0 .. 255
      BY <1>3 DEF ReaderRecord
    <3> QED BY <3>1
  <2>2. p \in ReaderRecord /\ p.data = data /\ p.timer
    BY <1>3, <1>8, <2>1 DEF ReaderRecord
  <2> QED BY <1>1, <1>4, <2>2
<1>9. CASE \E b \in Level : p = WithBit(now, b)
  <2>1. PICK b \in Level : p = WithBit(now, b)
    BY <1>9
  <2>2. p \in ReaderRecord /\ p.data = data /\ (~p.timer => p.num = 0)
    BY <1>3, <2>1, WithBitKeeps
  <2> QED BY <1>1, <1>4, <2>2
<1>10. 0 \in Level /\ 1 \in Level
  BY DEF Level
<1> QED BY <1>5, <1>6, <1>7, <1>8, <1>9, <1>10 DEF Changed, Level

(* After the interrupt the record knows the lines. *)
LEMMA HandlerKeeps ==
  ASSUME wr \in ReaderRecord, ~wr.timer => wr.num = 0,
         NEW levels \in [Lines -> Level], Handler(levels)
  PROVE  wr' \in ReaderRecord /\ wr'.data = levels /\ (~wr'.timer => wr'.num = 0)
<1> DEFINE Knows(r) == r \in ReaderRecord /\ (~r.timer => r.num = 0)
<1>1. 0 \in Lines /\ 1 \in Lines /\ levels[0] \in Level /\ levels[1] \in Level
  BY DEF Lines
<1>2. PICK first : first = IF levels[0] = wr.data[0] THEN wr ELSE PinChanged(wr, 0, levels[0])
  OBVIOUS
<1>3. wr' = IF levels[1] = wr.data[1] THEN first ELSE PinChanged(first, 1, levels[1])
  BY <1>2, Zenon DEF Handler
<1>4. wr.data \in [Lines -> Level]
  BY DEF ReaderRecord
<1>5. Knows(first) /\ first.data[0] = levels[0] /\ first.data[1] = wr.data[1]
  <2>1. CASE levels[0] = wr.data[0]
    BY <1>2, <2>1
  <2>2. CASE levels[0] # wr.data[0]
    <3>1. first = PinChanged(wr, 0, levels[0])
      BY <1>2, <2>2
    <3>2. Knows(first) /\ first.data = [wr.data EXCEPT ![0] = levels[0]]
      BY <1>1, <3>1, PinChangedKeeps
    <3> QED BY <1>1, <1>4, <3>2 DEF Lines
  <2> QED BY <2>1, <2>2
<1>6. first.data \in [Lines -> Level]
  BY <1>5 DEF ReaderRecord
<1>7. Knows(wr') /\ wr'.data[0] = levels[0] /\ wr'.data[1] = levels[1]
  <2>1. CASE levels[1] = wr.data[1]
    BY <1>3, <1>5, <2>1
  <2>2. CASE levels[1] # wr.data[1]
    <3>1. wr' = PinChanged(first, 1, levels[1])
      BY <1>3, <2>2
    <3>2. Knows(wr') /\ wr'.data = [first.data EXCEPT ![1] = levels[1]]
      BY <1>1, <1>5, <3>1, PinChangedKeeps
    <3> QED BY <1>1, <1>5, <1>6, <3>2 DEF Lines
  <2> QED BY <2>1, <2>2
<1>8. wr'.data \in [Lines -> Level]
  BY <1>7 DEF ReaderRecord
<1>9. \A l \in Lines : wr'.data[l] = levels[l]
  BY <1>7 DEF Lines
<1> QED BY <1>7, <1>8, <1>9

(* One of the lines changes, and not to the state without a reader:        *)
(* nothing is reported.                                                    *)
LEMMA OneLineChanges ==
  ASSUME wr \in ReaderRecord, NEW l \in Lines, NEW level \in Level,
         NEW levels \in [Lines -> Level], levels = [wr.data EXCEPT ![l] = level],
         wr.data[l] # level, levels # Low, Handler(levels), heard = << >>
  PROVE  wr' = PinChanged(wr, l, level) /\ heard' = << >>
<1>1. wr.data \in [Lines -> Level]
  BY DEF ReaderRecord
<1>2. /\ levels[l] = level
      /\ \A k \in Lines : k # l => levels[k] = wr.data[k]
  BY <1>1
<1>3. NoReader(wr, l, level) = << >>
  BY Zenon DEF NoReader
<1>4. CASE l = 0
  <2>1. levels[0] # wr.data[0] /\ levels[1] = wr.data[1] /\ level = levels[0]
    BY <1>2, <1>4 DEF Lines
  <2>2. wr' = PinChanged(wr, 0, levels[0])
    BY <2>1, Zenon DEF Handler
  <2>3. heard' = heard \o NoReader(wr, 0, levels[0]) \o << >>
    BY <2>1, Zenon DEF Handler
  <2> QED BY <1>3, <1>4, <2>1, <2>2, <2>3
<1>5. CASE l = 1
  <2>1. levels[1] # wr.data[1] /\ levels[0] = wr.data[0] /\ level = levels[1]
    BY <1>2, <1>5 DEF Lines
  <2>2. wr' = PinChanged(wr, 1, levels[1])
    BY <2>1, Zenon DEF Handler
  <2>3. heard' = heard \o << >> \o NoReader(wr, 1, levels[1])
    BY <2>1, Zenon DEF Handler
  <2> QED BY <1>3, <1>5, <2>1, <2>2, <2>3
<1> QED BY <1>4, <1>5 DEF Lines

(* The bits of a word, and what a reader of them would report.             *)
BitsOf(w) == [i \in 0 .. Len(w) - 1 |-> w[i + 1]]
Meant(w) == Decode(BitsOf(w), Len(w))

Pulse == [High EXCEPT ![word[(edge \div 2) + 1]] = 0]

Reading ==
  /\ heard = << >> /\ wr.num = edge \div 2
  /\ \A i \in 0 .. BitsSize - 1 : 2 * i < edge => wr.bits[i] = word[i + 1]

Read == AllSent /\ ~wr.timer /\ heard = <<Meant(word)>>

(* While nothing goes wrong the interrupt has seen every edge, and the     *)
(* record holds the bits whose pulses began, or the word is reported.      *)
ReadInv ==
  undisturbed =>
    ~latched /\ pins = (IF edge % 2 = 0 THEN High ELSE Pulse) /\ (Reading \/ Read)

LEMMA WordShape ==
  ASSUME ReaderInv
  PROVE  word \in Seq(Level) /\ Len(word) \in 0 .. 255
<1>1. CASE word = << >>
  BY <1>1
<1>2. CASE word # << >>
  <2>1. word \in DOMAIN Meaning
    BY <1>2 DEF ReaderInv
  <2>2. word \in Seq(Level) /\ Len(word) < 256
    BY <2>1, WiegandAssumption DEF Level
  <2>3. PICK len \in Nat : len = Len(word)
    BY <2>2
  <2>4. len < 256
    BY <2>2, <2>3, Zenon
  <2>5. len \in 0 .. 255
    BY <2>4
  <2> QED BY <2>2, <2>3, <2>5, Zenon
<1> QED BY <1>1, <1>2

LEMMA EdgeHalves ==
  ASSUME NEW e \in Nat
  PROVE  /\ e % 2 = 0 => (e + 1) \div 2 = e \div 2 /\ (e + 1) % 2 = 1 /\ e = 2 * (e \div 2)
         /\ e % 2 # 0 => /\ (e + 1) \div 2 = (e \div 2) + 1 /\ (e + 1) % 2 = 0
                         /\ e = 2 * (e \div 2) + 1 /\ e % 2 = 1
         /\ e \div 2 \in Nat
OBVIOUS

LEMMA PulseLine ==
  ASSUME ReaderInv, ~AllSent
  PROVE  /\ edge \in Nat /\ edge \div 2 < Len(word) /\ edge \div 2 \in 0 .. 254
         /\ word[(edge \div 2) + 1] \in Lines
<1>1. PICK len \in 0 .. 255 : len = Len(word) /\ word \in Seq(Level)
  BY WordShape
<1>2. edge \in 0 .. 2 * len
  BY <1>1 DEF ReaderInv
<1>3. edge # 2 * len
  BY <1>1 DEF AllSent
<1>4. edge \in Nat /\ edge \div 2 < len /\ edge \div 2 \in 0 .. 254
  <2>1. edge \in Nat /\ edge < 2 * len
    BY <1>2, <1>3
  <2>2. PICK n \in Nat : n = edge \div 2 /\ (edge = 2 * n \/ edge = 2 * n + 1)
    BY <2>1
  <2>3. n < len
    BY <2>1, <2>2
  <2> QED BY <2>1, <2>2, <2>3
<1>5. (edge \div 2) + 1 \in 1 .. len
  BY <1>4
<1>6. word[(edge \div 2) + 1] \in Level
  BY <1>1, <1>5
<1> QED BY <1>1, <1>4, <1>6 DEF Lines, Level

(* A pulse begins: its bit is noted.                                       *)
LEMMA PulseBegins ==
  ASSUME ReaderInv, ReadInv, undisturbed, edge % 2 = 0,
         ~AllSent, edge' = edge + 1, LinesChange(ReaderPulse), UNCHANGED word
  PROVE  pins' = Pulse' /\ ~latched' /\ Reading'
<1> DEFINE n == edge \div 2
           l == word[n + 1]
<1>1. edge \in Nat /\ n \in 0 .. 254 /\ l \in Lines
  BY PulseLine
<1> HIDE DEF l
<1>2. /\ (edge + 1) \div 2 = n /\ (edge + 1) % 2 = 1 /\ edge = 2 * n
  BY <1>1, EdgeHalves
<1>3. pins = High /\ wr.data = High /\ wr \in ReaderRecord
  BY DEF ReadInv, ReaderInv
<1>4. heard = << >> /\ wr.num = n /\ \A i \in 0 .. BitsSize - 1 : i < n => wr.bits[i] = word[i + 1]
  BY <1>2 DEF ReadInv, Read, Reading
<1>5. PICK levels : levels = [High EXCEPT ![l] = 0]
  OBVIOUS
<1>6. ReaderPulse = levels
  BY <1>3, <1>5 DEF ReaderPulse, l
<1>7. /\ levels \in [Lines -> Level] /\ levels[l] = 0
      /\ \A k \in Lines : k # l => levels[k] = 1
      /\ High[l] = 1
  BY <1>1, <1>5 DEF High, Level
<1>8. levels # Low
  BY <1>1, <1>7 DEF Lines, Low
<1>9. wr' = PinChanged(wr, l, 0) /\ heard' = << >>
  <2>1. Handler(levels)
    BY <1>6 DEF LinesChange
  <2>2. 0 \in Level
    BY DEF Level
  <2>3. levels = [wr.data EXCEPT ![l] = 0] /\ wr.data[l] # 0
    BY <1>3, <1>5, <1>7
  <2> QED BY <1>1, <1>3, <1>4, <1>7, <1>8, <2>1, <2>2, <2>3, OneLineChanges
<1>10. PICK now : now = [wr EXCEPT !.data = levels]
  OBVIOUS
<1>11. Changed(wr', now, levels)
  BY <1>1, <1>3, <1>5, <1>9, <1>10, 0 \in Level, PinChangedIs, Zenon DEF Level
<1>12. wr' = WithBit(now, l) /\ l \in Level
  BY <1>1, <1>7, <1>11 DEF Changed, Lines, Level
<1>13. now \in ReaderRecord /\ now.num = n /\ now.bits = wr.bits
  <2>1. now \in ReaderRecord /\ now.num = wr.num /\ now.bits = wr.bits
    BY <1>3, <1>7, <1>10, DataSet
  <2> QED BY <1>4, <2>1
<1>14. /\ wr'.num = n
       /\ \A i \in 0 .. BitsSize - 1 : wr'.bits[i] = IF i = n THEN l ELSE wr.bits[i]
  BY <1>12, <1>13, WithBitKeeps
<1>15. ASSUME NEW i \in 0 .. BitsSize - 1, 2 * i < edge'
       PROVE  wr'.bits[i] = word'[i + 1]
  <2>1. i < n \/ i = n
    BY <1>1, <1>2, <1>15, WiegandAssumption
  <2> QED BY <1>4, <1>14, <2>1 DEF l
<1>16. Reading'
  BY <1>2, <1>9, <1>14, <1>15 DEF Reading
<1>17. pins' = Pulse'
  BY <1>2, <1>5, <1>6 DEF LinesChange, Pulse, l
<1> QED BY <1>16, <1>17 DEF LinesChange

(* A pulse ends: its bit counts.                                           *)
LEMMA PulseEnds ==
  ASSUME ReaderInv, ReadInv, undisturbed, edge % 2 # 0,
         ~AllSent, edge' = edge + 1, LinesChange(ReaderPulse), UNCHANGED word
  PROVE  pins' = High /\ ~latched' /\ Reading'
<1> DEFINE n == edge \div 2
           l == word[n + 1]
<1>1. edge \in Nat /\ n \in 0 .. 254 /\ l \in Lines
  BY PulseLine
<1> HIDE DEF l
<1>2. (edge + 1) \div 2 = n + 1 /\ edge = 2 * n + 1 /\ edge % 2 = 1
  BY <1>1, EdgeHalves
<1>3. pins = [High EXCEPT ![l] = 0] /\ wr.data = pins /\ wr \in ReaderRecord
  BY DEF ReadInv, ReaderInv, Pulse, l
<1>4. /\ heard = << >> /\ wr.num = n
      /\ \A i \in 0 .. BitsSize - 1 : i <= n => wr.bits[i] = word[i + 1]
  <2>1. Reading
    BY DEF ReadInv, Read
  <2>2. ASSUME NEW i \in 0 .. BitsSize - 1, i <= n
        PROVE  wr.bits[i] = word[i + 1]
    <3>1. 2 * i < edge
      BY <1>1, <1>2, <2>2, WiegandAssumption
    <3> QED BY <2>1, <3>1 DEF Reading
  <2> QED BY <2>1, <2>2 DEF Reading
<1>5. /\ High \in [Lines -> Level] /\ High = [wr.data EXCEPT ![l] = 1] /\ wr.data[l] # 1
      /\ High # Low
  <2>1. High \in [Lines -> Level] /\ High[l] = 1 /\ Low[l] = 0
    BY <1>1 DEF High, Low, Level
  <2>2. PICK h \in [Lines -> Level] : h = High
    BY <2>1
  <2>3. PICK d : d = wr.data
    OBVIOUS
  <2>4. h[l] = 1 /\ d = [h EXCEPT ![l] = 0]
    BY <1>3, <2>1, <2>2, <2>3
  <2>5. PICK e : e = [d EXCEPT ![l] = 1]
    OBVIOUS
  <2>6. d \in [Lines -> Level] /\ d[l] = 0
    BY <1>1, <2>2, <2>4 DEF Level
  <2>7. e \in [Lines -> Level] /\ \A k \in Lines : e[k] = h[k]
    BY <1>1, <2>4, <2>5, <2>6 DEF Level
  <2>8. h = [d EXCEPT ![l] = 1] /\ d[l] # 1
    BY <2>2, <2>5, <2>6, <2>7
  <2>9. High # Low
    BY <2>1
  <2> QED BY <2>2, <2>3, <2>8, <2>9, Zenon
<1>6. ReaderPulse = High
  BY <1>2, <1>3, <1>5 DEF ReaderPulse, l
<1>7. wr' = PinChanged(wr, l, 1) /\ heard' = << >>
  <2>1. Handler(High)
    BY <1>6 DEF LinesChange
  <2>2. 1 \in Level
    BY DEF Level
  <2> QED BY <1>1, <1>3, <1>4, <1>5, <2>1, <2>2, OneLineChanges
<1>8. PICK now : now = [wr EXCEPT !.data = High]
  OBVIOUS
<1>9. Changed(wr', now, High)
  BY <1>1, <1>3, <1>5, <1>7, <1>8, PinChangedIs, Zenon DEF Level
<1>10. High[0] = 1 /\ High[1] = 1
  BY DEF High, Lines
<1>11. wr' = [now EXCEPT !.num = (@ + 1) % 256, !.timer = TRUE]
  BY <1>9, <1>10, Zenon DEF Changed
<1>12. now \in ReaderRecord /\ now.num = n /\ now.bits = wr.bits
  <2>1. now \in ReaderRecord /\ now.num = wr.num /\ now.bits = wr.bits
    BY <1>3, <1>5, <1>8, DataSet
  <2> QED BY <1>4, <2>1
<1>13. (n + 1) % 256 = n + 1
  BY <1>1
<1>14. wr'.num = n + 1 /\ wr'.bits = wr.bits
  BY <1>11, <1>12, <1>13 DEF ReaderRecord
<1>15. ASSUME NEW i \in 0 .. BitsSize - 1, 2 * i < edge'
       PROVE  wr'.bits[i] = word'[i + 1]
  <2>1. i <= n
    BY <1>1, <1>2, <1>15, WiegandAssumption
  <2> QED BY <1>4, <1>14, <2>1
<1>16. Reading'
  BY <1>2, <1>7, <1>14, <1>15 DEF Reading
<1> QED BY <1>6, <1>16 DEF LinesChange

LEMMA PulseLevels ==
  ASSUME ReaderInv, ~AllSent
  PROVE  ReaderPulse \in [Lines -> Level] /\ edge + 1 \in 0 .. 2 * Len(word)
<1>1. edge \in Nat /\ edge \div 2 < Len(word)
  BY PulseLine
<1>2. edge % 2 \in Level /\ pins \in [Lines -> Level]
  BY <1>1 DEF Level, ReaderInv
<1>3. edge \in 0 .. 2 * Len(word) /\ edge # 2 * Len(word)
  BY DEF ReaderInv, AllSent
<1>4. PICK len \in 0 .. 255 : len = Len(word)
  BY WordShape
<1>5. edge + 1 \in 0 .. 2 * len
  BY <1>3, <1>4
<1> QED BY <1>2, <1>4, <1>5 DEF ReaderPulse

LEMMA HighLow == High \in [Lines -> Level] /\ Low \in [Lines -> Level] /\ High # Low
<1>1. High \in [Lines -> Level] /\ Low \in [Lines -> Level]
  BY DEF High, Low, Level
<1>2. High[0] = 1 /\ Low[0] = 0
  BY DEF High, Low, Lines
<1> QED BY <1>1, <1>2

LEMMA ReaderInvInit == WrInit => ReaderInv /\ ReadInv
<1> SUFFICES ASSUME WrInit PROVE ReaderInv /\ ReadInv
  OBVIOUS
<1>1. Bits(0) \in [0 .. BitsSize - 1 -> Level] /\ 0 \in 0 .. 255
  BY DEF Bits, Level
<1>2. wr \in ReaderRecord /\ wr.data = High /\ wr.num = 0
  BY <1>1, HighLow DEF WrInit, ReaderRecord
<1>3. edge \in 0 .. 2 * Len(word)
  <2>1. Len(word) = 0 /\ edge = 0
    BY DEF WrInit
  <2> QED BY <2>1
<1>4. ReaderInv
  <2>1. pins = High /\ latched = FALSE /\ word = << >> /\ begun = {}
    BY DEF WrInit
  <2> QED BY <1>2, <1>3, <2>1, HighLow DEF ReaderInv
<1>5. Reading
  BY <1>2, WiegandAssumption DEF WrInit, Reading
<1> QED BY <1>4, <1>5 DEF WrInit, ReadInv

LEMMA ReaderInvStep == ReaderInv /\ [WrNext]_wrVars => ReaderInv'
<1> SUFFICES ASSUME ReaderInv, [WrNext]_wrVars PROVE ReaderInv'
  OBVIOUS
<1> DEFINE Knows ==
      /\ pins' \in [Lines -> Level] /\ latched' \in BOOLEAN /\ wr' \in ReaderRecord
      /\ (~latched' => wr'.data = pins') /\ (~wr'.timer => wr'.num = 0)
    Words == begun' \subseteq DOMAIN Meaning /\ (word' # << >> => word' \in begun')
<1>1. wr \in ReaderRecord /\ (~wr.timer => wr.num = 0) /\ pins \in [Lines -> Level]
  BY DEF ReaderInv
<1>2. ASSUME NEW levels \in [Lines -> Level], LinesChange(levels)
      PROVE  Knows
  <2>1. Handler(levels) /\ pins' = levels /\ latched' = FALSE
    BY <1>2 DEF LinesChange
  <2>2. wr' \in ReaderRecord /\ wr'.data = levels /\ (~wr'.timer => wr'.num = 0)
    BY <1>1, <2>1, HandlerKeeps
  <2> QED BY <2>1, <2>2
<1>3. ASSUME UNCHANGED <<word, begun>>
      PROVE  Words
  BY <1>3 DEF ReaderInv
<1>4. CASE ReaderEdge
  <2>1. ReaderPulse \in [Lines -> Level] /\ edge' \in 0 .. 2 * Len(word')
    BY <1>4, PulseLevels DEF ReaderEdge
  <2>2. CASE LinesChange(ReaderPulse)
    BY <1>2, <1>3, <1>4, <2>1, <2>2 DEF ReaderEdge, ReaderInv
  <2>3. CASE LinesChangeUnserved(ReaderPulse)
    BY <1>1, <1>3, <1>4, <2>1, <2>3 DEF ReaderEdge, LinesChangeUnserved, ReaderInv
  <2> QED BY <1>4, <2>2, <2>3 DEF ReaderEdge
<1>5. CASE ServedLate
  <2>1. LinesChange(pins) /\ UNCHANGED <<word, edge, begun>>
    BY <1>5 DEF ServedLate, LinesChange
  <2> QED BY <1>1, <1>2, <1>3, <2>1 DEF ReaderInv
<1>6. CASE Unplug
  <2>1. LinesChange(Low) /\ word' = << >> /\ edge' = 0 /\ UNCHANGED begun
    BY <1>6 DEF Unplug
  <2>2. Len(word') = 0
    BY <2>1
  <2>3. Words
    BY <2>1 DEF ReaderInv
  <2> QED BY <1>2, <2>1, <2>2, <2>3, HighLow DEF ReaderInv
<1>7. CASE PlugIn
  <2>1. LinesChange(High) /\ UNCHANGED <<word, edge, begun>>
    BY <1>7 DEF PlugIn
  <2> QED BY <1>2, <1>3, <2>1, HighLow DEF ReaderInv
<1>8. CASE \E w \in DOMAIN Meaning : NextWord(w)
  <2>1. PICK w \in DOMAIN Meaning : NextWord(w)
    BY <1>8
  <2>2. Words /\ UNCHANGED <<pins, latched, wr>> /\ edge' = 0 /\ word' = w
    BY <2>1 DEF NextWord, ReaderInv
  <2>3. PICK len \in Nat : len = Len(w)
    BY WiegandAssumption
  <2>4. 0 \in 0 .. 2 * len
    BY <2>3
  <2> QED BY <2>2, <2>3, <2>4 DEF ReaderInv
<1>9. CASE WordTimeout
  <2>1. UNCHANGED <<pins, latched, word, edge, begun>> /\ wr' = [wr EXCEPT !.num = 0, !.timer = FALSE]
    BY <1>9 DEF WordTimeout
  <2>2. wr' \in ReaderRecord /\ wr'.data = wr.data /\ wr'.num = 0
    BY <1>1, <2>1, 0 \in 0 .. 255 DEF ReaderRecord
  <2> QED BY <1>3, <2>1, <2>2 DEF ReaderInv
<1>10. CASE UNCHANGED wrVars
  BY <1>10 DEF wrVars, ReaderInv
<1> QED BY <1>4, <1>5, <1>6, <1>7, <1>8, <1>9, <1>10 DEF WrNext

(* The word timeout after a whole word tells what its bits mean.           *)
LEMMA WholeWordRead ==
  ASSUME ReaderInv, Reading, AllSent
  PROVE  Decoded = Meant(word)
<1>1. PICK len \in 0 .. 255 : len = Len(word)
  BY WordShape
<1>2. wr.num = len /\ edge = 2 * len
  BY <1>1 DEF Reading, AllSent
<1>3. PICK b : b = BitsOf(word)
  OBVIOUS
<1>4. \A i \in 0 .. len - 1 : b[i] = word[i + 1]
  BY <1>1, <1>3 DEF BitsOf
<1>5. ASSUME len < 27, NEW i \in 0 .. len - 1
      PROVE  wr.bits[i] = b[i]
  <2>1. i \in 0 .. BitsSize - 1 /\ 2 * i < edge
    BY <1>2, <1>5, WiegandAssumption
  <2> QED BY <1>4, <2>1 DEF Reading
<1>6. len \in Nat /\ (len < 27 => \A i \in 0 .. len - 1 : wr.bits[i] = b[i])
  BY <1>5
<1>7. Decode(wr.bits, len) = Decode(b, len)
  BY <1>6, DecodeOfBits
<1> QED BY <1>1, <1>2, <1>3, <1>7 DEF Decoded, Meant

LEMMA ReadInvStep == ReaderInv /\ ReadInv /\ [WrNext]_wrVars => ReadInv'
<1> SUFFICES ASSUME ReaderInv, ReadInv, [WrNext]_wrVars, undisturbed'
             PROVE  /\ ~latched' /\ pins' = (IF edge' % 2 = 0 THEN High ELSE Pulse')
                    /\ Reading' \/ Read'
  BY DEF ReadInv
<1>1. undisturbed => /\ ~latched /\ pins = (IF edge % 2 = 0 THEN High ELSE Pulse)
                     /\ Reading \/ Read
  BY DEF ReadInv
<1>2. CASE ReaderEdge
  <2>1. undisturbed /\ LinesChange(ReaderPulse) /\ ~AllSent /\ edge' = edge + 1 /\ word' = word
    BY <1>2 DEF ReaderEdge, NoTrouble, Trouble
  <2>2. edge \in Nat
    BY <2>1, PulseLine
  <2>3. CASE edge % 2 = 0
    <3>1. pins' = Pulse' /\ ~latched' /\ Reading'
      BY <2>1, <2>3, PulseBegins
    <3> QED BY <2>1, <2>2, <2>3, <3>1, EdgeHalves
  <2>4. CASE edge % 2 # 0
    <3>1. pins' = High /\ ~latched' /\ Reading'
      BY <2>1, <2>4, PulseEnds
    <3> QED BY <2>1, <2>2, <2>4, <3>1, EdgeHalves
  <2> QED BY <2>3, <2>4
<1>3. CASE ServedLate
  BY <1>1, <1>3 DEF ServedLate, NoTrouble
<1>4. CASE Unplug
  BY <1>4 DEF Unplug, Trouble
<1>5. CASE PlugIn
  <2>1. undisturbed /\ pins = Low
    BY <1>5 DEF PlugIn, NoTrouble
  <2>2. pins = Pulse /\ edge % 2 # 0
    BY <1>1, <2>1, HighLow
  <2>3. CASE AllSent
    <3>1. PICK len \in 0 .. 255 : len = Len(word)
      BY WordShape
    <3> QED BY <2>2, <2>3, <3>1 DEF AllSent
  <2>4. CASE ~AllSent
    <3>1. PICK l \in Lines : l = word[(edge \div 2) + 1]
      BY <2>4, PulseLine
    <3>2. pins = [High EXCEPT ![l] = 0] /\ 1 - l \in Lines /\ 1 - l # l
      BY <2>2, <3>1 DEF Pulse, Lines
    <3>3. pins[1 - l] = 1 /\ Low[1 - l] = 0
      BY <3>2 DEF High, Low
    <3> QED BY <2>1, <3>3
  <2> QED BY <2>3, <2>4
<1>6. CASE \E w \in DOMAIN Meaning : NextWord(w)
  <2>1. PICK w \in DOMAIN Meaning : NextWord(w)
    BY <1>6
  <2>2. /\ ~wr.timer /\ ~latched /\ pins = High /\ UNCHANGED <<pins, latched, wr>>
        /\ edge' = 0 /\ heard' = << >>
    BY <2>1 DEF NextWord, Trouble
  <2>3. wr'.num = 0
    BY <2>2 DEF ReaderInv
  <2>4. \A i \in 0 .. BitsSize - 1 : ~(2 * i < 0)
    BY WiegandAssumption
  <2>5. Reading'
    BY <2>2, <2>3, <2>4 DEF Reading
  <2> QED BY <2>2, <2>5
<1>7. CASE WordTimeout
  <2>1. undisturbed /\ AllSent /\ wr.timer /\ UNCHANGED <<pins, latched, word, edge>>
    BY <1>7 DEF WordTimeout, NoTrouble, Trouble
  <2>2. Reading
    BY <1>1, <2>1 DEF Read
  <2>3. heard' = <<Meant(word)>>
    <3>1. heard' = Append(<< >>, Meant(word))
      BY <1>7, <2>1, <2>2, WholeWordRead DEF WordTimeout, Reading
    <3>2. PICK m : m = Meant(word)
      OBVIOUS
    <3> QED BY <3>1, <3>2
  <2>4. wr'.timer = FALSE
    BY <1>7 DEF WordTimeout, ReaderInv, ReaderRecord
  <2>5. Meant(word') = Meant(word)
    BY <2>1
  <2>6. Read'
    BY <2>1, <2>3, <2>4, <2>5 DEF Read, AllSent
  <2>7. pins' = (IF edge' % 2 = 0 THEN High ELSE Pulse')
    BY <1>1, <2>1 DEF Pulse
  <2> QED BY <1>1, <2>1, <2>6, <2>7
<1>8. CASE UNCHANGED wrVars
  BY <1>1, <1>8 DEF wrVars, Reading, Read, Pulse, AllSent, Meant, BitsOf
<1> QED BY <1>2, <1>3, <1>4, <1>5, <1>6, <1>7, <1>8 DEF WrNext

THEOREM ReaderInvariant == WrSpec => [](ReaderInv /\ ReadInv)
<1>1. ReaderInv /\ ReadInv /\ [WrNext]_wrVars => (ReaderInv /\ ReadInv)'
  BY ReaderInvStep, ReadInvStep
<1> QED BY <1>1, ReaderInvInit, PTL DEF WrSpec

(* A word that is sent without trouble is reported as what its bits mean,  *)
(* at most once and as nothing else, whatever happened to the words before *)
(* it: the first half of WordIsHeard, for every word and every size of the *)
(* buffer that holds a card (wiegand_reader_data_pin_changed,              *)
(* wiegand_reader_on_word_timeout).                                        *)
THEOREM WordsRead ==
  WrSpec => [](undisturbed /\ word # << >> => heard \in {<< >>, <<Meant(word)>>})
<1>1. ReaderInv /\ ReadInv
        => (undisturbed /\ word # << >> => heard \in {<< >>, <<Meant(word)>>})
  BY DEF ReadInv, Reading, Read
<1> QED BY <1>1, ReaderInvariant, PTL

(* When every word of the reader stands for what its bits mean, no card is *)
(* reported while nothing goes wrong but the one that was held to it.      *)
THEOREM CardsSentUndisturbed ==
  ASSUME \A w \in DOMAIN Meaning : Meant(w).kind = "CARD" => Meaning[w] = Meant(w)
  PROVE  WrSpec => [](undisturbed => CardsAreSent)
<1>1. ASSUME ReaderInv, ReadInv, undisturbed
      PROVE  CardsAreSent
  <2>1. heard = << >> \/ heard = <<Meant(word)>>
    BY <1>1 DEF ReadInv, Reading, Read
  <2>2. CASE heard = << >>
    BY <2>2 DEF CardsAreSent
  <2>3. CASE heard = <<Meant(word)>> /\ word # << >>
    <3>1. word \in begun /\ word \in DOMAIN Meaning
      BY <1>1, <2>3 DEF ReaderInv
    <3>2. PICK m : m = Meant(word)
      OBVIOUS
    <3>3. (m.kind = "CARD" => m = Meaning[word]) /\ heard = <<m>>
      BY <2>3, <3>1, <3>2
    <3> QED BY <3>1, <3>3 DEF CardsAreSent
  <2>4. CASE heard = <<Meant(word)>> /\ word = << >>
    <3>1. Meant(word) = Bad
      BY <2>4 DEF Meant, Decode
    <3>2. heard = <<Bad>>
      BY <2>4, <3>1
    <3> QED BY <3>2 DEF CardsAreSent, Bad
  <2> QED BY <2>1, <2>2, <2>3, <2>4
<1> QED BY <1>1, ReaderInvariant, PTL

-----------------------------------------------------------------------------
(* I2C *)

(* What the two messages of a transfer are made of. *)
Msgs(m) == Len(m) = 2 /\ \A k \in 1 .. 2 : m[k].len \in Int

LEMMA ReadMsgsShape == ASSUME NEW reg, NEW n \in Int PROVE Msgs(ReadMsgs(reg, n))
BY DEF Msgs, ReadMsgs

LEMMA WriteMsgsShape ==
  ASSUME NEW reg, NEW data, Len(data) \in Int PROVE Msgs(WriteMsgs(reg, data))
BY DEF Msgs, WriteMsgs

Ops == [op : {"none", "init", "get", "set"}, step : Int, time : Int]

LEMMA OpsType ==
  /\ NoOp \in Ops
  /\ \A o \in Ops, n \in Int :
       [o EXCEPT !.step = n] \in Ops /\ [o EXCEPT !.step = n].op = o.op
  /\ \A o \in Ops : [o EXCEPT !.op = "get"] \in Ops /\ [o EXCEPT !.op = "get"].op = "get"
<1>1. NoOp \in Ops
  BY DEF NoOp, Ops
<1>2. ASSUME NEW o \in Ops, NEW n \in Int
      PROVE  [o EXCEPT !.step = n] \in Ops /\ [o EXCEPT !.step = n].op = o.op
  BY DEF Ops
<1>3. ASSUME NEW o \in Ops
      PROVE  [o EXCEPT !.op = "get"] \in Ops /\ [o EXCEPT !.op = "get"].op = "get"
  BY DEF Ops
<1> QED BY <1>1, <1>2, <1>3

BusType ==
  /\ DOMAIN bus = {"busy", "msgs", "pos", "buf", "timer"}
  /\ DOMAIN rtc = {"now", "result", "last"}
  /\ rtc.now \in Ops

(* A step of the hardware belongs to a transfer that the timeout watches,  *)
(* for a caller that is not woken yet.                                     *)
StepWatched ==
  hw.step # "none" =>
    /\ bus.busy /\ bus.timer /\ rtc.now.op # "none" /\ rtc.result # "done"
    /\ hw.step = "start" \/ (hw.step = "byte" /\ hw.mode \in {"address", "send", "receive"})
    /\ Msgs(bus.msgs) /\ bus.pos \in 1 .. 2 /\ bus.buf \in Int

(* A caller that is woken finds the bus free and at rest. *)
WokenIsFree ==
  rtc.result = "done" =>
    rtc.now.op # "none" /\ ~bus.busy /\ ~bus.timer /\ hw.step = "none"

BusInv == BusType /\ StepWatched /\ WokenIsFree /\ CallerWatched

LEMMA BusInvInit == I2cInit => BusInv
<1> SUFFICES ASSUME I2cInit PROVE BusInv
  OBVIOUS
<1>1. /\ bus = NoTransfer /\ hw = Idle
      /\ rtc = [now |-> NoOp, result |-> "none", last |-> NoOp]
  BY DEF I2cInit
<1>2. BusType
  BY <1>1, OpsType, Zenon DEF BusType, NoTransfer
<1>3. hw.step = "none" /\ rtc.result = "none" /\ rtc.now.op = "none" /\ ~bus.busy /\ ~bus.timer
  BY <1>1 DEF NoTransfer, Idle, NoOp
<1> QED BY <1>2, <1>3 DEF BusInv, StepWatched, WokenIsFree, CallerWatched

(* What i2c_transfer and an operation that ends leave behind, if the bus   *)
(* was at rest.                                                            *)
LEMMA StepWithKeeps ==
  ASSUME ~bus.timer, bus.busy => overdue, hw.step = "none", DOMAIN bus = {"busy", "msgs", "pos", "buf", "timer"},
         NEW o \in Ops, o.op # "none", NEW n \in Int, NEW msgs, Msgs(msgs),
         StepWith(o, n, msgs), overdue' = overdue
  PROVE  BusInv'
<1>1. CASE bus.busy
  <2>1. rtc' = Ended("EBUSY", NoOp) /\ UNCHANGED <<bus, hw>>
    BY <1>1 DEF StepWith, Ends
  <2>2. /\ DOMAIN rtc' = {"now", "result", "last"}
        /\ rtc'.now = NoOp /\ rtc'.result = "EBUSY"
    BY <2>1, Zenon DEF Ended
  <2>3. NoOp.op = "none"
    BY DEF NoOp
  <2> QED BY <2>1, <2>2, <2>3, OpsType
          DEF BusInv, BusType, StepWatched, WokenIsFree, CallerWatched
<1>2. CASE ~bus.busy
  <2> DEFINE p == [o EXCEPT !.step = n]
  <2>1. /\ rtc' = [now |-> p, result |-> "none", last |-> NoOp]
        /\ bus' = [busy |-> TRUE, msgs |-> msgs, pos |-> 1, buf |-> 0, timer |-> TRUE]
        /\ hw' = [step |-> "start", mode |-> "none", ack |-> FALSE, out |-> 0]
    BY <1>2 DEF StepWith, Launch
  <2>2. p \in Ops /\ p.op # "none"
    BY OpsType
  <2> HIDE DEF p
  <2>3. /\ DOMAIN rtc' = {"now", "result", "last"} /\ rtc'.now = p /\ rtc'.result = "none"
        /\ DOMAIN bus' = {"busy", "msgs", "pos", "buf", "timer"}
        /\ bus'.busy /\ bus'.timer /\ bus'.msgs = msgs /\ bus'.pos = 1 /\ bus'.buf = 0
        /\ hw'.step = "start"
    BY <2>1, Zenon
  <2> QED BY <2>2, <2>3 DEF BusInv, BusType, StepWatched, WokenIsFree, CallerWatched
<1> QED BY <1>1, <1>2

LEMMA EndsKeeps ==
  ASSUME ~bus.timer, bus.busy => overdue, hw.step = "none", DOMAIN bus = {"busy", "msgs", "pos", "buf", "timer"},
         NEW result, result # "done", NEW last, Ends(result, last), overdue' = overdue
  PROVE  BusInv'
<1>1. rtc' = Ended(result, last) /\ UNCHANGED <<bus, hw>>
  BY DEF Ends
<1>2. /\ DOMAIN rtc' = {"now", "result", "last"}
      /\ rtc'.now = NoOp /\ rtc'.result = result
  BY <1>1, Zenon DEF Ended
<1>3. NoOp.op = "none"
  BY DEF NoOp
<1> QED BY <1>1, <1>2, <1>3, OpsType
        DEF BusInv, BusType, StepWatched, WokenIsFree, CallerWatched

LEMMA FirstKeeps ==
  ASSUME BusInv, rtc.now.op = "none", NEW o \in Ops, o.op # "none", First(o),
         overdue' = overdue
  PROVE  BusInv'
<1>1. /\ ~bus.timer /\ (bus.busy => overdue) /\ hw.step = "none"
      /\ DOMAIN bus = {"busy", "msgs", "pos", "buf", "timer"}
  BY DEF BusInv, CallerWatched, BusType
<1>2. CASE o.op = "set"
  <2>1. TimeRegs \in Nat
    BY I2cAssumption
  <2>2. Len([i \in 1 .. TimeRegs |-> o.time]) \in Int
    BY <2>1
  <2>3. Msgs(WriteMsgs(0, [i \in 1 .. TimeRegs |-> o.time]))
    BY <2>2, WriteMsgsShape
  <2>4. StepWith(o, 1, WriteMsgs(0, [i \in 1 .. TimeRegs |-> o.time]))
    BY <1>2 DEF First
  <2> QED BY <1>1, <2>3, <2>4, StepWithKeeps
<1>3. CASE o.op # "set"
  <2>1. Msgs(ReadMsgs(Status, 1))
    BY ReadMsgsShape
  <2>2. StepWith(o, 1, ReadMsgs(Status, 1))
    BY <1>3 DEF First
  <2> QED BY <1>1, <2>1, <2>2, StepWithKeeps
<1> QED BY <1>2, <1>3

LEMMA CallKeeps == ASSUME BusInv, Call PROVE BusInv'
<1>1. rtc.now.op = "none" /\ overdue' = overdue
  BY DEF Call
<1>2. PICK o : /\ o.op # "none" /\ First(o)
               /\ \/ o = [op |-> "init", step |-> 1, time |-> 0]
                  \/ o = [op |-> "get", step |-> 1, time |-> 0]
                  \/ \E t \in Times : o = [op |-> "set", step |-> 1, time |-> t]
  BY DEF Call
<1>3. o \in Ops
  <2>1. \A t \in Times : t \in Int
    BY I2cAssumption
  <2> QED BY <1>2, <2>1 DEF Ops
<1> QED BY <1>1, <1>2, <1>3, FirstKeeps

LEMMA WakesUpKeeps == ASSUME BusInv, WakesUp PROVE BusInv'
<1> DEFINE o == rtc.now
<1>1. /\ rtc.result = "done" /\ overdue' = overdue
      /\ ~bus.busy /\ ~bus.timer /\ hw.step = "none"
      /\ DOMAIN bus = {"busy", "msgs", "pos", "buf", "timer"}
      /\ o \in Ops /\ o.op \in {"init", "get", "set"}
  <2>1. rtc.result = "done" /\ overdue' = overdue
    BY DEF WakesUp
  <2> QED BY <2>1 DEF BusInv, BusType, WokenIsFree, Ops
<1>2. \A p \in Ops, n \in Int : \A msgs :
        p.op # "none" /\ Msgs(msgs) /\ StepWith(p, n, msgs) => BusInv'
  BY <1>1, StepWithKeeps
<1>3. \A result, last : result # "done" /\ Ends(result, last) => BusInv'
  BY <1>1, EndsKeeps
<1>4. /\ \A reg \in Int, n \in Int : Msgs(ReadMsgs(reg, n))
      /\ \A reg, byte : Msgs(WriteMsgs(reg, <<byte>>))
  BY ReadMsgsShape, WriteMsgsShape
<1>5. TimeRegs \in Int /\ Status \in Int
  BY I2cAssumption DEF Status
<1>6. CASE o.op = "set" /\ o.step = 1
  <2>1. StepWith(o, 2, ReadMsgs(Status, 1))
    BY <1>6 DEF WakesUp
  <2> QED BY <1>1, <1>2, <1>4, <1>5, <2>1
<1>7. CASE o.op = "get" /\ o.step = 1
  <2>1. \/ StepWith(o, 2, ReadMsgs(0, TimeRegs))
        \/ Ends("EFAULT", NoOp) \/ Ends("OK", o)
    BY <1>7 DEF WakesUp
  <2> QED BY <1>1, <1>2, <1>3, <1>4, <1>5, <2>1
<1>8. CASE o.op = "set" /\ o.step # 1
  <2>1. StepWith(o, 3, WriteMsgs(Status, <<On32kHz(taken[1])>>)) \/ Ends("OK", o)
    BY <1>8 DEF WakesUp
  <2> QED BY <1>1, <1>2, <1>3, <1>4, <2>1
<1>9. CASE o.op = "get" /\ o.step # 1
  <2>1. Ends("OK", o)
    BY <1>9 DEF WakesUp
  <2> QED BY <1>3, <2>1
<1>10. CASE o.op = "init"
  <2> DEFINE g == [o EXCEPT !.op = "get"]
  <2>1. \/ StepWith(o, 2, WriteMsgs(Status, <<Without32kHz(taken[1])>>))
        \/ StepWith(o, 3, WriteMsgs(Control, <<0>>))
        \/ StepWith(g, 1, ReadMsgs(Status, 1))
        \/ Ends("OK", o)
    BY <1>10 DEF WakesUp
  <2>2. g \in Ops /\ g.op = "get"
    BY <1>1, OpsType
  <2> HIDE DEF g
  <2>3. CASE \/ StepWith(o, 2, WriteMsgs(Status, <<Without32kHz(taken[1])>>))
             \/ StepWith(o, 3, WriteMsgs(Control, <<0>>))
    BY <1>1, <1>2, <1>4, <1>10, <2>3
  <2>4. CASE StepWith(g, 1, ReadMsgs(Status, 1))
    BY <1>2, <1>4, <1>5, <2>2, <2>4
  <2>5. CASE Ends("OK", o)
    BY <1>3, <2>5
  <2> QED BY <2>1, <2>3, <2>4, <2>5, Zenon
<1> QED BY <1>1, <1>6, <1>7, <1>8, <1>9, <1>10

-----------------------------------------------------------------------------
(* The interrupt: the transfer goes on with a next step, or it ends. *)
LEMMA GoesKeeps ==
  ASSUME BusInv, hw.step # "none", overdue' = overdue,
         NEW step, NEW mode, NEW ack, NEW to, NEW pos \in 1 .. 2, NEW buf \in Int,
         Goes(step, mode, ack, to, pos, buf),
         step \in {"none", "start"} \/
           (step = "byte" /\ mode \in {"address", "send", "receive"})
  PROVE  BusInv'
<1>1. /\ bus.busy /\ rtc.now.op # "none" /\ rtc.result # "done" /\ Msgs(bus.msgs)
      /\ DOMAIN bus = {"busy", "msgs", "pos", "buf", "timer"}
  BY DEF BusInv, BusType, StepWatched
<1>2. /\ DOMAIN bus' = {"busy", "msgs", "pos", "buf", "timer"}
      /\ bus'.busy = bus.busy /\ bus'.msgs = bus.msgs
      /\ bus'.pos = pos /\ bus'.buf = buf /\ bus'.timer = TRUE
  BY <1>1, Zenon DEF Goes
<1>3. hw'.step = step /\ hw'.mode = mode /\ rtc' = rtc
  BY Zenon DEF Goes
<1> QED BY <1>1, <1>2, <1>3 DEF BusInv, BusType, StepWatched, WokenIsFree, CallerWatched

LEMMA CompleteKeeps ==
  ASSUME BusInv, hw.step # "none", overdue' = overdue, NEW result, Complete(result)
  PROVE  BusInv'
<1>1. /\ rtc.now.op # "none" /\ rtc.now \in Ops
      /\ DOMAIN bus = {"busy", "msgs", "pos", "buf", "timer"}
      /\ DOMAIN rtc = {"now", "result", "last"}
  BY DEF BusInv, BusType, StepWatched
<1>2. /\ DOMAIN bus' = {"busy", "msgs", "pos", "buf", "timer"}
      /\ bus'.busy = FALSE /\ bus'.timer = FALSE
  BY <1>1, Zenon DEF Complete
<1>3. hw'.step = "none"
  BY DEF Complete, Idle
<1>4. CASE result = "done"
  <2>1. /\ DOMAIN rtc' = {"now", "result", "last"}
        /\ rtc'.now = rtc.now /\ rtc'.result = "done"
    BY <1>1, <1>4, Zenon DEF Complete
  <2> QED BY <1>1, <1>2, <1>3, <2>1
          DEF BusInv, BusType, StepWatched, WokenIsFree, CallerWatched
<1>5. CASE result # "done"
  <2>1. /\ DOMAIN rtc' = {"now", "result", "last"}
        /\ rtc'.now = NoOp /\ rtc'.result = result
    BY <1>5, Zenon DEF Complete, Ended
  <2>2. NoOp.op = "none"
    BY DEF NoOp
  <2> QED BY <1>2, <1>3, <1>5, <2>1, <2>2, OpsType
          DEF BusInv, BusType, StepWatched, WokenIsFree, CallerWatched
<1> QED BY <1>4, <1>5

LEMMA AfterByteKeeps ==
  ASSUME BusInv, hw.step # "none", overdue' = overdue, NEW status, NEW buf \in Int,
         AfterByte(status, buf)
  PROVE  BusInv'
<1>1. /\ bus.pos \in 1 .. 2 /\ Len(bus.msgs) = 2 /\ Current.len \in Int
  BY DEF BusInv, StepWatched, Msgs, Current
<1>2. buf < Current.len \/ buf >= Current.len
  BY <1>1
<1>3. ~IsLast => bus.pos + 1 \in 1 .. 2
  BY <1>1 DEF IsLast
<1>4. GoesOn => ~IsLast
  BY DEF GoesOn
<1>5. CASE buf < Current.len
  <2>1. ~(buf >= Current.len)
    BY <1>1, <1>5
  <2>2. CASE Receives(status)
    <3>1. Goes("byte", "receive", buf + 1 < Current.len \/ GoesOn, 0, bus.pos, buf)
      BY <1>5, <2>1, <2>2, Zenon DEF AfterByte
    <3> QED BY <1>1, <3>1, GoesKeeps, Zenon
  <2>3. CASE ~Receives(status)
    <3>1. Goes("byte", "send", FALSE, Current.data[buf + 1], bus.pos, buf + 1)
      BY <1>5, <2>1, <2>3, Zenon DEF AfterByte
    <3>2. buf + 1 \in Int
      OBVIOUS
    <3> QED BY <1>1, <3>1, <3>2, GoesKeeps, Zenon
  <2> QED BY <2>2, <2>3
<1>6. CASE buf >= Current.len
  <2>1. ~(buf < Current.len)
    BY <1>1, <1>6
  <2>2. CASE IsLast
    <3>1. Complete("done")
      BY <1>4, <1>6, <2>1, <2>2, Zenon DEF AfterByte
    <3> QED BY <3>1, CompleteKeeps
  <2>3. CASE GoesOn
    <3>1. Goes("byte", "send", FALSE, bus.msgs[bus.pos + 1].data[1], bus.pos + 1, 1)
      BY <1>4, <1>6, <2>1, <2>3, Zenon DEF AfterByte
    <3>2. 1 \in Int
      OBVIOUS
    <3> QED BY <1>3, <1>4, <2>3, <3>1, <3>2, GoesKeeps, Zenon
  <2>4. CASE ~IsLast /\ ~GoesOn
    <3>1. Goes("start", "none", FALSE, 0, bus.pos + 1, 0)
      BY <1>6, <2>1, <2>4, Zenon DEF AfterByte
    <3>2. 0 \in Int
      OBVIOUS
    <3> QED BY <1>3, <2>4, <3>1, <3>2, GoesKeeps, Zenon
  <2> QED BY <2>2, <2>3, <2>4
<1> QED BY <1>2, <1>5, <1>6

(* TWI_vect, for every status the hardware can come with. *)
LEMMA HandleKeeps ==
  ASSUME BusInv, hw.step # "none", overdue' = overdue, NEW status, NEW in,
         status \in {"START", "MR_SLA_ACK", "MR_DATA_ACK", "MR_DATA_NACK", "MT_SLA_ACK",
                    "MT_DATA_ACK", "ARB_LOST", "MT_SLA_NACK", "MR_SLA_NACK",
                    "MT_DATA_NACK", "BUS_ERROR"},
         Handle(status, in)
  PROVE  BusInv'
<1>1. bus.pos \in 1 .. 2 /\ bus.buf \in Int
  BY DEF BusInv, StepWatched
<1>2. bus.buf + 1 \in Int
  BY <1>1
<1>3. CASE status = "START"
  <2>1. Goes("byte", "address", FALSE, Current.dir, bus.pos, bus.buf)
    BY <1>3, Zenon DEF Handle, Receives
  <2> QED BY <1>1, <2>1, GoesKeeps, Zenon
<1>4. CASE status = "MR_SLA_ACK"
  <2>1. Goes("byte", "receive", Current.len > 1 \/ GoesOn, 0, bus.pos, bus.buf)
    BY <1>4, Zenon DEF Handle, Receives
  <2> QED BY <1>1, <2>1, GoesKeeps, Zenon
<1>5. CASE Receives(status)
  <2>1. AfterByte(status, bus.buf + 1)
    BY <1>5, Zenon DEF Handle, Receives
  <2> QED BY <1>2, <2>1, AfterByteKeeps
<1>6. CASE status \in {"MT_SLA_ACK", "MT_DATA_ACK"}
  <2>1. AfterByte(status, bus.buf)
    BY <1>6, Zenon DEF Handle, Receives
  <2> QED BY <1>1, <2>1, AfterByteKeeps
<1>7. CASE status = "ARB_LOST"
  <2>1. Goes("none", "lost", FALSE, 0, bus.pos, bus.buf)
    BY <1>7, Zenon DEF Handle, Receives
  <2> QED BY <1>1, <2>1, GoesKeeps, Zenon
<1>8. CASE status \in {"MT_SLA_NACK", "MR_SLA_NACK", "MT_DATA_NACK", "BUS_ERROR"}
  <2>1. Complete("ENODEV") \/ Complete("EIO")
    BY <1>8, Zenon DEF Handle, Receives
  <2> QED BY <2>1, CompleteKeeps
<1> QED BY <1>3, <1>4, <1>5, <1>6, <1>7, <1>8 DEF Receives

LEMMA TwiInterruptKeeps == ASSUME BusInv, TwiInterrupt PROVE BusInv'
<1>1. hw.step # "none" /\ overdue' = overdue /\ Handle(Works.status, Works.in)
  BY DEF TwiInterrupt
<1>2. hw.step = "start" \/ (hw.step = "byte" /\ hw.mode \in {"address", "send", "receive"})
  BY <1>1 DEF BusInv, StepWatched
<1>3. \A status, in, c : Outcome(status, in, c).status = status
  BY DEF Outcome
<1>4. CASE hw.step = "start"
  <2>1. Works = Outcome("START", 0, clock)
    BY <1>4, Zenon DEF Works
  <2> QED BY <1>1, <1>3, <2>1, HandleKeeps
<1>5. CASE hw.step = "byte" /\ hw.mode = "address"
  <2>1. \E c : Works = Outcome("MT_SLA_ACK", 0, c) \/ Works = Outcome("MR_SLA_ACK", 0, c)
    BY <1>5, Zenon DEF Works
  <2>2. Works.status = "MT_SLA_ACK" \/ Works.status = "MR_SLA_ACK"
    BY <1>3, <2>1, ZenonT(60)
  <2> QED BY <1>1, <2>2, HandleKeeps
<1>6. CASE hw.step = "byte" /\ hw.mode = "send"
  <2>1. Works = Outcome("MT_DATA_ACK", 0, Store(hw.out))
    BY <1>6, Zenon DEF Works
  <2> QED BY <1>1, <1>3, <2>1, HandleKeeps
<1>7. CASE hw.step = "byte" /\ hw.mode = "receive"
  <2>1. Works.status \in {"MR_DATA_ACK", "MR_DATA_NACK"}
    BY <1>3, <1>7, ZenonT(60) DEF Works
  <2> QED BY <1>1, <2>1, HandleKeeps
<1> QED BY <1>2, <1>4, <1>5, <1>6, <1>7

(* What goes wrong on the bus ends the transfer, or leaves it to the       *)
(* timeout.                                                                *)
LEMMA TwiFaultKeeps == ASSUME BusInv, TwiFault PROVE BusInv'
<1>1. hw.step # "none" /\ overdue' = overdue
  BY DEF TwiFault
<1>2. ASSUME NEW o \in GoesWrong, Handle(o.status, o.in)
      PROVE  BusInv'
  <2>1. o.status \in {"BUS_ERROR", "ARB_LOST", "MT_SLA_NACK", "MR_SLA_NACK", "MT_DATA_NACK"}
    BY <1>2 DEF GoesWrong, Outcome
  <2> QED BY <1>1, <1>2, <2>1, HandleKeeps
<1>3. CASE hw' = Idle /\ UNCHANGED <<bus, taken, rtc>>
  <2>1. hw'.step = "none"
    BY <1>3 DEF Idle
  <2> QED BY <1>1, <1>3, <2>1 DEF BusInv, BusType, StepWatched, WokenIsFree, CallerWatched
<1> QED BY <1>2, <1>3 DEF TwiFault

LEMMA OnTimeoutKeeps == ASSUME BusInv, OnTimeout PROVE BusInv'
<1>1. /\ hw.step = "none" /\ hw' = hw /\ overdue'
      /\ DOMAIN bus = {"busy", "msgs", "pos", "buf", "timer"}
  BY DEF OnTimeout, BusInv, BusType
<1>2. /\ DOMAIN bus' = {"busy", "msgs", "pos", "buf", "timer"}
      /\ bus'.timer = FALSE
  BY <1>1, Zenon DEF OnTimeout
<1>3. /\ DOMAIN rtc' = {"now", "result", "last"}
      /\ rtc'.now = NoOp /\ rtc'.result = "EINTR"
  BY Zenon DEF OnTimeout, Ended
<1>4. NoOp.op = "none"
  BY DEF NoOp
<1> QED BY <1>1, <1>2, <1>3, <1>4, OpsType
        DEF BusInv, BusType, StepWatched, WokenIsFree, CallerWatched

LEMMA BusInvStep == BusInv /\ [I2cNext]_i2cVars => BusInv'
<1> SUFFICES ASSUME BusInv, [I2cNext]_i2cVars PROVE BusInv'
  OBVIOUS
<1>1. CASE UNCHANGED i2cVars
  BY <1>1 DEF i2cVars, BusInv, BusType, StepWatched, WokenIsFree, CallerWatched
<1> QED BY <1>1, CallKeeps, WakesUpKeeps, TwiInterruptKeeps, TwiFaultKeeps,
           OnTimeoutKeeps DEF I2cNext

(* i2c_transfer, TWI_vect and i2c_on_timeout never leave a caller asleep   *)
(* without a step of the bus or a timeout that will wake it, nor the bus   *)
(* taken without a caller but after a timeout.                             *)
THEOREM CallersWatched == I2cSpec => []CallerWatched
<1>1. BusInv => CallerWatched
  BY DEF BusInv
<1> QED BY <1>1, BusInvInit, BusInvStep, PTL DEF I2cSpec

-----------------------------------------------------------------------------
(* What the clock holds                                                    *)

ClockRecord == [regs : [Regs -> Int], ptr : Regs, first : BOOLEAN]

ClockType ==
  /\ clock \in ClockRecord
  /\ clock.regs[Status] \in 0 .. 3

Whole(t) == \A r \in 0 .. TimeRegs - 1 : clock.regs[r] = t

(* The transfer that an operation is at, and what it knows of the clock by *)
(* then: after its first transfer the time is set in all its registers,    *)
(* and rtc_ds3231_init writes the status with the mark as it is.           *)
Purpose ==
  \/ /\ rtc.now.op = "set" /\ rtc.now.step = 1
     /\ bus.msgs = WriteMsgs(0, [i \in 1 .. TimeRegs |-> rtc.now.time])
  \/ /\ rtc.now.op = "set" /\ rtc.now.step = 2 /\ Whole(rtc.now.time)
     /\ bus.msgs = ReadMsgs(Status, 1)
  \/ /\ rtc.now.op = "set" /\ rtc.now.step = 3 /\ Whole(rtc.now.time)
     /\ \E b \in 0 .. 1 : bus.msgs = WriteMsgs(Status, <<b>>)
  \/ /\ rtc.now.op \in {"get", "init"} /\ rtc.now.step = 1
     /\ bus.msgs = ReadMsgs(Status, 1)
  \/ /\ rtc.now.op = "get" /\ rtc.now.step = 2 /\ Osf(clock.regs[Status]) = 0
     /\ bus.msgs = ReadMsgs(0, TimeRegs)
  \/ /\ rtc.now.op = "init" /\ rtc.now.step = 2
     /\ \E b \in 0 .. 3 : Osf(b) = Osf(clock.regs[Status])
                          /\ bus.msgs = WriteMsgs(Status, <<b>>)
  \/ /\ rtc.now.op = "init" /\ rtc.now.step = 3
     /\ bus.msgs = WriteMsgs(Control, <<0>>)

(* How far it is: the start, the address and the register of the first     *)
(* message, and then the bytes of the second one.                          *)
Begins(reg) ==
  \/ hw.step = "start" /\ bus.pos = 1 /\ bus.buf = 0
  \/ hw.step = "byte" /\ hw.mode = "address" /\ hw.out = "write" /\ bus.pos = 1 /\ bus.buf = 0
  \/ /\ hw.step = "byte" /\ hw.mode = "send" /\ hw.out = reg /\ clock.first
     /\ bus.pos = 1 /\ bus.buf = 1

Sends(reg, data) ==
  \/ Begins(reg)
  \/ /\ hw.step = "byte" /\ hw.mode = "send" /\ ~clock.first
     /\ bus.pos = 2 /\ bus.buf \in 1 .. Len(data)
     /\ hw.out = data[bus.buf] /\ clock.ptr = reg + bus.buf - 1
     /\ \A k \in 1 .. bus.buf - 1 : clock.regs[reg + k - 1] = data[k]

Gets(reg, n) ==
  \/ Begins(reg) /\ taken = << >>
  \/ /\ \/ hw.step = "start"
        \/ hw.step = "byte" /\ hw.mode = "address" /\ hw.out = "read"
     /\ bus.pos = 2 /\ bus.buf = 0 /\ ~clock.first /\ clock.ptr = reg /\ taken = << >>
  \/ /\ hw.step = "byte" /\ hw.mode = "receive" /\ ~clock.first
     /\ bus.pos = 2 /\ bus.buf \in 0 .. n - 1 /\ clock.ptr = reg + bus.buf
     /\ taken \in Seq(Int) /\ Len(taken) = bus.buf
     /\ \A k \in 1 .. bus.buf : taken[k] = clock.regs[reg + k - 1]

Reg == bus.msgs[1].data[1]

UnderWay ==
  IF bus.msgs[2].dir = "write"
  THEN Sends(Reg, bus.msgs[2].data) ELSE Gets(Reg, bus.msgs[2].len)

Finished ==
  IF bus.msgs[2].dir = "write"
  THEN \A k \in 1 .. bus.msgs[2].len : clock.regs[Reg + k - 1] = bus.msgs[2].data[k]
  ELSE \A k \in 1 .. bus.msgs[2].len : taken[k] = clock.regs[Reg + k - 1]

ClockInv ==
  /\ ClockType
  /\ hw.step # "none" => Purpose /\ UnderWay
  /\ rtc.result = "done" => Purpose /\ Finished
  /\ rtc.now.op # "none" => rtc.last.op = "none"
  /\ ClockTold

LEMMA OsfFacts ==
  \A b \in 0 .. 3 :
    /\ Osf(b) \in 0 .. 1 /\ On32kHz(b) \in 0 .. 1 /\ Without32kHz(b) \in 0 .. 3
    /\ Osf(On32kHz(b)) = 0 /\ Osf(Without32kHz(b)) = Osf(b)
BY DEF Osf, On32kHz, Without32kHz

LEMMA RegsFacts ==
  /\ TimeRegs \in Nat /\ TimeRegs > 0 /\ Status = TimeRegs + 1 /\ Control = TimeRegs
  /\ Status \in Nat /\ Regs = 0 .. Status
  /\ \A p \in Regs : p < Status => (p + 1) % (Status + 1) = p + 1
  /\ \A p \in Regs : (p + 1) % (Status + 1) \in Regs
<1>1. TimeRegs \in Nat /\ TimeRegs > 0 /\ Status = TimeRegs + 1 /\ Control = TimeRegs
  BY I2cAssumption DEF Status, Control
<1>2. Status \in Nat /\ Regs = 0 .. Status
  BY <1>1 DEF Regs
<1>3. ASSUME NEW n \in Nat, NEW p \in 0 .. n
      PROVE  /\ p < n => (p + 1) % (n + 1) = p + 1
             /\ (p + 1) % (n + 1) \in 0 .. n
  OBVIOUS
<1> QED BY <1>1, <1>2, <1>3

(* What the interrupt does to the bus, where the transfer goes on and      *)
(* where it ends.                                                          *)
LEMMA GoesSets ==
  ASSUME BusType, NEW step, NEW mode, NEW ack, NEW to, NEW pos, NEW buf,
         Goes(step, mode, ack, to, pos, buf)
  PROVE  /\ hw'.step = step /\ hw'.mode = mode /\ hw'.out = to
         /\ bus'.msgs = bus.msgs /\ bus'.pos = pos /\ bus'.buf = buf /\ rtc' = rtc
<1>1. DOMAIN bus = {"busy", "msgs", "pos", "buf", "timer"}
  BY DEF BusType
<1>2. bus'.msgs = bus.msgs /\ bus'.pos = pos /\ bus'.buf = buf
  BY <1>1, Zenon DEF Goes
<1>3. hw'.step = step /\ hw'.mode = mode /\ hw'.out = to /\ rtc' = rtc
  BY Zenon DEF Goes
<1> QED BY <1>2, <1>3

LEMMA CompleteSets ==
  ASSUME BusType, NEW result, Complete(result)
  PROVE  /\ hw'.step = "none" /\ bus'.msgs = bus.msgs
         /\ result = "done" =>
              rtc'.now = rtc.now /\ rtc'.last = rtc.last /\ rtc'.result = "done"
         /\ result # "done" => rtc' = Ended(result, NoOp)
<1>1. /\ DOMAIN bus = {"busy", "msgs", "pos", "buf", "timer"}
      /\ DOMAIN rtc = {"now", "result", "last"}
  BY DEF BusType
<1>2. bus'.msgs = bus.msgs
  BY <1>1, Zenon DEF Complete
<1>3. hw'.step = "none"
  BY DEF Complete, Idle
<1>4. result = "done" =>
        rtc'.now = rtc.now /\ rtc'.last = rtc.last /\ rtc'.result = "done"
  BY <1>1, Zenon DEF Complete
<1>5. result # "done" => rtc' = Ended(result, NoOp)
  BY DEF Complete
<1> QED BY <1>2, <1>3, <1>4, <1>5

(* A byte that the clock is sent is its pointer, or it goes into a         *)
(* register.                                                               *)
LEMMA StoreSets ==
  ASSUME clock \in ClockRecord, NEW byte \in Int
  PROVE  /\ clock.first /\ byte \in Regs =>
              /\ Store(byte) \in ClockRecord /\ Store(byte).regs = clock.regs
              /\ Store(byte).ptr = byte /\ ~Store(byte).first
         /\ ~clock.first =>
              /\ Store(byte) \in ClockRecord
              /\ Store(byte).regs = [clock.regs EXCEPT ![clock.ptr] = byte]
              /\ Store(byte).ptr = (clock.ptr + 1) % (Status + 1) /\ ~Store(byte).first
<1>1. ASSUME clock.first, byte \in Regs
      PROVE  /\ Store(byte) \in ClockRecord /\ Store(byte).regs = clock.regs
             /\ Store(byte).ptr = byte /\ ~Store(byte).first
  BY <1>1 DEF Store, ClockRecord
<1>2. ASSUME ~clock.first
      PROVE  /\ Store(byte) \in ClockRecord
             /\ Store(byte).regs = [clock.regs EXCEPT ![clock.ptr] = byte]
             /\ Store(byte).ptr = (clock.ptr + 1) % (Status + 1) /\ ~Store(byte).first
  <2> DEFINE regs == [clock.regs EXCEPT ![clock.ptr] = byte]
             ptr == (clock.ptr + 1) % (Status + 1)
  <2>1. clock.ptr \in Regs /\ clock.regs \in [Regs -> Int] /\ clock.first \in BOOLEAN
    BY DEF ClockRecord
  <2>2. ptr \in Regs
    BY <2>1, RegsFacts
  <2>3. regs \in [Regs -> Int]
    BY <2>1
  <2>4. Store(byte) = [clock EXCEPT !.ptr = ptr, !.regs = regs]
    BY <1>2 DEF Store
  <2> HIDE DEF regs, ptr
  <2>5. /\ Store(byte) \in ClockRecord /\ Store(byte).regs = regs
        /\ Store(byte).ptr = ptr /\ ~Store(byte).first
    BY <1>2, <2>2, <2>3, <2>4 DEF ClockRecord
  <2> QED BY <2>5 DEF regs, ptr
<1> QED BY <1>1, <1>2

(* Where the transfer is in its two messages.                              *)
LEMMA PlaceFacts ==
  ASSUME Len(bus.msgs) = 2
  PROVE  /\ bus.pos = 1 => ~IsLast /\ Current = bus.msgs[1] /\ (GoesOn <=> bus.msgs[2].noStart)
         /\ bus.pos = 2 => IsLast /\ Current = bus.msgs[2] /\ ~GoesOn
BY DEF IsLast, Current, GoesOn

RegMsg(reg) == [dir |-> "write", data |-> <<reg>>, len |-> 1, noStart |-> FALSE]

(* The registers that the bytes of a message are for. *)
LEMMA IndexFacts ==
  ASSUME NEW reg \in Regs, NEW n \in Nat, reg + n - 1 <= Status, NEW b \in 1 .. n
  PROVE  /\ \A k \in 1 .. b : reg + k - 1 \in Regs /\ k \in 1 .. n
         /\ \A k \in 1 .. b : k # b => k \in 1 .. b - 1 /\ reg + k - 1 # reg + b - 1
BY RegsFacts

LEMMA NextIndex ==
  ASSUME NEW reg \in Regs, NEW n \in Nat, reg + n - 1 <= Status, NEW b \in 1 .. n, b < n
  PROVE  /\ reg + b - 1 \in Regs /\ reg + b - 1 < Status
         /\ b + 1 \in 1 .. n /\ (b + 1) - 1 = b
         /\ (reg + b - 1) + 1 = reg + (b + 1) - 1
BY RegsFacts

LEMMA RegMsgFacts ==
  ASSUME NEW reg
  PROVE  /\ RegMsg(reg).dir = "write" /\ RegMsg(reg).data[1] = reg
         /\ RegMsg(reg).len = 1 /\ ~RegMsg(reg).noStart
BY DEF RegMsg

(* The first message, with the register, up to where the second one goes   *)
(* on or begins.                                                           *)
LEMMA BeginsOn ==
  ASSUME BusInv, clock \in ClockRecord, hw.step # "none", NEW reg \in Regs, NEW m,
         bus.msgs = <<RegMsg(reg), m>>, Begins(reg), TwiInterrupt
  PROVE  /\ bus'.msgs = bus.msgs /\ rtc' = rtc /\ taken' = taken
         /\ clock' \in ClockRecord /\ clock'.regs = clock.regs
         /\ \/ Begins(reg)'
            \/ /\ m.noStart /\ hw'.step = "byte" /\ hw'.mode = "send" /\ hw'.out = m.data[1]
               /\ bus'.pos = 2 /\ bus'.buf = 1 /\ ~clock'.first /\ clock'.ptr = reg
            \/ /\ ~m.noStart /\ hw'.step = "start"
               /\ bus'.pos = 2 /\ bus'.buf = 0 /\ ~clock'.first /\ clock'.ptr = reg
<1>1. BusType /\ reg \in Int /\ clock' = Works.clock /\ Handle(Works.status, Works.in)
  BY RegsFacts DEF BusInv, TwiInterrupt
<1>2. /\ Len(bus.msgs) = 2 /\ bus.msgs[1] = RegMsg(reg) /\ bus.msgs[2] = m /\ bus.pos = 1
  BY DEF Begins
<1>3. /\ ~IsLast /\ Current = RegMsg(reg) /\ (GoesOn <=> m.noStart)
      /\ bus.msgs[bus.pos + 1] = m
  BY <1>2, PlaceFacts
<1>4. \A status, in, c : /\ Outcome(status, in, c).status = status
                         /\ Outcome(status, in, c).clock = c
                         /\ Outcome(status, in, c).in = in
  BY DEF Outcome
<1>5. CASE hw.step = "start" /\ bus.buf = 0
  <2>1. Works = Outcome("START", 0, clock)
    BY <1>5, Zenon DEF Works
  <2>2. Works.status = "START" /\ clock' = clock
    BY <1>1, <1>4, <2>1
  <2>3. /\ Goes("byte", "address", FALSE, Current.dir, bus.pos, bus.buf) /\ taken' = taken
    BY <1>1, <2>2, Zenon DEF Handle, Receives
  <2>4. /\ hw'.step = "byte" /\ hw'.mode = "address" /\ hw'.out = "write"
        /\ bus'.msgs = bus.msgs /\ bus'.pos = 1 /\ bus'.buf = 0 /\ rtc' = rtc
    <3>1. Goes("byte", "address", FALSE, "write", 1, 0)
      BY <1>2, <1>3, <1>5, <2>3, RegMsgFacts
    <3> QED BY <1>1, <3>1, GoesSets, Zenon
  <2> QED BY <2>2, <2>3, <2>4 DEF Begins
<1>6. CASE hw.step = "byte" /\ hw.mode = "address" /\ hw.out = "write" /\ bus.buf = 0
  <2> DEFINE c == [clock EXCEPT !.first = TRUE]
  <2>1. Works = Outcome("MT_SLA_ACK", 0, c)
    BY <1>6, Zenon DEF Works
  <2>2. c \in ClockRecord /\ c.regs = clock.regs /\ c.first
    BY DEF ClockRecord
  <2> HIDE DEF c
  <2>3. Works.status = "MT_SLA_ACK" /\ clock' = c
    BY <1>1, <1>4, <2>1
  <2>4. AfterByte("MT_SLA_ACK", bus.buf) /\ taken' = taken
    BY <1>1, <2>3, Zenon DEF Handle, Receives
  <2>5. bus.buf < Current.len /\ ~(bus.buf >= Current.len) /\ ~Receives("MT_SLA_ACK")
    BY <1>3, <1>6, RegMsgFacts DEF Receives
  <2>6. Goes("byte", "send", FALSE, Current.data[bus.buf + 1], bus.pos, bus.buf + 1)
    BY <2>4, <2>5, Zenon DEF AfterByte
  <2>7. /\ hw'.step = "byte" /\ hw'.mode = "send" /\ hw'.out = reg
        /\ bus'.msgs = bus.msgs /\ bus'.pos = 1 /\ bus'.buf = 1 /\ rtc' = rtc
    <3>1. bus.buf + 1 = 1 /\ Current.data[1] = reg
      BY <1>3, <1>6, RegMsgFacts
    <3>2. Goes("byte", "send", FALSE, reg, 1, 1)
      BY <1>2, <2>6, <3>1
    <3> QED BY <1>1, <3>2, GoesSets, Zenon
  <2> QED BY <2>2, <2>3, <2>4, <2>7 DEF Begins
<1>7. CASE /\ hw.step = "byte" /\ hw.mode = "send" /\ hw.out = reg /\ clock.first
           /\ bus.buf = 1
  <2> DEFINE c == Store(hw.out)
  <2>1. Works = Outcome("MT_DATA_ACK", 0, c)
    BY <1>7, Zenon DEF Works
  <2>2. c \in ClockRecord /\ c.regs = clock.regs /\ c.ptr = reg /\ ~c.first
    BY <1>1, <1>7, StoreSets
  <2> HIDE DEF c
  <2>3. Works.status = "MT_DATA_ACK" /\ clock' = c
    BY <1>1, <1>4, <2>1
  <2>4. AfterByte("MT_DATA_ACK", bus.buf) /\ taken' = taken
    BY <1>1, <2>3, Zenon DEF Handle, Receives
  <2>5. bus.buf >= Current.len /\ ~(bus.buf < Current.len)
    BY <1>3, <1>7, RegMsgFacts
  <2>6. bus.pos + 1 = 2
    BY <1>2
  <2>7. CASE m.noStart
    <3>1. Goes("byte", "send", FALSE, m.data[1], 2, 1)
      BY <2>6, <1>3, <2>4, <2>5, <2>7, Zenon DEF AfterByte
    <3>2. /\ hw'.step = "byte" /\ hw'.mode = "send" /\ hw'.out = m.data[1]
          /\ bus'.msgs = bus.msgs /\ bus'.pos = 2 /\ bus'.buf = 1 /\ rtc' = rtc
      BY <1>1, <3>1, GoesSets, Zenon
    <3> QED BY <2>2, <2>3, <2>4, <2>7, <3>2
  <2>8. CASE ~m.noStart
    <3>1. Goes("start", "none", FALSE, 0, 2, 0)
      BY <2>6, <1>3, <2>4, <2>5, <2>8, Zenon DEF AfterByte
    <3>2. /\ hw'.step = "start"
          /\ bus'.msgs = bus.msgs /\ bus'.pos = 2 /\ bus'.buf = 0 /\ rtc' = rtc
      BY <1>1, <3>1, GoesSets, ZenonT(60)
    <3> QED BY <2>2, <2>3, <2>4, <2>8, <3>2
  <2> QED BY <2>7, <2>8
<1> QED BY <1>5, <1>6, <1>7 DEF Begins

(* What a transfer that sends leaves behind at every step: one more        *)
(* register written, or the end with all of them.                          *)
LEMMA SendsOn ==
  ASSUME BusInv, clock \in ClockRecord, hw.step # "none", TwiInterrupt,
         NEW reg \in Regs, NEW data \in Seq(Int), Len(data) > 0, reg + Len(data) - 1 <= Status,
         bus.msgs = WriteMsgs(reg, data), Sends(reg, data)
  PROVE  /\ bus'.msgs = bus.msgs /\ rtc'.now = rtc.now /\ rtc'.last = rtc.last
         /\ clock' \in ClockRecord
         /\ \/ clock'.regs = clock.regs
            \/ \E k \in 1 .. Len(data) :
                 clock'.regs = [clock.regs EXCEPT ![reg + k - 1] = data[k]]
         /\ \/ Sends(reg, data)' /\ rtc' = rtc
            \/ /\ hw'.step = "none" /\ rtc'.result = "done"
               /\ \A k \in 1 .. Len(data) : clock'.regs[reg + k - 1] = data[k]
<1> DEFINE m == [dir |-> "write", data |-> data, len |-> Len(data), noStart |-> TRUE]
<1>1. /\ BusType /\ clock' = Works.clock /\ Handle(Works.status, Works.in)
      /\ Len(data) \in Nat /\ reg \in Nat /\ Status \in Nat
      /\ \A k \in 1 .. Len(data) : data[k] \in Int
  BY RegsFacts, LenProperties, ElementOfSeq DEF BusInv, TwiInterrupt
<1>2. m.data = data /\ m.len = Len(data) /\ m.noStart /\ bus.msgs = <<RegMsg(reg), m>>
  BY DEF WriteMsgs, RegMsg
<1> HIDE DEF m
<1>3. CASE Begins(reg)
  <2>1. /\ bus'.msgs = bus.msgs /\ rtc' = rtc /\ clock' \in ClockRecord
        /\ clock'.regs = clock.regs
        /\ \/ Begins(reg)'
           \/ /\ hw'.step = "byte" /\ hw'.mode = "send" /\ hw'.out = data[1]
              /\ bus'.pos = 2 /\ bus'.buf = 1 /\ ~clock'.first /\ clock'.ptr = reg
    BY <1>2, <1>3, BeginsOn
  <2>2. Sends(reg, data)'
    <3>1. CASE Begins(reg)'
      BY <3>1 DEF Sends
    <3>2. CASE /\ hw'.step = "byte" /\ hw'.mode = "send" /\ hw'.out = data[1]
               /\ bus'.pos = 2 /\ bus'.buf = 1 /\ ~clock'.first /\ clock'.ptr = reg
      <4>1. /\ bus'.buf \in 1 .. Len(data) /\ clock'.ptr = reg + bus'.buf - 1
            /\ 1 .. bus'.buf - 1 = {}
        BY <1>1, <3>2
      <4> QED BY <3>2, <4>1 DEF Sends
    <3> QED BY <2>1, <3>1, <3>2
  <2> QED BY <2>1, <2>2
<1>4. CASE /\ hw.step = "byte" /\ hw.mode = "send" /\ ~clock.first
           /\ bus.pos = 2 /\ bus.buf \in 1 .. Len(data)
           /\ hw.out = data[bus.buf] /\ clock.ptr = reg + bus.buf - 1
           /\ \A k \in 1 .. bus.buf - 1 : clock.regs[reg + k - 1] = data[k]
  <2> DEFINE c == Store(hw.out)
             b == bus.buf
  <2>1. Works = Outcome("MT_DATA_ACK", 0, c)
    BY <1>4, Zenon DEF Works
  <2>2. /\ c \in ClockRecord /\ ~c.first
        /\ c.regs = [clock.regs EXCEPT ![clock.ptr] = hw.out]
        /\ c.ptr = (clock.ptr + 1) % (Status + 1)
    BY <1>1, <1>4, StoreSets
  <2> HIDE DEF c
  <2>3. Works.status = "MT_DATA_ACK" /\ clock' = c
    BY <1>1, <2>1 DEF Outcome
  <2>4. AfterByte("MT_DATA_ACK", b) /\ taken' = taken
    BY <1>1, <2>3, Zenon DEF Handle, Receives
  <2>5. IsLast /\ Current = m /\ ~GoesOn /\ ~Receives("MT_DATA_ACK")
    BY <1>2, <1>4, PlaceFacts DEF Receives
  <2>6. clock'.regs = [clock.regs EXCEPT ![reg + b - 1] = data[b]]
    BY <1>4, <2>2, <2>3
  <2>7. \A k \in 1 .. b : clock'.regs[reg + k - 1] = data[k]
    <3>1. clock.regs \in [Regs -> Int]
      BY DEF ClockRecord
    <3>2. b \in 1 .. Len(data) /\ \A k \in 1 .. b - 1 : clock.regs[reg + k - 1] = data[k]
      BY <1>4
    <3> HIDE DEF b
    <3>3. /\ \A k \in 1 .. b : reg + k - 1 \in Regs
          /\ \A k \in 1 .. b : k # b => k \in 1 .. b - 1 /\ reg + k - 1 # reg + b - 1
      BY <1>1, <3>2, IndexFacts
    <3>4. ASSUME NEW k \in 1 .. b, k # b
          PROVE  clock'.regs[reg + k - 1] = data[k]
      <4>1. clock.regs[reg + k - 1] = data[k] /\ reg + k - 1 \in Regs
            /\ reg + k - 1 # reg + b - 1
        BY <3>2, <3>3, <3>4
      <4> QED BY <2>6, <3>1, <4>1
    <3>5. b \in 1 .. b /\ reg + b - 1 \in Regs
      BY <3>2, <3>3
    <3>6. clock'.regs[reg + b - 1] = data[b]
      BY <2>6, <3>1, <3>5
    <3> QED BY <3>4, <3>6
  <2>8. CASE b < Len(data)
    <3>1. Goes("byte", "send", FALSE, data[b + 1], bus.pos, b + 1)
      <4>1. b < Current.len /\ ~(b >= Current.len) /\ Current.data = data
        BY <1>1, <1>2, <1>4, <2>5, <2>8
      <4> QED BY <2>4, <2>5, <4>1, Zenon DEF AfterByte
    <3>2. /\ hw'.step = "byte" /\ hw'.mode = "send" /\ hw'.out = data[b + 1]
          /\ bus'.msgs = bus.msgs /\ bus'.pos = 2 /\ bus'.buf = b + 1 /\ rtc' = rtc
      <4>1. Goes("byte", "send", FALSE, data[b + 1], 2, b + 1)
        BY <1>4, <3>1
      <4> HIDE DEF b
      <4> QED BY <1>1, <4>1, GoesSets, Zenon
    <3>3. clock'.ptr = reg + bus'.buf - 1 /\ bus'.buf \in 1 .. Len(data) /\ bus'.buf - 1 = b
      <4>1. b \in 1 .. Len(data) /\ clock.ptr = reg + b - 1
        BY <1>4
      <4> HIDE DEF b
      <4>2. /\ clock.ptr \in Regs /\ clock.ptr < Status /\ clock.ptr + 1 = reg + (b + 1) - 1
            /\ b + 1 \in 1 .. Len(data) /\ (b + 1) - 1 = b
        <5>1. /\ reg + b - 1 \in Regs /\ reg + b - 1 < Status
              /\ b + 1 \in 1 .. Len(data) /\ (b + 1) - 1 = b
              /\ (reg + b - 1) + 1 = reg + (b + 1) - 1
          <6>1. Len(data) \in Nat /\ reg + Len(data) - 1 <= Status
            BY <1>1
          <6> QED BY <2>8, <4>1, <6>1, NextIndex, Zenon
        <5> QED BY <4>1, <5>1
      <4>3. c.ptr = clock.ptr + 1
        BY <2>2, <4>2, RegsFacts
      <4> QED BY <2>3, <3>2, <4>2, <4>3
    <3>4. Sends(reg, data)'
      BY <2>2, <2>3, <2>7, <3>2, <3>3 DEF Sends
    <3> QED BY <1>4, <2>2, <2>3, <2>6, <3>2, <3>4
  <2>9. CASE ~(b < Len(data))
    <3>1. b = Len(data)
      BY <1>1, <1>4, <2>9
    <3>2. Complete("done")
      <4>1. b >= Current.len /\ ~(b < Current.len)
        BY <1>1, <1>2, <1>4, <2>5, <2>9
      <4> QED BY <2>4, <2>5, <4>1, Zenon DEF AfterByte
    <3>3. /\ hw'.step = "none" /\ bus'.msgs = bus.msgs
          /\ rtc'.now = rtc.now /\ rtc'.last = rtc.last /\ rtc'.result = "done"
      BY <1>1, <3>2, CompleteSets
    <3> QED BY <1>4, <2>2, <2>3, <2>6, <2>7, <3>1, <3>3
  <2> QED BY <2>8, <2>9
<1> QED BY <1>3, <1>4 DEF Sends

(* And what one that reads leaves behind: one more byte taken, or the end  *)
(* with all of them; the registers stay.                                   *)
LEMMA GetsOn ==
  ASSUME BusInv, clock \in ClockRecord, hw.step # "none", TwiInterrupt,
         NEW reg \in Regs, NEW n \in Nat, n > 0, reg + n - 1 <= Status,
         bus.msgs = ReadMsgs(reg, n), Gets(reg, n)
  PROVE  /\ bus'.msgs = bus.msgs /\ rtc'.now = rtc.now /\ rtc'.last = rtc.last
         /\ clock' \in ClockRecord /\ clock'.regs = clock.regs
         /\ \/ Gets(reg, n)' /\ rtc' = rtc
            \/ /\ hw'.step = "none" /\ rtc'.result = "done"
               /\ \A k \in 1 .. n : taken'[k] = clock'.regs[reg + k - 1]
<1> DEFINE m == [dir |-> "read", data |-> << >>, len |-> n, noStart |-> FALSE]
<1>1. /\ BusType /\ clock' = Works.clock /\ Handle(Works.status, Works.in)
      /\ reg \in Nat /\ Status \in Nat
  BY RegsFacts DEF BusInv, TwiInterrupt
<1>2. /\ m.dir = "read" /\ m.len = n /\ ~m.noStart /\ bus.msgs = <<RegMsg(reg), m>>
  BY DEF ReadMsgs, RegMsg
<1> HIDE DEF m
<1>3. /\ clock.ptr \in Regs /\ clock.regs \in [Regs -> Int]
      /\ [clock EXCEPT !.ptr = (@ + 1) % (Status + 1)] \in ClockRecord
      /\ [clock EXCEPT !.ptr = (@ + 1) % (Status + 1)].regs = clock.regs
      /\ [clock EXCEPT !.ptr = (@ + 1) % (Status + 1)].first = clock.first
      /\ [clock EXCEPT !.ptr = (@ + 1) % (Status + 1)].ptr = (clock.ptr + 1) % (Status + 1)
  <2>1. clock.ptr \in Regs /\ clock.regs \in [Regs -> Int]
    BY DEF ClockRecord
  <2> DEFINE ptr == (clock.ptr + 1) % (Status + 1)
  <2>2. ptr \in Regs
    BY <2>1, RegsFacts
  <2> HIDE DEF ptr
  <2>3. /\ [clock EXCEPT !.ptr = ptr] \in ClockRecord
        /\ [clock EXCEPT !.ptr = ptr].regs = clock.regs
        /\ [clock EXCEPT !.ptr = ptr].first = clock.first
        /\ [clock EXCEPT !.ptr = ptr].ptr = ptr
    BY <2>2 DEF ClockRecord
  <2> QED BY <2>1, <2>3 DEF ptr
<1>4. \A status, in, c : /\ Outcome(status, in, c).status = status
                         /\ Outcome(status, in, c).clock = c
                         /\ Outcome(status, in, c).in = in
  BY DEF Outcome
<1>5. CASE Begins(reg) /\ taken = << >>
  <2>1. /\ bus'.msgs = bus.msgs /\ rtc' = rtc /\ taken' = taken /\ clock' \in ClockRecord
        /\ clock'.regs = clock.regs
        /\ \/ Begins(reg)'
           \/ /\ hw'.step = "start" /\ bus'.pos = 2 /\ bus'.buf = 0
              /\ ~clock'.first /\ clock'.ptr = reg
    BY <1>2, <1>5, BeginsOn
  <2>2. taken' = << >>
    BY <1>5, <2>1
  <2>3. Gets(reg, n)'
    BY <2>1, <2>2, Zenon DEF Gets
  <2> QED BY <2>1, <2>3
<1>6. CASE /\ hw.step = "start" /\ bus.pos = 2 /\ bus.buf = 0 /\ ~clock.first
           /\ clock.ptr = reg /\ taken = << >>
  <2>1. Works = Outcome("START", 0, clock)
    BY <1>6, Zenon DEF Works
  <2>2. Works.status = "START" /\ clock' = clock
    BY <1>1, <1>4, <2>1
  <2>3. Goes("byte", "address", FALSE, Current.dir, bus.pos, bus.buf) /\ taken' = taken
    BY <1>1, <2>2, Zenon DEF Handle, Receives
  <2>4. Current.dir = "read"
    BY <1>2, <1>6, PlaceFacts
  <2>5. Goes("byte", "address", FALSE, "read", 2, 0)
    BY <1>6, <2>3, <2>4
  <2>6. /\ hw'.step = "byte" /\ hw'.mode = "address" /\ hw'.out = "read"
        /\ bus'.msgs = bus.msgs /\ bus'.pos = 2 /\ bus'.buf = 0 /\ rtc' = rtc
    BY <1>1, <2>5, GoesSets, Zenon
  <2>7. Gets(reg, n)'
    BY <1>6, <2>2, <2>3, <2>6, Zenon DEF Gets
  <2> QED BY <2>2, <2>6, <2>7
<1>7. CASE /\ hw.step = "byte" /\ hw.mode = "address" /\ hw.out = "read"
           /\ bus.pos = 2 /\ bus.buf = 0 /\ ~clock.first
           /\ clock.ptr = reg /\ taken = << >>
  <2>1. Works = Outcome("MR_SLA_ACK", 0, clock)
    BY <1>7, Zenon DEF Works
  <2>2. Works.status = "MR_SLA_ACK" /\ clock' = clock
    BY <1>1, <1>4, <2>1
  <2>3. /\ \E a : Goes("byte", "receive", a, 0, bus.pos, bus.buf)
        /\ taken' = taken
    BY <1>1, <2>2, Zenon DEF Handle, Receives
  <2>4. \E a : Goes("byte", "receive", a, 0, 2, 0)
    BY <1>7, <2>3
  <2>5. /\ hw'.step = "byte" /\ hw'.mode = "receive"
        /\ bus'.msgs = bus.msgs /\ bus'.pos = 2 /\ bus'.buf = 0 /\ rtc' = rtc
    BY <1>1, <2>4, GoesSets, ZenonT(60)
  <2>6. /\ bus'.buf \in 0 .. n - 1 /\ clock'.ptr = reg + bus'.buf
        /\ taken' \in Seq(Int) /\ Len(taken') = bus'.buf /\ 1 .. bus'.buf = {}
        /\ ~clock'.first
    BY <1>1, <1>7, <2>2, <2>3, <2>5
  <2>7. Gets(reg, n)'
    BY <2>5, <2>6 DEF Gets
  <2> QED BY <2>2, <2>5, <2>7
<1>8. CASE /\ hw.step = "byte" /\ hw.mode = "receive" /\ ~clock.first
           /\ bus.pos = 2 /\ bus.buf \in 0 .. n - 1 /\ clock.ptr = reg + bus.buf
           /\ taken \in Seq(Int) /\ Len(taken) = bus.buf
           /\ \A k \in 1 .. bus.buf : taken[k] = clock.regs[reg + k - 1]
  <2> DEFINE c == [clock EXCEPT !.ptr = (@ + 1) % (Status + 1)]
             in == clock.regs[clock.ptr]
             status == IF hw.ack THEN "MR_DATA_ACK" ELSE "MR_DATA_NACK"
             b == bus.buf
  <2>1. Works = Outcome(status, in, c)
    BY <1>8, Zenon DEF Works
  <2>2. status \in {"MR_DATA_ACK", "MR_DATA_NACK"}
    OBVIOUS
  <2>3. in = clock.regs[reg + b] /\ in \in Int
    BY <1>3, <1>8
  <2> HIDE DEF c, in, status
  <2>4. Works.status = status /\ Works.in = in /\ clock' = c
    BY <1>1, <1>4, <2>1
  <2>5. Handle(status, in) /\ Receives(status) /\ status # "START" /\ status # "MR_SLA_ACK"
    BY <1>1, <2>2, <2>4 DEF Receives
  <2>6. AfterByte(status, b + 1) /\ taken' = Append(taken, in)
    BY <2>2, <2>5, Zenon DEF Handle
  <2>7. IsLast /\ Current = m /\ ~GoesOn
    BY <1>2, <1>8, PlaceFacts
  <2>8. /\ b \in 0 .. n - 1 /\ taken \in Seq(Int) /\ Len(taken) = b
        /\ \A k \in 1 .. b : taken[k] = clock.regs[reg + k - 1]
        /\ clock.ptr = reg + b /\ c.regs = clock.regs /\ c \in ClockRecord
        /\ ~c.first /\ c.ptr = (clock.ptr + 1) % (Status + 1)
    BY <1>3, <1>8 DEF c
  <2> HIDE DEF b
  <2>9. /\ taken' \in Seq(Int) /\ Len(taken') = b + 1
        /\ \A k \in 1 .. b + 1 : taken'[k] = clock'.regs[reg + k - 1]
    <3>1. /\ taken' \in Seq(Int) /\ Len(taken') = b + 1
          /\ \A k \in 1 .. b : taken'[k] = taken[k]
          /\ taken'[b + 1] = in
      BY <2>3, <2>6, <2>8, AppendProperties
    <3>2. \A k \in 1 .. b + 1 : k \in 1 .. b \/ (k = b + 1 /\ reg + k - 1 = reg + b)
      BY <1>1, <2>8
    <3>3. clock'.regs = clock.regs
      BY <2>4, <2>8
    <3> QED BY <2>3, <2>8, <3>1, <3>2, <3>3
  <2>10. CASE b + 1 < n
    <3>1. \E a : Goes("byte", "receive", a, 0, 2, b + 1)
      <4>1. b + 1 < Current.len /\ ~(b + 1 >= Current.len)
        BY <1>2, <2>7, <2>8, <2>10
      <4>2. \E a : Goes("byte", "receive", a, 0, bus.pos, b + 1)
        BY <2>5, <2>6, <4>1, Zenon DEF AfterByte
      <4> QED BY <1>8, <4>2
    <3>2. /\ hw'.step = "byte" /\ hw'.mode = "receive"
          /\ bus'.msgs = bus.msgs /\ bus'.pos = 2 /\ bus'.buf = b + 1 /\ rtc' = rtc
      BY <1>1, <3>1, GoesSets, ZenonT(60)
    <3>3. c.ptr = reg + (b + 1) /\ b + 1 \in 0 .. n - 1
      <4>1. clock.ptr \in Regs /\ clock.ptr < Status /\ clock.ptr + 1 = reg + (b + 1)
        <5>1. reg + b < Status /\ (reg + b) + 1 = reg + (b + 1)
          <6>1. b \in 0 .. n - 1 /\ reg \in Nat /\ Status \in Nat
            BY <1>1, <2>8
          <6> QED BY <2>10, <6>1
        <5> QED BY <1>3, <2>8, <5>1
      <4>2. PICK p \in Regs : p = clock.ptr /\ p < Status
        BY <4>1
      <4>3. (p + 1) % (Status + 1) = p + 1
        BY <4>2, RegsFacts
      <4>4. c.ptr = reg + (b + 1)
        BY <2>8, <4>1, <4>2, <4>3
      <4>5. b + 1 \in 0 .. n - 1
        <5>1. b \in 0 .. n - 1
          BY <2>8
        <5> QED BY <1>1, <2>10, <5>1
      <4> QED BY <4>4, <4>5
    <3>4. Gets(reg, n)'
      BY <2>4, <2>8, <2>9, <3>2, <3>3 DEF Gets
    <3> QED BY <2>4, <2>8, <3>2, <3>4
  <2>11. CASE ~(b + 1 < n)
    <3>1. b + 1 = n
      BY <2>8, <2>11
    <3>2. Complete("done")
      <4>1. b + 1 >= Current.len /\ ~(b + 1 < Current.len)
        BY <1>2, <2>7, <2>8, <2>11
      <4> QED BY <2>6, <2>7, <4>1, Zenon DEF AfterByte
    <3>3. /\ hw'.step = "none" /\ bus'.msgs = bus.msgs
          /\ rtc'.now = rtc.now /\ rtc'.last = rtc.last /\ rtc'.result = "done"
      BY <1>1, <3>2, CompleteSets
    <3> QED BY <2>4, <2>8, <2>9, <3>1, <3>3
  <2> QED BY <2>10, <2>11
<1> QED BY <1>5, <1>6, <1>7, <1>8 DEF Gets

(* The messages of a transfer tell what it is: they write or read, from    *)
(* which register, and which data or how many bytes.                       *)
LEMMA WriteMsgsTell ==
  ASSUME NEW reg, NEW data
  PROVE  /\ WriteMsgs(reg, data)[1].data[1] = reg /\ WriteMsgs(reg, data)[2].dir = "write"
         /\ WriteMsgs(reg, data)[2].data = data /\ WriteMsgs(reg, data)[2].len = Len(data)
BY DEF WriteMsgs

LEMMA ReadMsgsTell ==
  ASSUME NEW reg, NEW n
  PROVE  /\ ReadMsgs(reg, n)[1].data[1] = reg /\ ReadMsgs(reg, n)[2].dir = "read"
         /\ ReadMsgs(reg, n)[2].len = n
BY DEF ReadMsgs

LEMMA WritesFind ==
  ASSUME NEW reg, NEW data, bus.msgs = WriteMsgs(reg, data)
  PROVE  /\ UnderWay <=> Sends(reg, data)
         /\ Finished <=> \A k \in 1 .. Len(data) : clock.regs[reg + k - 1] = data[k]
         /\ \A r, n : bus.msgs # ReadMsgs(r, n)
         /\ \A r, d : bus.msgs = WriteMsgs(r, d) => r = reg /\ d = data
<1>1. Reg = reg /\ bus.msgs[2].dir = "write" /\ bus.msgs[2].data = data
      /\ bus.msgs[2].len = Len(data)
  BY WriteMsgsTell DEF Reg
<1>2. (UnderWay <=> Sends(reg, data))
  BY <1>1 DEF UnderWay
<1>3. Finished <=> \A k \in 1 .. Len(data) : clock.regs[reg + k - 1] = data[k]
  BY <1>1 DEF Finished
<1>4. \A r, n : bus.msgs # ReadMsgs(r, n)
  BY <1>1, ReadMsgsTell
<1>5. \A r, d : bus.msgs = WriteMsgs(r, d) => r = reg /\ d = data
  BY <1>1, WriteMsgsTell DEF Reg
<1> QED BY <1>2, <1>3, <1>4, <1>5

LEMMA ReadsFind ==
  ASSUME NEW reg, NEW n, bus.msgs = ReadMsgs(reg, n)
  PROVE  /\ UnderWay <=> Gets(reg, n)
         /\ Finished <=> \A k \in 1 .. n : taken[k] = clock.regs[reg + k - 1]
         /\ \A r, d : bus.msgs # WriteMsgs(r, d)
<1>1. Reg = reg /\ bus.msgs[2].dir = "read" /\ bus.msgs[2].len = n
  BY ReadMsgsTell DEF Reg
<1>2. UnderWay <=> Gets(reg, n)
  BY <1>1 DEF UnderWay
<1>3. Finished <=> \A k \in 1 .. n : taken[k] = clock.regs[reg + k - 1]
  BY <1>1 DEF Finished
<1>4. \A r, d : bus.msgs # WriteMsgs(r, d)
  BY <1>1, WriteMsgsTell
<1> QED BY <1>2, <1>3, <1>4

(* The transfers stay within the registers of the clock. *)
LEMMA PurposeShape ==
  ASSUME Purpose, rtc.now \in Ops
  PROVE  \/ \E reg \in Regs, data \in Seq(Int) :
              /\ Len(data) > 0 /\ reg + Len(data) - 1 <= Status
              /\ bus.msgs = WriteMsgs(reg, data)
         \/ \E reg \in Regs, n \in Nat :
              /\ n > 0 /\ reg + n - 1 <= Status /\ bus.msgs = ReadMsgs(reg, n)
<1>1. /\ TimeRegs \in Nat /\ TimeRegs > 0 /\ Status = TimeRegs + 1 /\ Control = TimeRegs
      /\ 0 \in Regs /\ Status \in Regs /\ Control \in Regs
  BY RegsFacts
<1> DEFINE time == [i \in 1 .. TimeRegs |-> rtc.now.time]
<1>2. time \in Seq(Int) /\ Len(time) = TimeRegs
  <2>1. rtc.now.time \in Int
    BY DEF Ops
  <2> QED BY <1>1, <2>1
<1>3. \A b \in Int : <<b>> \in Seq(Int) /\ Len(<<b>>) = 1
  OBVIOUS
<1>4. \A b \in 0 .. 3 : b \in Int
  OBVIOUS
<1> HIDE DEF time
<1>5. CASE bus.msgs = WriteMsgs(0, time)
  BY <1>1, <1>2, <1>5
<1>6. ASSUME NEW reg \in Regs, NEW b \in Int, bus.msgs = WriteMsgs(reg, <<b>>)
      PROVE  \E r \in Regs, data \in Seq(Int) :
               /\ Len(data) > 0 /\ r + Len(data) - 1 <= Status
               /\ bus.msgs = WriteMsgs(r, data)
  <2> DEFINE data == <<b>>
  <2>1. data \in Seq(Int) /\ Len(data) = 1 /\ bus.msgs = WriteMsgs(reg, data)
    BY <1>3, <1>6
  <2> HIDE DEF data
  <2>2. Len(data) > 0 /\ reg + Len(data) - 1 <= Status
    BY <2>1, RegsFacts
  <2> QED BY <2>1, <2>2
<1>7. CASE \/ \E b \in 0 .. 3 : bus.msgs = WriteMsgs(Status, <<b>>)
           \/ bus.msgs = WriteMsgs(Control, <<0>>)
  <2>1. \E reg \in Regs, b \in Int : bus.msgs = WriteMsgs(reg, <<b>>)
    BY <1>1, <1>4, <1>7
  <2> QED BY <1>6, <2>1
<1>8. CASE bus.msgs = ReadMsgs(Status, 1) \/ bus.msgs = ReadMsgs(0, TimeRegs)
  BY <1>1, <1>8
<1>9. \/ bus.msgs = WriteMsgs(0, time) \/ bus.msgs = WriteMsgs(Control, <<0>>)
      \/ \E b \in 0 .. 3 : bus.msgs = WriteMsgs(Status, <<b>>)
      \/ bus.msgs = ReadMsgs(Status, 1) \/ bus.msgs = ReadMsgs(0, TimeRegs)
  BY DEF Purpose, time
<1> QED BY <1>5, <1>6, <1>7, <1>8, <1>9

(* What the purpose of a transfer allows it to write, the purpose          *)
(* outlives.                                                               *)
LEMMA RegsKeep ==
  ASSUME ClockType, Purpose, clock' \in ClockRecord,
         bus'.msgs = bus.msgs, rtc'.now = rtc.now,
         \/ clock'.regs = clock.regs
         \/ \E reg, data : \E k \in 1 .. Len(data) :
              /\ bus.msgs = WriteMsgs(reg, data)
              /\ clock'.regs = [clock.regs EXCEPT ![reg + k - 1] = data[k]]
  PROVE  /\ ClockType' /\ Purpose'
         /\ Osf(clock.regs[Status]) = 1 /\ Osf(clock'.regs[Status]) = 0
              => \A r \in 0 .. TimeRegs - 1 : clock'.regs[r] = rtc.now.time
<1>1. /\ clock.regs \in [Regs -> Int] /\ clock.regs[Status] \in 0 .. 3
      /\ TimeRegs \in Nat /\ TimeRegs > 0 /\ Status = TimeRegs + 1 /\ Control = TimeRegs
      /\ Status \in Regs /\ \A r \in 0 .. TimeRegs - 1 : r \in Regs /\ r # Status /\ r # Control
  <2>1. clock.regs \in [Regs -> Int] /\ clock.regs[Status] \in 0 .. 3
    BY DEF ClockType, ClockRecord
  <2>2. /\ TimeRegs \in Nat /\ TimeRegs > 0 /\ Status = TimeRegs + 1 /\ Control = TimeRegs
        /\ Status \in Regs /\ \A r \in 0 .. TimeRegs - 1 : r \in Regs /\ r # Status /\ r # Control
    BY RegsFacts
  <2> QED BY <2>1, <2>2
<1>2. CASE clock'.regs = clock.regs
  BY <1>1, <1>2 DEF ClockType, Purpose, Whole
<1>3. ASSUME NEW reg, NEW data, NEW k \in 1 .. Len(data), bus.msgs = WriteMsgs(reg, data),
             clock'.regs = [clock.regs EXCEPT ![reg + k - 1] = data[k]]
      PROVE  /\ ClockType' /\ Purpose'
             /\ Osf(clock.regs[Status]) = 1 /\ Osf(clock'.regs[Status]) = 0
                  => \A r \in 0 .. TimeRegs - 1 : clock'.regs[r] = rtc.now.time
  <2>1. /\ \A r, n : bus.msgs # ReadMsgs(r, n)
        /\ \A r, d : bus.msgs = WriteMsgs(r, d) => r = reg /\ d = data
    BY <1>3, WritesFind
  <2>2. CASE /\ rtc.now.op = "set" /\ rtc.now.step = 1
             /\ bus.msgs = WriteMsgs(0, [i \in 1 .. TimeRegs |-> rtc.now.time])
    <3> DEFINE time == [i \in 1 .. TimeRegs |-> rtc.now.time]
    <3>1. reg = 0 /\ k \in 1 .. TimeRegs
      <4>1. reg = 0 /\ data = time
        BY <2>1, <2>2, Zenon
      <4>2. Len(time) = TimeRegs
        <5> HIDE <1>3
        <5> QED BY <1>1
      <4> HIDE DEF time
      <4> QED BY <4>1, <4>2
    <3>2. clock'.regs[Status] = clock.regs[Status]
      BY <1>1, <1>3, <3>1
    <3> QED BY <1>1, <2>2, <3>2, OsfFacts DEF ClockType, Purpose
  <2>3. CASE /\ rtc.now.op = "set" /\ rtc.now.step = 3 /\ Whole(rtc.now.time)
             /\ \E b \in 0 .. 1 : bus.msgs = WriteMsgs(Status, <<b>>)
    <3>1. PICK b \in 0 .. 1 : bus.msgs = WriteMsgs(Status, <<b>>)
      BY <2>3
    <3>2. reg = Status /\ data = <<b>> /\ k = 1
      <4>1. reg = Status /\ data = <<b>>
        BY <2>1, <3>1, Zenon
      <4> QED BY <4>1
    <3>3. clock'.regs = [clock.regs EXCEPT ![Status] = b]
      BY <1>1, <1>3, <3>2
    <3>4. clock'.regs[Status] = b /\ \A r \in 0 .. TimeRegs - 1 : clock'.regs[r] = clock.regs[r]
      BY <1>1, <3>3
    <3>5. \A r \in 0 .. TimeRegs - 1 : clock'.regs[r] = rtc.now.time
      BY <2>3, <3>4 DEF Whole
    <3>6. clock'.regs[Status] \in 0 .. 3
      BY <3>4
    <3>7. Whole(rtc.now.time)'
      BY <3>5 DEF Whole
    <3> QED BY <2>3, <3>5, <3>6, <3>7 DEF ClockType, Purpose
  <2>4. CASE /\ rtc.now.op = "init" /\ rtc.now.step = 2
             /\ \E b \in 0 .. 3 : Osf(b) = Osf(clock.regs[Status])
                                  /\ bus.msgs = WriteMsgs(Status, <<b>>)
    <3>1. PICK b \in 0 .. 3 : Osf(b) = Osf(clock.regs[Status])
                              /\ bus.msgs = WriteMsgs(Status, <<b>>)
      BY <2>4
    <3>2. reg = Status /\ data = <<b>> /\ k = 1
      <4>1. reg = Status /\ data = <<b>>
        BY <2>1, <3>1, Zenon
      <4> QED BY <4>1
    <3>3. clock'.regs = [clock.regs EXCEPT ![Status] = b]
      BY <1>1, <1>3, <3>2
    <3>4. clock'.regs[Status] = b
      BY <1>1, <3>3
    <3>5. Osf(clock'.regs[Status]) = Osf(clock.regs[Status]) /\ Osf(b) \in 0 .. 1
      BY <3>1, <3>4, OsfFacts
    <3>6. Purpose'
      BY <2>4, <3>1, <3>4 DEF Purpose
    <3> QED BY <3>4, <3>5, <3>6 DEF ClockType
  <2>5. CASE /\ rtc.now.op = "init" /\ rtc.now.step = 3
             /\ bus.msgs = WriteMsgs(Control, <<0>>)
    <3>1. reg = Control /\ k = 1
      <4>1. reg = Control /\ data = <<0>>
        BY <2>1, <2>5, Zenon
      <4> QED BY <4>1
    <3>2. clock'.regs[Status] = clock.regs[Status]
      BY <1>1, <1>3, <3>1
    <3> QED BY <1>1, <2>5, <3>2, OsfFacts DEF ClockType, Purpose
  <2> QED BY <2>1, <2>2, <2>3, <2>4, <2>5 DEF Purpose
<1> QED BY <1>2, <1>3

(* What an interrupt leaves behind, whichever way the transfer goes.       *)
LEMMA TransferGoesOn ==
  ASSUME BusInv, ClockInv, TwiInterrupt
  PROVE  /\ bus'.msgs = bus.msgs /\ rtc'.now = rtc.now /\ rtc'.last = rtc.last
         /\ clock' \in ClockRecord
         /\ \/ clock'.regs = clock.regs
            \/ \E reg, data : \E k \in 1 .. Len(data) :
                 /\ bus.msgs = WriteMsgs(reg, data)
                 /\ clock'.regs = [clock.regs EXCEPT ![reg + k - 1] = data[k]]
         /\ \/ UnderWay' /\ rtc' = rtc
            \/ hw'.step = "none" /\ Finished'
<1>1. /\ hw.step # "none" /\ Purpose /\ UnderWay /\ clock \in ClockRecord /\ rtc.now \in Ops
  BY DEF TwiInterrupt, ClockInv, ClockType, BusInv, BusType
<1>2. CASE \E reg \in Regs, data \in Seq(Int) :
             /\ Len(data) > 0 /\ reg + Len(data) - 1 <= Status
             /\ bus.msgs = WriteMsgs(reg, data)
  <2>1. PICK reg \in Regs, data \in Seq(Int) :
          /\ Len(data) > 0 /\ reg + Len(data) - 1 <= Status
          /\ bus.msgs = WriteMsgs(reg, data)
    BY <1>2
  <2>2. Sends(reg, data)
    BY <1>1, <2>1, WritesFind
  <2>3. /\ bus'.msgs = bus.msgs /\ rtc'.now = rtc.now /\ rtc'.last = rtc.last
        /\ clock' \in ClockRecord
        /\ \/ clock'.regs = clock.regs
           \/ \E k \in 1 .. Len(data) :
                clock'.regs = [clock.regs EXCEPT ![reg + k - 1] = data[k]]
        /\ \/ Sends(reg, data)' /\ rtc' = rtc
           \/ /\ hw'.step = "none" /\ rtc'.result = "done"
              /\ \A k \in 1 .. Len(data) : clock'.regs[reg + k - 1] = data[k]
    BY <1>1, <2>1, <2>2, SendsOn
  <2>4. bus'.msgs = WriteMsgs(reg, data)
    BY <2>1, <2>3
  <2>5. /\ UnderWay' <=> Sends(reg, data)'
        /\ Finished' <=> \A k \in 1 .. Len(data) : clock'.regs[reg + k - 1] = data[k]
    <3>1. /\ bus'.msgs[1].data[1] = reg /\ bus'.msgs[2].dir = "write"
          /\ bus'.msgs[2].data = data /\ bus'.msgs[2].len = Len(data)
      BY <2>4, WriteMsgsTell
    <3>2. UnderWay' <=> Sends(reg, data)'
      BY <3>1 DEF UnderWay, Reg
    <3>3. Finished' <=> \A k \in 1 .. Len(data) : clock'.regs[reg + k - 1] = data[k]
      BY <3>1 DEF Finished, Reg
    <3> QED BY <3>2, <3>3
  <2>6. \/ clock'.regs = clock.regs
        \/ \E r, d : \E k \in 1 .. Len(d) :
             /\ bus.msgs = WriteMsgs(r, d)
             /\ clock'.regs = [clock.regs EXCEPT ![r + k - 1] = d[k]]
    <3> DEFINE Written(r, d, k) == clock'.regs = [clock.regs EXCEPT ![r + k - 1] = d[k]]
    <3>1. \/ clock'.regs = clock.regs
          \/ \E k \in 1 .. Len(data) : Written(reg, data, k)
      BY <2>3
    <3> HIDE DEF Written
    <3>2. \/ clock'.regs = clock.regs
          \/ \E r, d : \E k \in 1 .. Len(d) :
               bus.msgs = WriteMsgs(r, d) /\ Written(r, d, k)
      BY <2>1, <3>1, Zenon
    <3> QED BY <3>2 DEF Written
  <2>7. \/ UnderWay' /\ rtc' = rtc
        \/ hw'.step = "none" /\ Finished'
    BY <2>3, <2>5, Zenon
  <2> QED BY <2>3, <2>6, <2>7, Zenon
<1>3. CASE \E reg \in Regs, n \in Nat :
             /\ n > 0 /\ reg + n - 1 <= Status /\ bus.msgs = ReadMsgs(reg, n)
  <2>1. PICK reg \in Regs, n \in Nat :
          /\ n > 0 /\ reg + n - 1 <= Status /\ bus.msgs = ReadMsgs(reg, n)
    BY <1>3
  <2>2. Gets(reg, n)
    BY <1>1, <2>1, ReadsFind
  <2>3. /\ bus'.msgs = bus.msgs /\ rtc'.now = rtc.now /\ rtc'.last = rtc.last
        /\ clock' \in ClockRecord /\ clock'.regs = clock.regs
        /\ \/ Gets(reg, n)' /\ rtc' = rtc
           \/ /\ hw'.step = "none" /\ rtc'.result = "done"
              /\ \A k \in 1 .. n : taken'[k] = clock'.regs[reg + k - 1]
    BY <1>1, <2>1, <2>2, GetsOn
  <2>4. bus'.msgs = ReadMsgs(reg, n)
    BY <2>1, <2>3
  <2>5. /\ UnderWay' <=> Gets(reg, n)'
        /\ Finished' <=> \A k \in 1 .. n : taken'[k] = clock'.regs[reg + k - 1]
    <3>1. /\ bus'.msgs[1].data[1] = reg /\ bus'.msgs[2].dir = "read"
          /\ bus'.msgs[2].len = n
      BY <2>4, ReadMsgsTell
    <3>2. UnderWay' <=> Gets(reg, n)'
      BY <3>1 DEF UnderWay, Reg
    <3>3. Finished' <=> \A k \in 1 .. n : taken'[k] = clock'.regs[reg + k - 1]
      BY <3>1 DEF Finished, Reg
    <3> QED BY <3>2, <3>3
  <2> QED BY <2>3, <2>5, Zenon
<1> QED BY <1>1, <1>2, <1>3, PurposeShape

LEMMA TwiInterruptClock ==
  ASSUME BusInv, ClockInv, TwiInterrupt
  PROVE  /\ ClockInv'
         /\ Osf(clock.regs[Status]) = 1 /\ Osf(clock'.regs[Status]) = 0
              => \A r \in 0 .. TimeRegs - 1 : clock'.regs[r] = rtc.now.time
<1>1. /\ ClockType /\ Purpose /\ rtc.result # "done" /\ rtc.last.op = "none"
  BY DEF TwiInterrupt, ClockInv, BusInv, StepWatched
<1>2. /\ rtc'.last = rtc.last
      /\ \/ UnderWay' /\ rtc' = rtc
         \/ hw'.step = "none" /\ Finished'
  BY TransferGoesOn, Zenon
<1>3. /\ ClockType' /\ Purpose'
      /\ Osf(clock.regs[Status]) = 1 /\ Osf(clock'.regs[Status]) = 0
           => \A r \in 0 .. TimeRegs - 1 : clock'.regs[r] = rtc.now.time
  BY <1>1, TransferGoesOn, RegsKeep, Zenon
<1>4. hw'.step # "none" => Purpose' /\ UnderWay'
  BY <1>2, <1>3
<1>5. rtc'.result = "done" => Purpose' /\ Finished'
  BY <1>1, <1>2, <1>3
<1>6. rtc'.last.op = "none"
  BY <1>1, <1>2
<1> QED BY <1>3, <1>4, <1>5, <1>6 DEF ClockInv, ClockTold

(* What i2c_transfer sets, if it takes the bus. *)
LEMMA LaunchSets ==
  ASSUME ~bus.busy, NEW o \in Ops, NEW n \in Int, NEW msgs, StepWith(o, n, msgs)
  PROVE  /\ hw'.step = "start" /\ bus'.pos = 1 /\ bus'.buf = 0 /\ taken' = << >>
         /\ bus'.msgs = msgs /\ rtc'.now.op = o.op /\ rtc'.now.step = n
         /\ rtc'.now.time = o.time /\ rtc'.result = "none" /\ rtc'.last.op = "none"
<1> DEFINE p == [o EXCEPT !.step = n]
<1>1. p.op = o.op /\ p.step = n /\ p.time = o.time
  BY DEF Ops
<1>2. /\ rtc' = [now |-> p, result |-> "none", last |-> NoOp] /\ Launch(msgs)
  BY DEF StepWith
<1> HIDE DEF p
<1>3. /\ rtc'.now = p /\ rtc'.result = "none" /\ rtc'.last = NoOp
      /\ hw'.step = "start" /\ bus'.pos = 1 /\ bus'.buf = 0 /\ taken' = << >>
      /\ bus'.msgs = msgs
  BY <1>2, Zenon DEF Launch
<1> QED BY <1>1, <1>3 DEF NoOp

(* A transfer that starts has its purpose, or the caller has its error.    *)
LEMMA StepWithClock ==
  ASSUME ClockInv, clock' = clock, hw.step = "none",
         NEW o \in Ops, NEW n \in Int, NEW msgs, StepWith(o, n, msgs),
         /\ bus'.msgs = msgs /\ rtc'.now.op = o.op /\ rtc'.now.step = n
         /\ rtc'.now.time = o.time
         => Purpose'
  PROVE  ClockInv'
<1>1. ClockType'
  BY DEF ClockInv, ClockType
<1>2. CASE bus.busy
  <2>1. rtc' = Ended("EBUSY", NoOp) /\ hw' = hw
    BY <1>2 DEF StepWith, Ends
  <2>2. rtc'.result = "EBUSY" /\ rtc'.last.op = "none" /\ hw'.step = "none"
    BY <2>1 DEF Ended, NoOp
  <2> QED BY <1>1, <2>2 DEF ClockInv, ClockTold
<1>3. CASE ~bus.busy
  <2>1. /\ hw'.step = "start" /\ bus'.pos = 1 /\ bus'.buf = 0 /\ taken' = << >>
        /\ rtc'.result = "none" /\ rtc'.last.op = "none" /\ Purpose'
    BY <1>3, LaunchSets
  <2>2. UnderWay'
    BY <2>1, Zenon DEF UnderWay, Sends, Gets, Begins
  <2> QED BY <1>1, <2>1, <2>2 DEF ClockInv, ClockTold
<1> QED BY <1>2, <1>3

(* An operation that ends knows the clock, if it succeeds.                 *)
LEMMA EndsClock ==
  ASSUME ClockInv, clock' = clock, hw.step = "none", hw' = hw, taken' = taken,
         NEW result, result # "done", NEW last, rtc' = Ended(result, last),
         last.op # "none" =>
           /\ Osf(clock.regs[Status]) = 0
           /\ \A r \in 0 .. TimeRegs - 1 :
                clock.regs[r] = IF last.op = "set" THEN last.time ELSE taken[r + 1]
  PROVE  ClockInv'
<1>1. ClockType'
  BY DEF ClockInv, ClockType
<1>2. rtc'.now = NoOp /\ rtc'.result = result /\ rtc'.last = last
  BY DEF Ended
<1>3. rtc'.now.op = "none"
  BY <1>2 DEF NoOp
<1>4. ClockTold'
  BY <1>2 DEF ClockTold
<1> QED BY <1>1, <1>2, <1>3, <1>4 DEF ClockInv

LEMMA CallClock == ASSUME BusInv, ClockInv, Call PROVE ClockInv'
<1>1. rtc.now.op = "none" /\ clock' = clock /\ hw.step = "none"
  BY DEF Call, BusInv, CallerWatched
<1>2. PICK o : /\ First(o)
               /\ \/ o = [op |-> "init", step |-> 1, time |-> 0]
                  \/ o = [op |-> "get", step |-> 1, time |-> 0]
                  \/ \E t \in Times : o = [op |-> "set", step |-> 1, time |-> t]
  BY DEF Call
<1>3. o \in Ops /\ o.op \in {"init", "get", "set"}
  <2>1. \A t \in Times : t \in Int
    BY I2cAssumption
  <2> QED BY <1>2, <2>1 DEF Ops
<1>4. CASE o.op = "set"
  <2>1. StepWith(o, 1, WriteMsgs(0, [i \in 1 .. TimeRegs |-> o.time]))
    BY <1>2, <1>4 DEF First
  <2>2. /\ bus'.msgs = WriteMsgs(0, [i \in 1 .. TimeRegs |-> o.time])
        /\ rtc'.now.op = o.op /\ rtc'.now.step = 1 /\ rtc'.now.time = o.time
        => Purpose'
    BY <1>4, Zenon DEF Purpose
  <2> QED BY <1>1, <1>3, <2>1, <2>2, StepWithClock
<1>5. CASE o.op # "set"
  <2>1. StepWith(o, 1, ReadMsgs(Status, 1))
    BY <1>2, <1>5 DEF First
  <2>2. /\ bus'.msgs = ReadMsgs(Status, 1)
        /\ rtc'.now.op = o.op /\ rtc'.now.step = 1 /\ rtc'.now.time = o.time
        => Purpose'
    BY <1>3, <1>5 DEF Purpose
  <2> QED BY <1>1, <1>3, <2>1, <2>2, StepWithClock
<1> QED BY <1>4, <1>5

LEMMA TwiFaultClock == ASSUME BusInv, ClockInv, TwiFault PROVE ClockInv'
<1>1. hw.step # "none" /\ clock' = clock
  BY DEF TwiFault
<1>2. /\ ClockType /\ Purpose /\ rtc.last.op = "none" /\ rtc.result # "done" /\ BusType
  BY <1>1 DEF ClockInv, BusInv, StepWatched
<1>3. ClockType'
  BY <1>1, <1>2 DEF ClockType
<1>4. ASSUME hw'.step = "none", rtc'.result # "done", rtc'.last.op = "none"
      PROVE  ClockInv'
  BY <1>3, <1>4 DEF ClockInv, ClockTold
<1>5. ASSUME NEW o \in GoesWrong, Handle(o.status, o.in)
      PROVE  ClockInv'
  <2>1. o.status \in {"BUS_ERROR", "ARB_LOST", "MT_SLA_NACK", "MR_SLA_NACK", "MT_DATA_NACK"}
    BY <1>5 DEF GoesWrong, Outcome
  <2>2. \/ Goes("none", "lost", FALSE, 0, bus.pos, bus.buf)
        \/ Complete("ENODEV") \/ Complete("EIO")
    BY <1>5, <2>1, Zenon DEF Handle, Receives
  <2>3. CASE Goes("none", "lost", FALSE, 0, bus.pos, bus.buf)
    <3>1. hw'.step = "none" /\ rtc' = rtc
      BY <1>2, <2>3, GoesSets, Zenon
    <3> QED BY <1>2, <1>4, <3>1
  <2>4. ASSUME NEW result, result # "done", Complete(result)
        PROVE  ClockInv'
    <3>1. hw'.step = "none" /\ rtc' = Ended(result, NoOp)
      BY <1>2, <2>4, CompleteSets
    <3>2. rtc'.result = result /\ rtc'.last.op = "none"
      BY <3>1 DEF Ended, NoOp
    <3> QED BY <1>4, <2>4, <3>1, <3>2
  <2> QED BY <2>2, <2>3, <2>4
<1>6. CASE hw' = Idle /\ UNCHANGED <<bus, taken, rtc>>
  <2>1. hw'.step = "none" /\ rtc' = rtc
    BY <1>6 DEF Idle
  <2> QED BY <1>2, <1>4, <2>1
<1> QED BY <1>5, <1>6 DEF TwiFault

LEMMA OnTimeoutClock == ASSUME BusInv, ClockInv, OnTimeout PROVE ClockInv'
<1>1. /\ hw.step = "none" /\ hw' = hw /\ clock' = clock /\ taken' = taken
      /\ rtc' = Ended("EINTR", NoOp) /\ NoOp.op = "none"
  BY DEF OnTimeout, NoOp
<1> QED BY <1>1, EndsClock

LEMMA ClockInvInit == I2cInit => ClockInv
<1> SUFFICES ASSUME I2cInit PROVE ClockInv
  OBVIOUS
<1>1. PICK status \in 0 .. 3, t \in Times :
        clock = [regs |-> [r \in Regs |-> IF r = Status THEN status
                                          ELSE IF r = Control THEN 1 ELSE t],
                 ptr |-> 0, first |-> FALSE]
  BY DEF I2cInit
<1>2. t \in Int /\ Status \in Regs /\ 0 \in Regs
  BY I2cAssumption, RegsFacts
<1> DEFINE regs == [r \in Regs |-> IF r = Status THEN status
                                   ELSE IF r = Control THEN 1 ELSE t]
<1>3. regs \in [Regs -> Int] /\ regs[Status] = status
  BY <1>2
<1> HIDE DEF regs
<1>4. ClockType
  BY <1>1, <1>2, <1>3 DEF ClockType, ClockRecord, regs
<1>5. hw.step = "none" /\ rtc.result = "none" /\ rtc.last.op = "none"
  BY DEF I2cInit, Idle, NoOp
<1> QED BY <1>4, <1>5 DEF ClockInv, ClockTold

(* The next transfer of an operation builds on what the last one brought.  *)
LEMMA WakesUpClock == ASSUME BusInv, ClockInv, WakesUp PROVE ClockInv'
<1> DEFINE o == rtc.now
           status == clock.regs[Status]
<1>1. /\ rtc.result = "done" /\ clock' = clock /\ hw.step = "none" /\ o \in Ops
      /\ Purpose /\ Finished /\ status \in 0 .. 3
  BY DEF WakesUp, BusInv, BusType, WokenIsFree, ClockInv, ClockType
<1>2. ASSUME NEW p \in Ops, NEW n \in Int, NEW msgs, StepWith(p, n, msgs),
             /\ bus'.msgs = msgs /\ rtc'.now.op = p.op /\ rtc'.now.step = n
             /\ rtc'.now.time = p.time
             => Purpose'
      PROVE  ClockInv'
  BY <1>1, <1>2, StepWithClock
<1>3. ASSUME NEW result, result # "done", NEW last, Ends(result, last),
             last.op # "none" =>
               /\ Osf(status) = 0
               /\ \A r \in 0 .. TimeRegs - 1 :
                    clock.regs[r] = IF last.op = "set" THEN last.time ELSE taken[r + 1]
      PROVE  ClockInv'
  <2>1. hw' = hw /\ taken' = taken /\ rtc' = Ended(result, last)
    BY <1>3 DEF Ends
  <2> QED BY <1>1, <1>3, <2>1, EndsClock
<1>4. bus.msgs = ReadMsgs(Status, 1) => taken[1] = status
  <2>1. Status + 1 - 1 = Status
    BY RegsFacts
  <2> QED BY <1>1, <2>1, ReadsFind
<1>5. \A t : Whole(t) => Whole(t)'
  BY <1>1 DEF Whole
<1>6. CASE /\ o.op = "set" /\ o.step = 1
           /\ bus.msgs = WriteMsgs(0, [i \in 1 .. TimeRegs |-> o.time])
  <2>1. StepWith(o, 2, ReadMsgs(Status, 1))
    BY <1>6 DEF WakesUp
  <2>2. Whole(o.time)
    <3> DEFINE time == [i \in 1 .. TimeRegs |-> o.time]
    <3>1. TimeRegs \in Nat /\ Len(time) = TimeRegs /\ \A k \in 1 .. TimeRegs : time[k] = o.time
      BY RegsFacts
    <3>2. \A r \in 0 .. TimeRegs - 1 : r + 1 \in 1 .. TimeRegs /\ 0 + (r + 1) - 1 = r
      BY <3>1
    <3>3. bus.msgs = WriteMsgs(0, time)
      BY <1>6
    <3> HIDE DEF time
    <3>4. \A k \in 1 .. Len(time) : clock.regs[0 + k - 1] = time[k]
      BY <1>1, <3>3, WritesFind
    <3> QED BY <3>1, <3>2, <3>4 DEF Whole
  <2>3. /\ bus'.msgs = ReadMsgs(Status, 1) /\ rtc'.now.op = o.op /\ rtc'.now.step = 2
        /\ rtc'.now.time = o.time
        => Purpose'
    BY <1>5, <1>6, <2>2 DEF Purpose
  <2> QED BY <1>1, <1>2, <2>1, <2>3
<1>7. CASE o.op = "set" /\ o.step = 2 /\ Whole(o.time) /\ bus.msgs = ReadMsgs(Status, 1)
  <2>1. CASE Osf(taken[1]) = 1
    <3>1. StepWith(o, 3, WriteMsgs(Status, <<On32kHz(taken[1])>>))
      BY <1>7, <2>1 DEF WakesUp
    <3>2. On32kHz(taken[1]) \in 0 .. 1
      BY <1>1, <1>4, <1>7, OsfFacts
    <3>3. /\ bus'.msgs = WriteMsgs(Status, <<On32kHz(taken[1])>>)
          /\ rtc'.now.op = o.op /\ rtc'.now.step = 3 /\ rtc'.now.time = o.time
          => Purpose'
      BY <1>5, <1>7, <3>2 DEF Purpose
    <3> QED BY <1>1, <1>2, <3>1, <3>3
  <2>2. CASE Osf(taken[1]) # 1
    <3>1. Ends("OK", o)
      BY <1>7, <2>2 DEF WakesUp
    <3>2. Osf(status) = 0
      BY <1>1, <1>4, <1>7, <2>2, OsfFacts
    <3> QED BY <1>3, <1>7, <3>1, <3>2 DEF Whole
  <2> QED BY <2>1, <2>2
<1>8. CASE /\ o.op = "set" /\ o.step = 3 /\ Whole(o.time)
           /\ \E b \in 0 .. 1 : bus.msgs = WriteMsgs(Status, <<b>>)
  <2>1. Ends("OK", o)
    BY <1>8 DEF WakesUp
  <2>2. Osf(status) = 0
    <3>1. PICK b \in 0 .. 1 : bus.msgs = WriteMsgs(Status, <<b>>)
      BY <1>8
    <3>2. \A k \in 1 .. Len(<<b>>) : clock.regs[Status + k - 1] = <<b>>[k]
      BY <1>1, <3>1, WritesFind
    <3>3. Status + 1 - 1 = Status
      BY RegsFacts
    <3>4. status = b
      BY <3>2, <3>3
    <3> QED BY <3>4 DEF Osf
  <2> QED BY <1>3, <1>8, <2>1, <2>2 DEF Whole
<1>9. CASE o.op = "get" /\ o.step = 1 /\ bus.msgs = ReadMsgs(Status, 1)
  <2>1. Osf(taken[1]) = Osf(status) /\ Osf(status) \in 0 .. 1
    BY <1>1, <1>4, <1>9, OsfFacts
  <2>2. CASE Osf(status) = 0
    <3>1. StepWith(o, 2, ReadMsgs(0, TimeRegs))
      BY <1>9, <2>1, <2>2 DEF WakesUp
    <3>2. /\ bus'.msgs = ReadMsgs(0, TimeRegs) /\ rtc'.now.op = o.op /\ rtc'.now.step = 2
          /\ rtc'.now.time = o.time
          => Purpose'
      BY <1>1, <1>9, <2>2 DEF Purpose
    <3> QED BY <1>1, <1>2, <3>1, <3>2
  <2>3. CASE Osf(status) = 1
    <3>1. Ends("EFAULT", NoOp) /\ NoOp.op = "none"
      BY <1>9, <2>1, <2>3 DEF WakesUp, NoOp
    <3> QED BY <1>3, <3>1
  <2> QED BY <2>1, <2>2, <2>3
<1>10. CASE /\ o.op = "get" /\ o.step = 2 /\ Osf(status) = 0
            /\ bus.msgs = ReadMsgs(0, TimeRegs)
  <2>1. Ends("OK", o)
    BY <1>10 DEF WakesUp
  <2>2. \A r \in 0 .. TimeRegs - 1 : taken[r + 1] = clock.regs[r]
    <3>1. \A k \in 1 .. TimeRegs : taken[k] = clock.regs[0 + k - 1]
      BY <1>1, <1>10, ReadsFind
    <3>2. \A r \in 0 .. TimeRegs - 1 : r + 1 \in 1 .. TimeRegs /\ 0 + (r + 1) - 1 = r
      BY RegsFacts
    <3> QED BY <3>1, <3>2
  <2> QED BY <1>3, <1>10, <2>1, <2>2
<1>11. CASE o.op = "init" /\ o.step = 1 /\ bus.msgs = ReadMsgs(Status, 1)
  <2> DEFINE b == Without32kHz(taken[1])
  <2>1. StepWith(o, 2, WriteMsgs(Status, <<b>>))
    BY <1>11 DEF WakesUp
  <2>2. b \in 0 .. 3 /\ Osf(b) = Osf(status)
    BY <1>1, <1>4, <1>11, OsfFacts
  <2> HIDE DEF b
  <2>3. /\ bus'.msgs = WriteMsgs(Status, <<b>>) /\ rtc'.now.op = o.op /\ rtc'.now.step = 2
        /\ rtc'.now.time = o.time
        => Purpose'
    BY <1>1, <1>11, <2>2 DEF Purpose
  <2> QED BY <1>1, <1>2, <2>1, <2>3
<1>12. CASE o.op = "init" /\ o.step = 2
  <2>1. StepWith(o, 3, WriteMsgs(Control, <<0>>))
    BY <1>12 DEF WakesUp
  <2>2. /\ bus'.msgs = WriteMsgs(Control, <<0>>) /\ rtc'.now.op = o.op /\ rtc'.now.step = 3
        /\ rtc'.now.time = o.time
        => Purpose'
    BY <1>12 DEF Purpose
  <2> QED BY <1>1, <1>2, <2>1, <2>2
<1>13. CASE o.op = "init" /\ o.step = 3
  <2> DEFINE g == [o EXCEPT !.op = "get"]
  <2>1. StepWith(g, 1, ReadMsgs(Status, 1))
    BY <1>13 DEF WakesUp
  <2>2. g \in Ops /\ g.op = "get"
    BY <1>1, OpsType
  <2> HIDE DEF g
  <2>3. /\ bus'.msgs = ReadMsgs(Status, 1) /\ rtc'.now.op = g.op /\ rtc'.now.step = 1
        /\ rtc'.now.time = g.time
        => Purpose'
    BY <2>2 DEF Purpose
  <2> QED BY <1>2, <2>1, <2>2, <2>3
<1> QED BY <1>1, <1>6, <1>7, <1>8, <1>9, <1>10, <1>11, <1>12, <1>13 DEF Purpose

(* What every step does: the caller and the clock agree, and the mark goes *)
(* only when the time is whole.                                            *)
LEMMA ClockStep ==
  ASSUME BusInv, ClockInv, [I2cNext]_i2cVars
  PROVE  /\ ClockInv'
         /\ Osf(clock.regs[Status]) = 1 /\ Osf(clock'.regs[Status]) = 0
              => \A r \in 0 .. TimeRegs - 1 : clock'.regs[r] = rtc.now.time
<1>1. CASE TwiInterrupt
  BY <1>1, TwiInterruptClock
<1>2. ASSUME clock' = clock, ClockInv'
      PROVE  /\ ClockInv'
             /\ Osf(clock.regs[Status]) = 1 /\ Osf(clock'.regs[Status]) = 0
                  => \A r \in 0 .. TimeRegs - 1 : clock'.regs[r] = rtc.now.time
  BY <1>2
<1>3. CASE UNCHANGED i2cVars
  <2>1. UNCHANGED <<bus, hw, taken, clock, rtc>>
    BY <1>3 DEF i2cVars
  <2>2. ClockInv'
    BY <2>1 DEF ClockInv, ClockType, ClockTold, Purpose, Whole, UnderWay, Finished, Reg,
                Sends, Gets, Begins
  <2> QED BY <1>2, <2>1, <2>2
<1>4. CASE Call
  BY <1>2, <1>4, CallClock DEF Call
<1>5. CASE WakesUp
  BY <1>2, <1>5, WakesUpClock DEF WakesUp
<1>6. CASE TwiFault
  BY <1>2, <1>6, TwiFaultClock DEF TwiFault
<1>7. CASE OnTimeout
  BY <1>2, <1>7, OnTimeoutClock DEF OnTimeout
<1> QED BY <1>1, <1>3, <1>4, <1>5, <1>6, <1>7 DEF I2cNext

(* Whatever fails on the bus, an operation that rtc_set or rtc_get reports *)
(* as done has set the clock, or told what it holds, and the clock trusts  *)
(* its time.                                                               *)
THEOREM DoneIsTold == I2cSpec => []ClockTold
<1>1. BusInv /\ ClockInv /\ [I2cNext]_i2cVars => BusInv' /\ ClockInv'
  BY BusInvStep, ClockStep
<1>2. ClockInv => ClockTold
  BY DEF ClockInv
<1> QED BY <1>1, <1>2, BusInvInit, ClockInvInit, PTL DEF I2cSpec

(* rtc_set, rtc_get and rtc_ds3231_init clear the mark of a stopped        *)
(* oscillator only when the registers hold the time that is being set.     *)
THEOREM MarkIsKept == I2cSpec => MarkedWhenWhole
<1>1. BusInv /\ ClockInv /\ [I2cNext]_i2cVars => BusInv' /\ ClockInv'
  BY BusInvStep, ClockStep
<1>2. BusInv /\ ClockInv /\ [I2cNext]_i2cVars
        => [(Osf(clock.regs[Status]) = 1 /\ Osf(clock'.regs[Status]) = 0)
              => \A r \in 0 .. TimeRegs - 1 : clock'.regs[r] = rtc.now.time]_i2cVars
  BY ClockStep
<1> QED BY <1>1, <1>2, BusInvInit, ClockInvInit, PTL DEF I2cSpec, MarkedWhenWhole

-----------------------------------------------------------------------------
(* The serial line *)

Parts == {"state", "escape", "sending", "pos", "crc", "got", "type", "length", "payload"}
Hearing == {"SYNC", "RECV_TYPE", "RECV_LENGTH", "RECV_PAYLOAD", "RECV_CRC"}

(* A message that was taken is with the work queue, or it has its reply,   *)
(* or the reply is sent; the transmitter runs while outbuf is not empty.   *)
LinkInv ==
  /\ DOMAIN ctrl = Parts
  /\ ctrl.state \in Hearing \cup {"WAIT_FOR_REPLY", "SEND_REPLY"}
  /\ owed = IF Deaf THEN 1 ELSE 0
  /\ work \/ answer # NoMessage => ctrl.state = "WAIT_FOR_REPLY"
  /\ ~(work /\ answer # NoMessage)
  /\ txPos < Len(out) => ctrl.sending

(* What the operators on ctrl do to the parts that matter. *)
LEMMA RestartedShape ==
  ASSUME DOMAIN ctrl = Parts
  PROVE  /\ DOMAIN Restarted = Parts /\ Restarted.state \in Hearing
         /\ Restarted.sending = ctrl.sending
BY Zenon DEF Restarted, Parts, Hearing

LEMMA RecvHeaderShape ==
  ASSUME DOMAIN ctrl = Parts, NEW byte
  PROVE  /\ DOMAIN RecvHeader(byte) = Parts /\ RecvHeader(byte).state \in Hearing
         /\ RecvHeader(byte).sending = ctrl.sending
BY Zenon DEF RecvHeader, Parts, Hearing

LEMMA RecvPayloadShape ==
  ASSUME DOMAIN ctrl = Parts, ctrl.state \in Hearing, NEW byte
  PROVE  /\ DOMAIN RecvPayload(byte) = Parts /\ RecvPayload(byte).state \in Hearing
         /\ RecvPayload(byte).sending = ctrl.sending
BY Zenon DEF RecvPayload, Parts, Hearing

LEMMA RecvCrcShape ==
  ASSUME DOMAIN ctrl = Parts, NEW byte
  PROVE  /\ DOMAIN RecvCrc(byte) = Parts /\ RecvCrc(byte).state = ctrl.state
         /\ RecvCrc(byte).sending = ctrl.sending
BY Zenon DEF RecvCrc, Parts

LEMMA SendShape ==
  ASSUME DOMAIN ctrl = Parts, NEW m, NEW state, Send(m, state)
  PROVE  DOMAIN ctrl' = Parts /\ ctrl'.state = state /\ ctrl'.sending
BY Zenon DEF Send, Parts

(* A byte that the controller listens to. *)
LEMMA TakesKeeps ==
  ASSUME LinkInv, ~Deaf, ctrl.state # "SYNC", NEW byte, Takes(byte),
         UNCHANGED <<out, txPos>>
  PROVE  LinkInv'
<1>1. /\ DOMAIN ctrl = Parts /\ ctrl.state \in Hearing /\ owed = 0
      /\ ~work /\ answer = NoMessage /\ (txPos < Len(out) => ctrl.sending)
  BY DEF LinkInv, Deaf
<1>2. ASSUME DOMAIN ctrl' = Parts, ctrl'.state \in Hearing, ctrl'.sending = ctrl.sending,
             UNCHANGED <<answer, work, owed>>
      PROVE  LinkInv'
  BY <1>1, <1>2 DEF LinkInv, Deaf, Hearing, NoMessage, Message
<1>3. CASE ctrl.state \in {"RECV_TYPE", "RECV_LENGTH"}
  <2>1. ctrl' = RecvHeader(byte) /\ UNCHANGED <<answer, work, owed>>
    BY <1>3, Zenon DEF Takes
  <2> QED BY <1>1, <1>2, <2>1, RecvHeaderShape, Zenon
<1>4. CASE ctrl.state = "RECV_PAYLOAD"
  <2>1. ctrl' = RecvPayload(byte) /\ UNCHANGED <<answer, work, owed>>
    BY <1>4, Zenon DEF Takes
  <2> QED BY <1>1, <1>2, <2>1, RecvPayloadShape, Zenon
<1>5. CASE ctrl.state = "RECV_CRC"
  <2> DEFINE c == RecvCrc(byte)
  <2>1. \/ ctrl' = c /\ UNCHANGED <<answer, work, owed>>
        \/ Check(c)
    BY <1>5, Zenon DEF Takes
  <2>2. DOMAIN c = Parts /\ c.state \in Hearing /\ c.sending = ctrl.sending
    BY <1>1, RecvCrcShape
  <2> HIDE DEF c
  <2>3. CASE ctrl' = c /\ UNCHANGED <<answer, work, owed>>
    BY <1>2, <2>2, <2>3, Zenon
  <2>4. CASE Check(c)
    <3>1. /\ DOMAIN ctrl' = Parts /\ ctrl'.state = "WAIT_FOR_REPLY"
          /\ ctrl'.sending = c.sending
      BY <2>2, <2>4, Zenon DEF Check, Parts
    <3>2. /\ owed' = owed + 1
          /\ \/ answer' = Refusal /\ work' = work
             \/ answer' = answer /\ (work' = TRUE \/ work' = work)
      BY <2>4, Zenon DEF Check, HandedOver
    <3> QED BY <1>1, <2>2, <3>1, <3>2 DEF LinkInv, Deaf, NoMessage, Message
  <2> QED BY <2>1, <2>3, <2>4
<1> QED BY <1>1, <1>3, <1>4, <1>5 DEF Hearing

LEMMA OnRecvKeeps ==
  ASSUME LinkInv, NEW byte, OnRecv(byte)
  PROVE  LinkInv' /\ out' = out
<1>1. out' = out /\ txPos' = txPos /\ DOMAIN ctrl = Parts
  BY DEF OnRecv, LinkInv
<1>2. CASE Ignored
  BY <1>1, <1>2 DEF LinkInv, Deaf, Ignored
<1>3. ASSUME ~Deaf, UNCHANGED <<answer, work, owed>>, DOMAIN ctrl' = Parts,
             ctrl'.state \in Hearing, ctrl'.sending = ctrl.sending
      PROVE  LinkInv'
  BY <1>1, <1>3 DEF LinkInv, Deaf, Hearing
<1>4. CASE ~Deaf /\ ctrl' = Restarted /\ UNCHANGED <<answer, work, owed>>
  BY <1>1, <1>3, <1>4, RestartedShape, Zenon
<1>5. CASE ~Deaf /\ ctrl.state # "SYNC" /\ (Takes(byte) \/ Takes(Flip(byte)))
  BY <1>1, <1>5, TakesKeeps
<1>6. CASE ~Deaf /\ Escapes
  <2>1. DOMAIN ctrl' = Parts /\ ctrl'.state = ctrl.state /\ ctrl'.sending = ctrl.sending
    BY <1>1, <1>6, Zenon DEF Escapes, Parts
  <2>2. ctrl.state \in Hearing
    BY <1>6 DEF LinkInv, Deaf
  <2>3. UNCHANGED <<answer, work, owed>>
    BY <1>6, Zenon DEF Escapes
  <2> QED BY <1>1, <1>3, <1>6, <2>1, <2>2, <2>3, Zenon
<1> QED BY <1>1, <1>2, <1>4, <1>5, <1>6, Zenon DEF OnRecv, Heard

LEMMA ReplyKeeps ==
  ASSUME LinkInv, Reply
  PROVE  LinkInv' /\ ~(txPos < Len(out))
<1>1. /\ DOMAIN ctrl = Parts /\ ctrl.state = "WAIT_FOR_REPLY" /\ owed = 1 /\ ~work
      /\ ~(txPos < Len(out)) /\ work' = work /\ owed' = owed
  BY DEF LinkInv, Reply, Deaf
<1>2. CASE Send(answer, "SEND_REPLY") /\ answer' = NoMessage
  <2>1. DOMAIN ctrl' = Parts /\ ctrl'.state = "SEND_REPLY" /\ ctrl'.sending
    BY <1>1, <1>2, SendShape
  <2> QED BY <1>1, <1>2, <2>1 DEF LinkInv, Deaf
<1>3. CASE answer' = Refusal /\ ctrl' = [ctrl EXCEPT !.pos = OutSize] /\ UNCHANGED <<out, txPos>>
  <2>1. DOMAIN ctrl' = Parts /\ ctrl'.state = ctrl.state /\ ctrl'.sending = ctrl.sending
    BY <1>1, <1>3, Zenon DEF Parts
  <2>2. out' = out /\ txPos' = txPos
    BY <1>3, Zenon
  <2> QED BY <1>1, <2>1, <2>2 DEF LinkInv, Deaf
<1> QED BY <1>1, <1>2, <1>3, Zenon DEF Reply

LEMMA BootKeeps ==
  ASSUME LinkInv, Boot
  PROVE  LinkInv' /\ ~(txPos < Len(out))
<1>1. /\ Send(Started, ctrl.state) /\ ~ctrl.sending
      /\ UNCHANGED <<answer, work, owed>>
  BY DEF Boot
<1>2. DOMAIN ctrl' = Parts /\ ctrl'.state = ctrl.state /\ ctrl'.sending
  BY <1>1, SendShape DEF LinkInv
<1> QED BY <1>1, <1>2 DEF LinkInv, Deaf

LEMMA TxReadyKeeps ==
  ASSUME LinkInv, TxReady
  PROVE  LinkInv' /\ out' = out
<1>1. /\ DOMAIN ctrl = Parts /\ txPos < Len(out) /\ ctrl.sending
      /\ out' = out /\ answer' = answer /\ work' = work
  BY DEF LinkInv, TxReady
<1>2. CASE txPos' < Len(out)
  BY <1>1, <1>2 DEF TxReady, LinkInv, Deaf
<1>3. CASE ~(txPos' < Len(out))
  <2>1. /\ ctrl' = [ctrl EXCEPT !.sending = FALSE,
                       !.state = IF @ = "SEND_REPLY" THEN "SYNC" ELSE @]
        /\ owed' = IF ctrl.state = "SEND_REPLY" THEN owed - 1 ELSE owed
    BY <1>3, Zenon DEF TxReady
  <2>2. /\ DOMAIN ctrl' = Parts
        /\ ctrl'.state = IF ctrl.state = "SEND_REPLY" THEN "SYNC" ELSE ctrl.state
    BY <1>1, <2>1, Zenon DEF Parts
  <2>3. owed' = IF ctrl.state = "SEND_REPLY" THEN owed - 1 ELSE owed
    BY <2>1, Zenon
  <2> HIDE <2>1
  <2> QED BY <1>1, <1>3, <2>2, <2>3 DEF LinkInv, Deaf, Hearing
<1> QED BY <1>1, <1>2, <1>3

LEMMA LinkInvInit == UlInit => LinkInv
<1> SUFFICES ASSUME UlInit PROVE LinkInv
  OBVIOUS
<1>1. DOMAIN ctrl = Parts /\ ctrl.state = "SYNC"
  BY Zenon DEF UlInit, Parts
<1> QED BY <1>1 DEF UlInit, LinkInv, Deaf, Hearing

(* What every step does: the debt follows the state, and what is being     *)
(* sent is not overwritten.                                                *)
LEMMA LinkStep ==
  ASSUME LinkInv, [UlNext]_ulVars
  PROVE  LinkInv' /\ (txPos < Len(out) => out' = out)
<1>1. CASE UNCHANGED ulVars
  BY <1>1 DEF ulVars, sendVars, peerVars, LinkInv, Deaf
<1>2. CASE \E m \in Asked : PeerSends(m)
  BY <1>2 DEF PeerSends, sendVars, LinkInv, Deaf
<1>3. CASE Deliver
  BY <1>3, OnRecvKeeps DEF Deliver
<1>4. CASE Lost
  BY <1>4 DEF Lost, sendVars, LinkInv, Deaf
<1>5. CASE \E b \in Damages : Damaged(b)
  BY <1>5, OnRecvKeeps DEF Damaged
<1>6. CASE Run
  BY <1>6 DEF Run, LinkInv, Deaf
<1> QED BY <1>1, <1>2, <1>3, <1>4, <1>5, <1>6, ReplyKeeps, BootKeeps, TxReadyKeeps DEF UlNext

(* Each message that uart_ctrl_transport_on_recv takes gets one reply, and *)
(* ctrl_transport_reply and ctrl_transport_send_event do not write to      *)
(* outbuf before it is sent.                                               *)
THEOREM OneReplyEach == UlSpec => OneReply
<1>1. LinkInv /\ [UlNext]_ulVars => LinkInv'
  BY LinkStep
<1>2. LinkInv /\ LinkInv' /\ [UlNext]_ulVars
        => [/\ owed' = IF Deaf' THEN 1 ELSE 0
            /\ (txPos > 0 /\ txPos < Len(out)) => (out' = out)]_ulVars
  BY LinkStep DEF LinkInv
<1> QED BY <1>1, <1>2, LinkInvInit, PTL DEF UlSpec, OneReply

-----------------------------------------------------------------------------
(* A message that is heard *)

(* The bytes of m that are still to come when k of them were taken, the    *)
(* next one perhaps without its escape.                                    *)
Remaining(m, k) == OnLine(Bytes(m))[Len(m.payload) + 4 - k]

Follows(m, k) ==
  IF ctrl.escape
  THEN /\ Bytes(m)[k + 1] \in {START, ESC}
       /\ line = <<Flip(Bytes(m)[k + 1])>> \o Remaining(m, k + 1)
  ELSE line = Remaining(m, k)

(* What c holds of m when k of its bytes were taken. *)
Has(c, m, k) ==
  /\ k >= 1 => c.type = m.type
  /\ k >= 2 => c.length = Len(m.payload)
  /\ \A i \in 1 .. Len(m.payload) : i + 2 <= k => c.payload[i - 1] = m.payload[i]

StateAt(m, k) ==
  IF k = 0 THEN "RECV_TYPE" ELSE IF k = 1 THEN "RECV_LENGTH"
  ELSE IF k < Len(m.payload) + 2 THEN "RECV_PAYLOAD" ELSE "RECV_CRC"

Covers(m, k) == IF k < Len(m.payload) + 2 THEN k ELSE Len(m.payload) + 2

Taken(c, m, k) ==
  /\ c.state = StateAt(m, k)
  /\ k >= 2 => c.pos = k - (IF k < Len(m.payload) + 2 THEN 2 ELSE Len(m.payload) + 2)
  /\ c.crc = CrcOf(Covered(m))[Covers(m, k)]
  /\ Has(c, m, k)
  /\ k = Len(m.payload) + 3 => c.got[1] = Bytes(m)[k]

Arrived(m) == IF work THEN Has(ctrl, m, Len(m.payload) + 4) ELSE ran = m \/ dropped

Arriving(m) ==
  /\ ~Deaf
  /\ \/ line = Encode(m)
     \/ \E k \in 0 .. Len(m.payload) + 3 : Taken(ctrl, m, k) /\ Follows(m, k)

InOrder(m) == IF line = << >> THEN Arrived(m) ELSE Arriving(m)

Shaped == DOMAIN ctrl.payload = 0 .. PayloadSize - 1 /\ DOMAIN ctrl.got = 1 .. 2

(* A message that nothing disturbs is taken byte by byte.                  *)
HeardInv ==
  /\ Shaped /\ sends \in Seq(Asked)
  /\ clean => sends # << >> /\ InOrder(Last(sends))

(* The least number of a set is in the set. *)
LEMMA LeastNumber ==
  ASSUME NEW S \in SUBSET Nat, S # {}
  PROVE  \E p \in S : \A j \in S : p <= j
<1>1. \A r, p \in Nat : r < p => <<r, p>> \in OpToRel(<, Nat)
  BY Zenon DEF OpToRel
<1>2. PICK p \in S : \A r \in S : ~(<<r, p>> \in OpToRel(<, Nat))
  BY WFMin, NatLessThanWellFounded, Zenon
<1>3. \A r \in S : ~(r < p)
  BY <1>1, <1>2, Zenon
<1> QED BY <1>3

(* A function whose values follow one from the other exists.               *)
LEMMA FunctionExists ==
  ASSUME NEW S, NEW base \in S, NEW N \in Nat, NEW g \in [1 .. N -> [S -> S]]
  PROVE  \E f \in [0 .. N -> S] :
           f[0] = base /\ \A k \in 1 .. N : f[k] = g[k][f[k - 1]]
<1> DEFINE Upto(n, f) == f[0] = base /\ \A k \in 1 .. n : f[k] = g[k][f[k - 1]]
           Reached(n) == \E f \in [0 .. N -> S] : Upto(n, f)
           bad == {n \in 0 .. N : ~Reached(n)}
<1>1. Reached(0)
  <2>1. [k \in 0 .. N |-> base] \in [0 .. N -> S] /\ Upto(0, [k \in 0 .. N |-> base])
    OBVIOUS
  <2> QED BY <2>1, Zenon
<1>2. ASSUME NEW n \in 0 .. N, n + 1 \in 0 .. N, Reached(n)
      PROVE  Reached(n + 1)
  <2>1. PICK f \in [0 .. N -> S] : Upto(n, f)
    BY <1>2
  <2> DEFINE v == g[n + 1][f[n]]
             h == [k \in 0 .. N |-> IF k = n + 1 THEN v ELSE f[k]]
  <2>2. v \in S
    <3>1. f[n] \in S /\ n + 1 \in 1 .. N
      BY <1>2
    <3> QED BY <3>1
  <2>3. h \in [0 .. N -> S] /\ h[n + 1] = v /\ \A k \in 0 .. n : h[k] = f[k]
    BY <1>2, <2>2
  <2> HIDE DEF h
  <2>4. ASSUME NEW k \in 1 .. n + 1
        PROVE  h[k] = g[k][h[k - 1]]
    <3>1. k - 1 \in 0 .. n /\ (k = n + 1 \/ k \in 1 .. n)
      OBVIOUS
    <3>2. CASE k = n + 1
      <4>1. h[k - 1] = f[n]
        BY <2>3, <3>1, <3>2
      <4> QED BY <2>3, <3>2, <4>1
    <3>3. CASE k \in 1 .. n
      <4>1. h[k - 1] = f[k - 1] /\ h[k] = f[k]
        BY <2>3, <3>1, <3>3
      <4> QED BY <2>1, <3>3, <4>1
    <3> QED BY <3>1, <3>2, <3>3
  <2>5. h[0] = base
    BY <2>1, <2>3
  <2> QED BY <2>3, <2>4, <2>5, Zenon
<1> HIDE DEF Reached
<1>3. bad = {}
  <2> SUFFICES ASSUME bad # {} PROVE FALSE
    OBVIOUS
  <2>1. PICK p \in bad : \A j \in bad : p <= j
    <3>1. bad \in SUBSET Nat
      OBVIOUS
    <3> QED BY <3>1, LeastNumber, Zenon
  <2>2. p \in 0 .. N /\ p # 0
    BY <1>1
  <2>3. p - 1 \in 0 .. N /\ p - 1 \notin bad /\ p - 1 + 1 = p
    BY <2>1, <2>2
  <2> QED BY <2>2, <2>3, <1>2
<1>4. Reached(N)
  BY <1>3
<1> QED BY <1>4 DEF Reached

(* The two bytes of a checksum make the checksum.                          *)
LEMMA Bytewise ==
  ASSUME NEW c \in Crc
  PROVE  /\ c % Half \in Byte /\ c \div Half \in Byte
         /\ (c % Half) + (c \div Half) * Half = c
<1> DEFINE H == Half
           q == c \div H
<1>1. H \in Nat /\ H > 0 /\ c \in Nat /\ c < H * H
  <2>1. Half \in Nat \ {0}
    BY UartLinkAssumption
  <2>2. Half * Half \in Nat
    BY <2>1
  <2> QED BY <2>1, <2>2 DEF Crc
<1> HIDE DEF H
<1>2. q \in Nat /\ c % H \in 0 .. H - 1 /\ c = q * H + (c % H)
  BY <1>1
<1> HIDE DEF q
<1>3. q < H
  <2> SUFFICES ASSUME q >= H PROVE FALSE
    BY <1>1, <1>2
  <2>1. PICK d \in Nat : q = H + d
    <3>1. q - H \in Nat /\ q = H + (q - H)
      BY <1>1, <1>2
    <3> QED BY <3>1
  <2>2. q * H = H * H + d * H /\ d * H \in Nat
    BY <1>1, <2>1
  <2> QED BY <1>1, <1>2, <2>2
<1>4. c % H \in 0 .. H - 1 /\ q \in 0 .. H - 1 /\ (c % H) + q * H = c
  <2>1. q * H \in Nat
    BY <1>1, <1>2
  <2> QED BY <1>1, <1>2, <1>3, <2>1
<1> QED BY <1>4 DEF H, q, Byte

LEMMA MessageFacts ==
  ASSUME NEW m \in Asked
  PROVE  /\ m.type \in Byte /\ m.payload \in Seq(Byte)
         /\ Len(m.payload) \in Nat /\ Len(m.payload) \in Byte /\ Len(m.payload) <= PayloadSize
BY UartLinkAssumption DEF Byte

LEMMA CoveredFacts ==
  ASSUME NEW m \in Asked
  PROVE  /\ Covered(m) \in Seq(Byte) /\ Len(Covered(m)) = Len(m.payload) + 2
         /\ Covered(m)[1] = m.type /\ Covered(m)[2] = Len(m.payload)
         /\ \A i \in 1 .. Len(m.payload) : Covered(m)[i + 2] = m.payload[i]
BY MessageFacts DEF Covered

LEMMA CrcExists ==
  ASSUME NEW N \in Nat, NEW bytes \in [1 .. N -> Byte]
  PROVE  \E f \in [0 .. N -> Crc] :
           f[0] = 0 /\ \A k \in 1 .. N : f[k] = CrcUpdate(f[k - 1], bytes[k])
<1>1. 0 \in Crc
  BY UartLinkAssumption DEF Crc
<1>2. \A c \in Crc, k \in 1 .. N : CrcUpdate(c, bytes[k]) \in Crc
  BY UartLinkAssumption
<1>3. PICK g : g = [k \in 1 .. N |-> [c \in Crc |-> CrcUpdate(c, bytes[k])]]
  OBVIOUS
<1>4. g \in [1 .. N -> [Crc -> Crc]]
  BY <1>2, <1>3
<1>5. PICK f \in [0 .. N -> Crc] : f[0] = 0 /\ \A k \in 1 .. N : f[k] = g[k][f[k - 1]]
  BY <1>1, <1>4, FunctionExists
<1>6. ASSUME NEW k \in 1 .. N
      PROVE  f[k] = CrcUpdate(f[k - 1], bytes[k])
  <2>1. f[k - 1] \in Crc
    BY <1>5
  <2> QED BY <1>3, <1>5, <2>1
<1> QED BY <1>5, <1>6

LEMMA CrcFacts ==
  ASSUME NEW bytes \in Seq(Byte)
  PROVE  /\ CrcOf(bytes)[0] = 0
         /\ \A k \in 0 .. Len(bytes) : CrcOf(bytes)[k] \in Crc
         /\ \A k \in 1 .. Len(bytes) : CrcOf(bytes)[k] = CrcUpdate(CrcOf(bytes)[k - 1], bytes[k])
<1> DEFINE N == Len(bytes)
           F(f) == [k \in 0 .. N |-> IF k = 0 THEN 0 ELSE CrcUpdate(f[k - 1], bytes[k])]
           crc == CHOOSE f : f = F(f)
<1>1. CrcOf(bytes) = crc
  BY DEF CrcOf
<1>2. N \in Nat /\ bytes \in [1 .. N -> Byte]
  OBVIOUS
<1>3. PICK f \in [0 .. N -> Crc] :
        f[0] = 0 /\ \A k \in 1 .. N : f[k] = CrcUpdate(f[k - 1], bytes[k])
  BY <1>2, CrcExists
<1>4. f = F(f)
  BY <1>2, <1>3
<1>5. crc = F(crc)
  BY <1>4, Zenon
<1> HIDE DEF crc
<1>6. crc[0] = 0 /\ \A k \in 1 .. N : crc[k] = CrcUpdate(crc[k - 1], bytes[k])
  BY <1>2, <1>5
<1>7. \A c \in Crc, k \in 1 .. N : CrcUpdate(c, bytes[k]) \in Crc
  BY UartLinkAssumption
<1>8. \A k \in 0 .. N : crc[k] \in Crc
  <2> DEFINE bad == {k \in 0 .. N : crc[k] \notin Crc}
  <2> SUFFICES ASSUME bad # {} PROVE FALSE
    OBVIOUS
  <2>1. PICK p \in bad : \A j \in bad : p <= j
    <3>1. bad \in SUBSET Nat
      OBVIOUS
    <3> QED BY <3>1, LeastNumber, Zenon
  <2>2. 0 \in Crc
    BY UartLinkAssumption DEF Crc
  <2>3. p \in 1 .. N
    BY <1>2, <1>6, <2>2
  <2>4. p - 1 \in 0 .. N /\ p - 1 \notin bad
    BY <2>1, <2>3
  <2> QED BY <1>6, <1>7, <2>3, <2>4
<1> QED BY <1>1, <1>6, <1>8

LineBytes == Byte \cup {START, ESC, Flip(START), Flip(ESC)}

LEMMA EscapedType ==
  ASSUME NEW b \in Byte
  PROVE  Escaped(b) \in Seq(LineBytes)
<1>1. CASE b \in {START, ESC}
  <2>1. Escaped(b) = <<ESC, Flip(b)>> /\ ESC \in LineBytes /\ Flip(b) \in LineBytes
    BY <1>1 DEF Escaped, LineBytes
  <2> QED BY <2>1
<1>2. CASE b \notin {START, ESC}
  BY <1>2 DEF Escaped, LineBytes
<1> QED BY <1>1, <1>2

LEMMA OnLineExists ==
  ASSUME NEW N \in Nat, NEW bytes \in [1 .. N -> Byte]
  PROVE  \E f \in [0 .. N -> Seq(LineBytes)] :
           f[0] = << >> /\ \A k \in 1 .. N : f[k] = Escaped(bytes[N - k + 1]) \o f[k - 1]
<1>0. PICK S : S = Seq(LineBytes)
  OBVIOUS
<1>1. PICK base \in S : base = << >>
  <2>1. << >> \in Seq(LineBytes)
    OBVIOUS
  <2> QED BY <1>0, <2>1, Zenon
<1>2. ASSUME NEW c \in S, NEW k \in 1 .. N
      PROVE  Escaped(bytes[N - k + 1]) \o c \in S
  <2>1. N - k + 1 \in 1 .. N
    OBVIOUS
  <2>2. Escaped(bytes[N - k + 1]) \in S
    BY <1>0, <2>1, EscapedType
  <2> QED BY <1>0, <2>2
<1>3. PICK g : g = [k \in 1 .. N |-> [c \in S |-> Escaped(bytes[N - k + 1]) \o c]]
  OBVIOUS
<1>4. g \in [1 .. N -> [S -> S]]
  BY <1>2, <1>3
<1>5. PICK f \in [0 .. N -> S] : f[0] = base /\ \A k \in 1 .. N : f[k] = g[k][f[k - 1]]
  BY <1>4, FunctionExists
<1>6. ASSUME NEW k \in 1 .. N
      PROVE  f[k] = Escaped(bytes[N - k + 1]) \o f[k - 1]
  <2>1. f[k - 1] \in S
    BY <1>5
  <2> QED BY <1>3, <1>5, <2>1
<1> QED BY <1>0, <1>1, <1>5, <1>6

LEMMA OnLineFacts ==
  ASSUME NEW bytes \in Seq(Byte)
  PROVE  /\ OnLine(bytes)[0] = << >>
         /\ \A k \in 0 .. Len(bytes) : OnLine(bytes)[k] \in Seq(LineBytes)
         /\ \A k \in 1 .. Len(bytes) :
              OnLine(bytes)[k] = Escaped(bytes[Len(bytes) - k + 1]) \o OnLine(bytes)[k - 1]
<1> DEFINE N == Len(bytes)
           F(f) == [k \in 0 .. N |-> IF k = 0 THEN << >>
                                     ELSE Escaped(bytes[N - k + 1]) \o f[k - 1]]
           end == CHOOSE f : f = F(f)
<1>1. OnLine(bytes) = end
  BY DEF OnLine
<1>2. N \in Nat /\ bytes \in [1 .. N -> Byte]
  OBVIOUS
<1>3. PICK f \in [0 .. N -> Seq(LineBytes)] :
        f[0] = << >> /\ \A k \in 1 .. N : f[k] = Escaped(bytes[N - k + 1]) \o f[k - 1]
  BY <1>2, OnLineExists
<1>4. f = F(f)
  BY <1>2, <1>3
<1>5. end = F(end)
  BY <1>4, Zenon
<1> HIDE DEF end
<1>6. end[0] = << >> /\ \A k \in 1 .. N : end[k] = Escaped(bytes[N - k + 1]) \o end[k - 1]
  <2>1. \A k \in 0 .. N : end[k] = IF k = 0 THEN << >>
                                   ELSE Escaped(bytes[N - k + 1]) \o end[k - 1]
    BY <1>5, Zenon
  <2>2. 0 \in 0 .. N /\ \A k \in 1 .. N : k \in 0 .. N /\ k # 0
    BY <1>2
  <2> QED BY <2>1, <2>2, Zenon
<1>7. \A k \in 0 .. N : end[k] \in Seq(LineBytes)
  <2> DEFINE bad == {k \in 0 .. N : end[k] \notin Seq(LineBytes)}
  <2> SUFFICES ASSUME bad # {} PROVE FALSE
    OBVIOUS
  <2>1. PICK p \in bad : \A j \in bad : p <= j
    <3>1. bad \in SUBSET Nat
      OBVIOUS
    <3> QED BY <3>1, LeastNumber, Zenon
  <2>2. end[0] \in Seq(LineBytes)
    BY <1>6
  <2>3. p \in 1 .. N
    BY <1>2, <2>2
  <2>4. p - 1 \in 0 .. N /\ p - 1 \notin bad /\ N - p + 1 \in 1 .. N
    BY <1>2, <2>1, <2>3
  <2>5. Escaped(bytes[N - p + 1]) \in Seq(LineBytes) /\ end[p - 1] \in Seq(LineBytes)
    BY <1>2, <2>4, EscapedType
  <2>6. end[p] = Escaped(bytes[N - p + 1]) \o end[p - 1]
    BY <1>6, <2>3, Zenon
  <2>7. end[p] \in Seq(LineBytes)
    BY <2>5, <2>6
  <2> QED BY <2>1, <2>7
<1> QED BY <1>1, <1>6, <1>7

(* The bytes of a message. *)
LEMMA BytesFacts ==
  ASSUME NEW m \in Asked
  PROVE  /\ Bytes(m) \in Seq(Byte) /\ Len(Bytes(m)) = Len(m.payload) + 4
         /\ \A k \in 1 .. Len(m.payload) + 2 : Bytes(m)[k] = Covered(m)[k]
         /\ CrcOf(Covered(m))[Len(m.payload) + 2] =
              Bytes(m)[Len(m.payload) + 3] + Bytes(m)[Len(m.payload) + 4] * Half
<1> DEFINE crc == CrcOf(Covered(m))[Len(m.payload) + 2]
<1>1. /\ Len(m.payload) \in Nat /\ Covered(m) \in Seq(Byte)
      /\ Len(Covered(m)) = Len(m.payload) + 2
  BY MessageFacts, CoveredFacts
<1>2. crc \in Crc
  BY <1>1, CrcFacts
<1>3. Bytes(m) = Covered(m) \o <<crc % Half, crc \div Half>>
  BY <1>1, Zenon DEF Bytes
<1> HIDE DEF crc
<1>4. /\ crc % Half \in Byte /\ crc \div Half \in Byte
      /\ (crc % Half) + (crc \div Half) * Half = crc
  BY <1>2, Bytewise
<1> DEFINE lo == crc % Half
           hi == crc \div Half
<1> HIDE DEF lo, hi
<1>5. /\ Bytes(m) \in Seq(Byte) /\ Len(Bytes(m)) = Len(m.payload) + 4
      /\ \A k \in 1 .. Len(m.payload) + 2 : Bytes(m)[k] = Covered(m)[k]
      /\ Bytes(m)[Len(m.payload) + 3] = lo /\ Bytes(m)[Len(m.payload) + 4] = hi
  <2>1. Bytes(m) = Covered(m) \o <<lo, hi>> /\ lo \in Byte /\ hi \in Byte
    BY <1>3, <1>4 DEF lo, hi
  <2> QED BY <1>1, <2>1
<1>6. lo + hi * Half = crc
  BY <1>4 DEF lo, hi
<1> QED BY <1>5, <1>6 DEF crc

(* The line before the byte k + 1 of a message. *)
LEMMA RemainingFacts ==
  ASSUME NEW m \in Asked, NEW k \in 0 .. Len(m.payload) + 3
  PROVE  /\ Bytes(m)[k + 1] \in Byte
         /\ Remaining(m, k + 1) \in Seq(LineBytes)
         /\ Remaining(m, k) = Escaped(Bytes(m)[k + 1]) \o Remaining(m, k + 1)
<1> DEFINE N == Len(m.payload) + 4
           bytes == Bytes(m)
<1>1. N \in Nat /\ bytes \in Seq(Byte) /\ Len(bytes) = N /\ k \in 0 .. N - 1
  BY MessageFacts, BytesFacts
<1> HIDE DEF bytes
<1>2. N - k \in 1 .. N /\ N - (N - k) + 1 = k + 1 /\ N - k - 1 = N - (k + 1)
      /\ k + 1 \in 1 .. N /\ N - (k + 1) \in 0 .. N
  BY <1>1
<1>3. OnLine(bytes)[N - k] = Escaped(bytes[k + 1]) \o OnLine(bytes)[N - (k + 1)]
      /\ OnLine(bytes)[N - (k + 1)] \in Seq(LineBytes)
  BY <1>1, <1>2, OnLineFacts
<1>4. bytes[k + 1] \in Byte
  BY <1>1, <1>2
<1>5. /\ Remaining(m, k) = OnLine(bytes)[N - k]
      /\ Remaining(m, k + 1) = OnLine(bytes)[N - (k + 1)]
  BY DEF bytes, Remaining
<1> HIDE DEF N
<1>6. /\ Remaining(m, k) = Escaped(bytes[k + 1]) \o Remaining(m, k + 1)
      /\ Remaining(m, k + 1) \in Seq(LineBytes)
  BY <1>3, <1>5, Zenon
<1> QED BY <1>4, <1>6, Zenon DEF bytes

(* What the operators on ctrl do to the message. *)
LEMMA RestartedSets ==
  ASSUME DOMAIN ctrl = Parts
  PROVE  /\ Restarted.state = "RECV_TYPE" /\ Restarted.escape = FALSE /\ Restarted.crc = 0
         /\ Restarted.payload = ctrl.payload /\ Restarted.got = ctrl.got
BY Zenon DEF Restarted, Parts

LEMMA TypeSets ==
  ASSUME DOMAIN ctrl = Parts, ctrl.state = "RECV_TYPE", NEW byte
  PROVE  /\ RecvHeader(byte).state = "RECV_LENGTH" /\ RecvHeader(byte).type = byte
         /\ RecvHeader(byte).escape = FALSE
         /\ RecvHeader(byte).crc = CrcUpdate(ctrl.crc, byte)
BY Zenon DEF RecvHeader, Parts

LEMMA LengthSets ==
  ASSUME DOMAIN ctrl = Parts, ctrl.state = "RECV_LENGTH", NEW byte
  PROVE  /\ RecvHeader(byte).state = IF byte > 0 THEN "RECV_PAYLOAD" ELSE "RECV_CRC"
         /\ RecvHeader(byte).length = byte /\ RecvHeader(byte).pos = 0
         /\ RecvHeader(byte).escape = FALSE /\ RecvHeader(byte).type = ctrl.type
         /\ RecvHeader(byte).crc = CrcUpdate(ctrl.crc, byte)
BY Zenon DEF RecvHeader, Parts

LEMMA HeaderKeeps ==
  ASSUME DOMAIN ctrl = Parts, NEW byte
  PROVE  /\ RecvHeader(byte).payload = ctrl.payload /\ RecvHeader(byte).got = ctrl.got
         /\ RecvHeader(byte).escape = FALSE
BY Zenon DEF RecvHeader, Parts

LEMMA PayloadSets ==
  ASSUME DOMAIN ctrl = Parts, NEW byte
  PROVE  /\ RecvPayload(byte).type = ctrl.type /\ RecvPayload(byte).length = ctrl.length
         /\ RecvPayload(byte).escape = FALSE /\ RecvPayload(byte).got = ctrl.got
         /\ RecvPayload(byte).crc = CrcUpdate(ctrl.crc, byte)
         /\ RecvPayload(byte).payload = IF ctrl.pos < PayloadSize
                                        THEN [ctrl.payload EXCEPT ![ctrl.pos] = byte]
                                        ELSE ctrl.payload
BY Zenon DEF RecvPayload, Parts

LEMMA PayloadGoesOn ==
  ASSUME DOMAIN ctrl = Parts, NEW byte, ctrl.pos < PayloadSize
  PROVE  IF ctrl.pos + 1 >= ctrl.length
         THEN RecvPayload(byte).state = "RECV_CRC" /\ RecvPayload(byte).pos = 0
         ELSE RecvPayload(byte).state = ctrl.state /\ RecvPayload(byte).pos = ctrl.pos + 1
BY Zenon DEF RecvPayload, Parts

LEMMA CrcSets ==
  ASSUME DOMAIN ctrl = Parts, NEW byte
  PROVE  /\ RecvCrc(byte).type = ctrl.type /\ RecvCrc(byte).length = ctrl.length
         /\ RecvCrc(byte).escape = FALSE
         /\ RecvCrc(byte).crc = ctrl.crc /\ RecvCrc(byte).state = ctrl.state
         /\ RecvCrc(byte).pos = ctrl.pos + 1
         /\ RecvCrc(byte).got = IF ctrl.pos < 2 THEN [ctrl.got EXCEPT ![ctrl.pos + 1] = byte]
                                ELSE ctrl.got
         /\ RecvCrc(byte).payload = IF ctrl.pos - 4 \in DOMAIN ctrl.payload
                                    THEN [ctrl.payload EXCEPT ![ctrl.pos - 4] = byte]
                                    ELSE ctrl.payload
BY Zenon DEF RecvCrc, Parts

(* The checksum goes on with a byte that it covers.                        *)
LEMMA CrcGoesOn ==
  ASSUME NEW m \in Asked, NEW k \in 0 .. Len(m.payload) + 1
  PROVE  CrcUpdate(CrcOf(Covered(m))[Covers(m, k)], Bytes(m)[k + 1])
           = CrcOf(Covered(m))[Covers(m, k + 1)]
<1>1. Len(m.payload) \in Nat
  BY MessageFacts
<1>2. /\ Covers(m, k) = k /\ Covers(m, k + 1) = k + 1 /\ k + 1 - 1 = k
      /\ k + 1 \in 1 .. Len(m.payload) + 2
  BY <1>1 DEF Covers
<1>3. CrcOf(Covered(m))[k + 1] = CrcUpdate(CrcOf(Covered(m))[k], Covered(m)[k + 1])
  BY <1>2, CoveredFacts, CrcFacts
<1> QED BY <1>2, <1>3, BytesFacts

(* The next byte of a message is taken. *)
LEMMA HeaderTaken ==
  ASSUME DOMAIN ctrl = Parts, NEW m \in Asked, NEW k \in {0, 1}, Taken(ctrl, m, k)
  PROVE  Taken(RecvHeader(Bytes(m)[k + 1]), m, k + 1)
<1> DEFINE n == Len(m.payload)
           c == RecvHeader(Bytes(m)[k + 1])
<1>1. n \in Nat
  BY MessageFacts
<1>2. k \in 0 .. n + 1
  BY <1>1
<1>3. ctrl.crc = CrcOf(Covered(m))[Covers(m, k)] /\ ctrl.state = StateAt(m, k)
      /\ Has(ctrl, m, k)
  BY DEF Taken
<1>4. CASE k = 0
  <2>1. ctrl.state = "RECV_TYPE" /\ Bytes(m)[k + 1] = m.type
    BY <1>1, <1>3, <1>4, BytesFacts, CoveredFacts DEF StateAt
  <2>2. /\ c.state = "RECV_LENGTH" /\ c.type = m.type
        /\ c.crc = CrcUpdate(ctrl.crc, Bytes(m)[k + 1])
    BY <2>1, TypeSets
  <2> HIDE DEF c
  <2>3. c.crc = CrcOf(Covered(m))[Covers(m, k + 1)]
    BY <1>2, <1>3, <2>2, CrcGoesOn
  <2>4. Taken(c, m, k + 1)
    BY <1>1, <1>4, <2>2, <2>3 DEF Taken, StateAt, Has
  <2> QED BY <2>4 DEF c
<1>5. CASE k = 1
  <2>1. ctrl.state = "RECV_LENGTH" /\ Bytes(m)[k + 1] = n /\ ctrl.type = m.type
    BY <1>1, <1>3, <1>5, BytesFacts, CoveredFacts DEF StateAt, Has
  <2>2. /\ c.state = IF n > 0 THEN "RECV_PAYLOAD" ELSE "RECV_CRC"
        /\ c.type = m.type /\ c.length = n /\ c.pos = 0
        /\ c.crc = CrcUpdate(ctrl.crc, Bytes(m)[k + 1])
    BY <2>1, LengthSets
  <2> HIDE DEF c
  <2>3. c.crc = CrcOf(Covered(m))[Covers(m, k + 1)]
    BY <1>2, <1>3, <2>2, CrcGoesOn
  <2>4. Taken(c, m, k + 1)
    BY <1>1, <1>5, <2>2, <2>3 DEF Taken, StateAt, Has
  <2> QED BY <2>4 DEF c
<1> QED BY <1>4, <1>5

LEMMA PayloadTaken ==
  ASSUME DOMAIN ctrl = Parts, DOMAIN ctrl.payload = 0 .. PayloadSize - 1,
         NEW m \in Asked, NEW k \in 2 .. Len(m.payload) + 1, Taken(ctrl, m, k)
  PROVE  Taken(RecvPayload(Bytes(m)[k + 1]), m, k + 1)
<1> DEFINE n == Len(m.payload)
           byte == Bytes(m)[k + 1]
           c == RecvPayload(byte)
<1>1. n \in Nat /\ n <= PayloadSize /\ PayloadSize \in Nat
  BY MessageFacts, UartLinkAssumption
<1>2. /\ ctrl.crc = CrcOf(Covered(m))[Covers(m, k)] /\ ctrl.state = "RECV_PAYLOAD"
      /\ ctrl.pos = k - 2 /\ ctrl.type = m.type /\ ctrl.length = n
      /\ \A i \in 1 .. n : i + 2 <= k => ctrl.payload[i - 1] = m.payload[i]
  BY <1>1 DEF Taken, StateAt, Has
<1>3. byte = m.payload[k - 1]
  <2>1. k + 1 \in 1 .. n + 2 /\ k - 1 \in 1 .. n /\ (k - 1) + 2 = k + 1
    BY <1>1
  <2>2. byte = Covered(m)[k + 1]
    BY <2>1, BytesFacts
  <2> QED BY <2>1, <2>2, CoveredFacts
<1>4. /\ c.type = m.type /\ c.length = n /\ c.crc = CrcUpdate(ctrl.crc, byte)
      /\ c.payload = [ctrl.payload EXCEPT ![k - 2] = byte]
      /\ IF k - 2 + 1 >= n THEN c.state = "RECV_CRC" /\ c.pos = 0
                          ELSE c.state = "RECV_PAYLOAD" /\ c.pos = k - 2 + 1
  <2>1. ctrl.pos < PayloadSize
    BY <1>1, <1>2
  <2>2. /\ c.type = ctrl.type /\ c.length = ctrl.length /\ c.crc = CrcUpdate(ctrl.crc, byte)
        /\ c.payload = [ctrl.payload EXCEPT ![ctrl.pos] = byte]
    BY <2>1, PayloadSets, Zenon
  <2>3. IF ctrl.pos + 1 >= ctrl.length
        THEN c.state = "RECV_CRC" /\ c.pos = 0
        ELSE c.state = ctrl.state /\ c.pos = ctrl.pos + 1
    BY <2>1, PayloadGoesOn, Zenon
  <2> HIDE DEF c, byte
  <2> QED BY <1>2, <2>2, <2>3
<1> HIDE DEF c
<1>5. c.crc = CrcOf(Covered(m))[Covers(m, k + 1)]
  <2>1. k \in 0 .. n + 1
    BY <1>1
  <2> QED BY <1>2, <1>4, <2>1, CrcGoesOn
<1> HIDE DEF byte
<1>6. ASSUME NEW i \in 1 .. n, i + 2 <= k + 1
      PROVE  c.payload[i - 1] = m.payload[i]
  <2>1. i - 1 \in 0 .. PayloadSize - 1 /\ (i = k - 1 \/ i + 2 <= k)
    BY <1>1, <1>6
  <2>2. CASE i = k - 1
    BY <1>1, <1>3, <1>4, <2>1, <2>2
  <2>3. CASE i + 2 <= k
    <3>1. ctrl.payload[i - 1] = m.payload[i] /\ i - 1 # k - 2
      BY <1>2, <2>3
    <3>2. i - 1 \in DOMAIN ctrl.payload
      BY <2>1
    <3>3. c.payload[i - 1] = ctrl.payload[i - 1]
      BY <1>4, <3>1, <3>2, Zenon
    <3> QED BY <3>1, <3>3
  <2> QED BY <2>1, <2>2, <2>3
<1>7. Has(c, m, k + 1)
  BY <1>4, <1>6 DEF Has
<1>8. ASSUME k + 1 < n + 2
      PROVE  Taken(c, m, k + 1)
  <2>1. c.state = "RECV_PAYLOAD" /\ c.pos = k + 1 - 2
    BY <1>1, <1>4, <1>8
  <2>2. StateAt(m, k + 1) = "RECV_PAYLOAD" /\ k + 1 # n + 3
    BY <1>1, <1>8 DEF StateAt
  <2> QED BY <1>5, <1>7, <1>8, <2>1, <2>2 DEF Taken
<1>9. ASSUME k + 1 = n + 2
      PROVE  Taken(c, m, k + 1)
  <2>1. c.state = "RECV_CRC" /\ c.pos = 0
    BY <1>1, <1>4, <1>9
  <2>2. StateAt(m, k + 1) = "RECV_CRC" /\ k + 1 # n + 3 /\ k + 1 - (n + 2) = 0
    BY <1>1, <1>9 DEF StateAt
  <2> QED BY <1>5, <1>7, <1>9, <2>1, <2>2 DEF Taken
<1>10. Taken(c, m, k + 1)
  <2>1. k + 1 < n + 2 \/ k + 1 = n + 2
    BY <1>1
  <2> QED BY <1>8, <1>9, <2>1
<1> QED BY <1>10 DEF c, byte

LEMMA CrcTaken ==
  ASSUME DOMAIN ctrl = Parts, DOMAIN ctrl.got = 1 .. 2,
         DOMAIN ctrl.payload = 0 .. PayloadSize - 1,
         NEW m \in Asked, NEW k \in Len(m.payload) + 2 .. Len(m.payload) + 3,
         Taken(ctrl, m, k)
  PROVE  LET n == Len(m.payload)
             c == RecvCrc(Bytes(m)[k + 1])
         IN /\ ctrl.pos = k - (n + 2)
            /\ Has(c, m, k + 1) /\ c.length = n
            /\ k = n + 2 => Taken(c, m, k + 1)
            /\ k = n + 3 => c.crc = CrcReceived(c)
<1> DEFINE n == Len(m.payload)
           byte == Bytes(m)[k + 1]
           c == RecvCrc(byte)
<1>1. n \in Nat
  BY MessageFacts
<1>2. /\ ctrl.crc = CrcOf(Covered(m))[n + 2] /\ ctrl.state = "RECV_CRC"
      /\ ctrl.pos = k - (n + 2) /\ ctrl.type = m.type /\ ctrl.length = n
      /\ \A i \in 1 .. n : ctrl.payload[i - 1] = m.payload[i]
      /\ k = n + 3 => ctrl.got[1] = Bytes(m)[k]
  BY <1>1 DEF Taken, StateAt, Has, Covers
<1>3. /\ c.type = m.type /\ c.length = n /\ c.crc = ctrl.crc /\ c.state = "RECV_CRC"
      /\ c.pos = ctrl.pos + 1 /\ c.payload = ctrl.payload
      /\ c.got = IF ctrl.pos < 2 THEN [ctrl.got EXCEPT ![ctrl.pos + 1] = byte] ELSE ctrl.got
  <2>1. ctrl.pos \in {0, 1}
    BY <1>1, <1>2
  <2>2. ctrl.pos - 4 \notin DOMAIN ctrl.payload
    BY <2>1, UartLinkAssumption
  <2> QED BY <1>2, <2>2, CrcSets, Zenon
<1> HIDE DEF c
<1>4. Has(c, m, k + 1)
  BY <1>1, <1>2, <1>3 DEF Has
<1>5. ASSUME k = n + 2
      PROVE  Taken(c, m, k + 1)
  <2>1. c.got[1] = byte
    BY <1>1, <1>2, <1>3, <1>5
  <2> QED BY <1>1, <1>2, <1>3, <1>4, <1>5, <2>1 DEF Taken, StateAt, Covers
<1>6. ASSUME k = n + 3
      PROVE  c.crc = CrcReceived(c)
  <2>1. c.got[1] = Bytes(m)[n + 3] /\ c.got[2] = Bytes(m)[n + 4]
    BY <1>1, <1>2, <1>3, <1>6
  <2> QED BY <1>2, <1>3, <2>1, BytesFacts DEF CrcReceived
<1> QED BY <1>2, <1>3, <1>4, <1>5, <1>6 DEF c

LEMMA CheckSets ==
  ASSUME NEW c, DOMAIN c = Parts, Check(c)
  PROVE  /\ ctrl'.payload = c.payload /\ ctrl'.got = c.got
         /\ ctrl'.type = c.type /\ ctrl'.length = c.length
BY Zenon DEF Check, Parts

LEMMA TakesNext ==
  ASSUME DOMAIN ctrl = Parts, Shaped, NEW m \in Asked,
         NEW k \in 0 .. Len(m.payload) + 3, Taken(ctrl, m, k), Takes(Bytes(m)[k + 1])
  PROVE  IF k < Len(m.payload) + 3
         THEN Taken(ctrl', m, k + 1) /\ ctrl'.escape = FALSE
         ELSE (work' \/ dropped') /\ Has(ctrl', m, Len(m.payload) + 4)
<1> DEFINE n == Len(m.payload)
           byte == Bytes(m)[k + 1]
<1>1. n \in Nat /\ n <= PayloadSize /\ PayloadSize \in Nat
  BY MessageFacts, UartLinkAssumption
<1>2. ctrl.state = StateAt(m, k) /\ DOMAIN ctrl.payload = 0 .. PayloadSize - 1
      /\ DOMAIN ctrl.got = 1 .. 2
  BY DEF Taken, Shaped
<1>3. CASE k \in {0, 1}
  <2>1. ctrl.state \in {"RECV_TYPE", "RECV_LENGTH"} /\ k < n + 3
    BY <1>1, <1>2, <1>3 DEF StateAt
  <2>2. ctrl' = RecvHeader(byte)
    BY <2>1, Zenon DEF Takes
  <2>3. Taken(RecvHeader(byte), m, k + 1) /\ RecvHeader(byte).escape = FALSE
    BY <1>3, HeaderTaken, HeaderKeeps
  <2> QED BY <2>1, <2>2, <2>3, Zenon
<1>4. CASE k \in 2 .. n + 1
  <2>1. ctrl.state = "RECV_PAYLOAD" /\ k < n + 3
    BY <1>1, <1>2, <1>4 DEF StateAt
  <2>2. ctrl' = RecvPayload(byte)
    BY <2>1, Zenon DEF Takes
  <2>3. Taken(RecvPayload(byte), m, k + 1)
    BY <1>2, <1>4, PayloadTaken
  <2>4. RecvPayload(byte).escape = FALSE
    BY PayloadSets
  <2> QED BY <2>1, <2>2, <2>3, <2>4, Zenon
<1>5. CASE k \in n + 2 .. n + 3
  <2> DEFINE c == RecvCrc(byte)
  <2>1. ctrl.state = "RECV_CRC"
    BY <1>1, <1>2, <1>5 DEF StateAt
  <2>2. /\ ctrl.pos = k - (n + 2)
        /\ Has(c, m, k + 1) /\ c.length = n
        /\ k = n + 2 => Taken(c, m, k + 1)
        /\ k = n + 3 => c.crc = CrcReceived(c)
    BY <1>2, <1>5, CrcTaken
  <2>3. c.escape = FALSE /\ DOMAIN c = Parts
    BY CrcSets, RecvCrcShape
  <2>4. IF ctrl.pos + 1 < 2 THEN ctrl' = c ELSE Check(c)
    BY <2>1, Zenon DEF Takes
  <2> HIDE DEF c
  <2>5. CASE k = n + 2
    <3>1. k < n + 3 /\ ctrl.pos + 1 < 2
      BY <1>1, <2>2, <2>5
    <3> QED BY <2>2, <2>3, <2>4, <2>5, <3>1, Zenon
  <2>6. CASE k = n + 3
    <3>1. ~(k < n + 3) /\ ~(ctrl.pos + 1 < 2) /\ ~(n > PayloadSize) /\ k + 1 = n + 4
      BY <1>1, <2>2, <2>6
    <3>2. Check(c)
      BY <2>4, <3>1, Zenon
    <3>3. work' \/ dropped'
      BY <2>2, <2>6, <3>1, <3>2, Zenon DEF Check, HandedOver
    <3>4. ctrl'.payload = c.payload /\ ctrl'.type = c.type /\ ctrl'.length = c.length
      BY <2>3, <3>2, CheckSets
    <3>5. Has(ctrl', m, n + 4)
      BY <2>2, <3>1, <3>4 DEF Has
    <3> QED BY <3>1, <3>3, <3>5, Zenon
  <2>7. k = n + 2 \/ k = n + 3
    BY <1>1, <1>5
  <2> QED BY <2>5, <2>6, <2>7, Zenon
<1>6. k \in {0, 1} \/ k \in 2 .. n + 1 \/ k \in n + 2 .. n + 3
  BY <1>1
<1> QED BY <1>3, <1>4, <1>5, <1>6, Zenon

(* The buffers of the message keep their sizes. *)
LEMMA TakesShaped ==
  ASSUME DOMAIN ctrl = Parts, Shaped, NEW byte, Takes(byte),
         ctrl.state \in Hearing, ctrl.state # "SYNC"
  PROVE  Shaped'
<1>1. \/ ctrl' = RecvHeader(byte)
      \/ ctrl' = RecvPayload(byte)
      \/ ctrl' = RecvCrc(byte)
      \/ Check(RecvCrc(byte))
  BY Zenon DEF Takes, Hearing
<1>2. CASE ctrl' = RecvHeader(byte)
  BY <1>2, HeaderKeeps DEF Shaped
<1>3. CASE ctrl' = RecvPayload(byte)
  <2>1. /\ ctrl'.got = ctrl.got
        /\ \/ ctrl'.payload = [ctrl.payload EXCEPT ![ctrl.pos] = byte]
           \/ ctrl'.payload = ctrl.payload
    BY <1>3, PayloadSets, Zenon
  <2> QED BY <2>1 DEF Shaped
<1>4. DOMAIN RecvCrc(byte).payload = 0 .. PayloadSize - 1 /\ DOMAIN RecvCrc(byte).got = 1 .. 2
  <2>1. /\ \/ RecvCrc(byte).payload = [ctrl.payload EXCEPT ![ctrl.pos - 4] = byte]
           \/ RecvCrc(byte).payload = ctrl.payload
        /\ \/ RecvCrc(byte).got = [ctrl.got EXCEPT ![ctrl.pos + 1] = byte]
           \/ RecvCrc(byte).got = ctrl.got
    BY CrcSets, Zenon
  <2> QED BY <2>1 DEF Shaped
<1>5. CASE ctrl' = RecvCrc(byte)
  BY <1>4, <1>5 DEF Shaped
<1>6. CASE Check(RecvCrc(byte))
  <2>1. DOMAIN RecvCrc(byte) = Parts
    BY RecvCrcShape
  <2>2. ctrl'.payload = RecvCrc(byte).payload /\ ctrl'.got = RecvCrc(byte).got
    BY <1>6, <2>1, CheckSets
  <2> QED BY <1>4, <2>2 DEF Shaped
<1> QED BY <1>1, <1>2, <1>3, <1>5, <1>6

LEMMA OnRecvShaped ==
  ASSUME LinkInv, Shaped, NEW byte, OnRecv(byte)
  PROVE  Shaped'
<1>1. DOMAIN ctrl = Parts
  BY DEF LinkInv
<1>2. CASE ctrl' = ctrl
  BY <1>2 DEF Shaped
<1>3. CASE ~Deaf /\ ctrl' = Restarted
  BY <1>1, <1>3, RestartedSets DEF Shaped
<1>4. CASE ~Deaf /\ ctrl.state # "SYNC" /\ (Takes(byte) \/ Takes(Flip(byte)))
  <2>1. ctrl.state \in Hearing
    BY <1>4 DEF LinkInv, Deaf
  <2> QED BY <1>1, <1>4, <2>1, TakesShaped
<1>5. CASE Escapes
  <2>1. ctrl'.payload = ctrl.payload /\ ctrl'.got = ctrl.got
    BY <1>1, <1>5, Zenon DEF Escapes, Parts
  <2> QED BY <2>1 DEF Shaped
<1> QED BY <1>2, <1>3, <1>4, <1>5, Zenon DEF OnRecv, Heard, Ignored

(* The line while it carries a message.  *)
LEMMA StartsWith ==
  ASSUME NEW x, NEW S, x \in S, NEW s \in Seq(S)
  PROVE  <<x>> \o s # << >> /\ Head(<<x>> \o s) = x /\ Tail(<<x>> \o s) = s
<1>1. /\ Len(<<x>> \o s) = Len(s) + 1 /\ (<<x>> \o s)[1] = x
      /\ <<x>> \o s \in Seq(S)
      /\ \A i \in 1 .. Len(s) : (<<x>> \o s)[i + 1] = s[i]
  OBVIOUS
<1>2. Tail(<<x>> \o s) \in Seq(S) /\ Len(Tail(<<x>> \o s)) = Len(s)
      /\ \A i \in 1 .. Len(s) : Tail(<<x>> \o s)[i] = s[i]
  BY <1>1
<1> QED BY <1>1, <1>2

LEMMA TwoStartWith ==
  ASSUME NEW S, NEW x \in S, NEW y \in S, NEW s \in Seq(S)
  PROVE  <<x, y>> \o s = <<x>> \o (<<y>> \o s) /\ <<y>> \o s \in Seq(S)
<1>1. <<x, y>> \o s \in Seq(S) /\ <<x>> \o (<<y>> \o s) \in Seq(S) /\ <<y>> \o s \in Seq(S)
  OBVIOUS
<1>2. Len(<<x, y>> \o s) = Len(s) + 2 /\ Len(<<x>> \o (<<y>> \o s)) = Len(s) + 2
  OBVIOUS
<1>3. \A i \in 1 .. Len(s) + 2 : (<<x, y>> \o s)[i] = (<<x>> \o (<<y>> \o s))[i]
  OBVIOUS
<1> QED BY <1>1, <1>2, <1>3, SeqEqual

(* The byte k + 1 on the line: itself, or after an escape.                 *)
LEMMA RemainingStarts ==
  ASSUME NEW m \in Asked, NEW k \in 0 .. Len(m.payload) + 3
  PROVE  LET b == Bytes(m)[k + 1]
             r == Remaining(m, k + 1)
         IN /\ Remaining(m, k) # << >>
            /\ IF b \in {START, ESC}
               THEN /\ Head(Remaining(m, k)) = ESC
                    /\ Tail(Remaining(m, k)) = <<Flip(b)>> \o r
                    /\ <<Flip(b)>> \o r # << >>
                    /\ Head(<<Flip(b)>> \o r) = Flip(b)
                    /\ Tail(<<Flip(b)>> \o r) = r
               ELSE Head(Remaining(m, k)) = b /\ Tail(Remaining(m, k)) = r
<1> DEFINE b == Bytes(m)[k + 1]
           r == Remaining(m, k + 1)
<1>1. /\ b \in Byte /\ r \in Seq(LineBytes) /\ b \in LineBytes
      /\ Remaining(m, k) = Escaped(b) \o r
  BY RemainingFacts DEF LineBytes
<1> HIDE DEF b, r
<1>2. CASE b \in {START, ESC}
  <2>1. Flip(b) \in LineBytes /\ ESC \in LineBytes /\ Remaining(m, k) = <<ESC, Flip(b)>> \o r
    BY <1>1, <1>2 DEF LineBytes, Escaped
  <2>2. Remaining(m, k) = <<ESC>> \o (<<Flip(b)>> \o r) /\ <<Flip(b)>> \o r \in Seq(LineBytes)
    <3>1. /\ <<ESC, Flip(b)>> \o r = <<ESC>> \o (<<Flip(b)>> \o r)
          /\ <<Flip(b)>> \o r \in Seq(LineBytes)
      BY <1>1, <2>1, TwoStartWith, Zenon
    <3> QED BY <2>1, <3>1, Zenon
  <2>3. /\ <<Flip(b)>> \o r # << >> /\ Head(<<Flip(b)>> \o r) = Flip(b)
        /\ Tail(<<Flip(b)>> \o r) = r
    BY <1>1, <2>1, StartsWith, Zenon
  <2>4. /\ Remaining(m, k) # << >> /\ Head(Remaining(m, k)) = ESC
        /\ Tail(Remaining(m, k)) = <<Flip(b)>> \o r
    BY <2>1, <2>2, StartsWith, Zenon
  <2> QED BY <1>2, <2>3, <2>4, Zenon DEF b, r
<1>3. CASE b \notin {START, ESC}
  <2>1. Remaining(m, k) = <<b>> \o r
    BY <1>1, <1>3, Zenon DEF Escaped
  <2>2. Remaining(m, k) # << >> /\ Head(Remaining(m, k)) = b /\ Tail(Remaining(m, k)) = r
    BY <1>1, <2>1, StartsWith, Zenon
  <2> QED BY <1>3, <2>2, Zenon DEF b, r
<1> QED BY <1>2, <1>3

LEMMA EncodeStarts ==
  ASSUME NEW m \in Asked
  PROVE  /\ Encode(m) # << >> /\ Head(Encode(m)) = START
         /\ Tail(Encode(m)) = Remaining(m, 0) /\ Remaining(m, 0) # << >>
         /\ Remaining(m, Len(m.payload) + 4) = << >>
<1>1. Len(m.payload) \in Nat /\ Len(Bytes(m)) = Len(m.payload) + 4 /\ Bytes(m) \in Seq(Byte)
  BY MessageFacts, BytesFacts
<1>2. 0 \in 0 .. Len(m.payload) + 3 /\ Len(m.payload) + 4 - 0 = Len(m.payload) + 4
      /\ Len(m.payload) + 4 - (Len(m.payload) + 4) = 0 /\ Len(m.payload) + 4 \in 0 .. Len(Bytes(m))
  BY <1>1
<1>3. Remaining(m, 0) = OnLine(Bytes(m))[Len(Bytes(m))]
  BY <1>1, <1>2 DEF Remaining
<1>4. Remaining(m, 0) \in Seq(LineBytes)
  BY <1>1, <1>2, <1>3, OnLineFacts
<1>5. Encode(m) = <<START>> \o Remaining(m, 0) /\ START \in LineBytes
  BY <1>3 DEF Encode, LineBytes
<1>6. Remaining(m, 0) # << >>
  BY <1>2, RemainingStarts
<1>7. Remaining(m, Len(m.payload) + 4) = << >>
  BY <1>1, <1>2, OnLineFacts DEF Remaining
<1> QED BY <1>4, <1>5, <1>6, <1>7, StartsWith, Zenon

(* A message that is arriving goes on with each byte that is delivered.    *)
LEMMA TakesInOrder ==
  ASSUME DOMAIN ctrl = Parts, Shaped, NEW m \in Asked,
         NEW k \in 0 .. Len(m.payload) + 3, Taken(ctrl, m, k), Takes(Bytes(m)[k + 1]),
         line' = Remaining(m, k + 1)
  PROVE  InOrder(m)'
<1> DEFINE n == Len(m.payload)
<1>1. n \in Nat
  BY MessageFacts
<1>2. IF k < n + 3 THEN Taken(ctrl', m, k + 1) /\ ctrl'.escape = FALSE
                   ELSE (work' \/ dropped') /\ Has(ctrl', m, n + 4)
  BY TakesNext
<1>3. CASE k < n + 3
  <2>1. k + 1 \in 0 .. n + 3
    BY <1>1, <1>3
  <2>2. line' # << >>
    BY <2>1, RemainingStarts
  <2>3. Taken(ctrl', m, k + 1) /\ ctrl'.escape = FALSE
    BY <1>2, <1>3
  <2>4. ~Deaf'
    BY <2>3 DEF Taken, StateAt, Deaf
  <2>5. Follows(m, k + 1)'
    BY <2>3 DEF Follows
  <2>6. Arriving(m)'
    BY <2>1, <2>3, <2>4, <2>5 DEF Arriving
  <2> QED BY <2>2, <2>6 DEF InOrder
<1>4. CASE ~(k < n + 3)
  <2>1. k + 1 = n + 4
    BY <1>1, <1>4
  <2>2. line' = << >>
    BY <2>1, EncodeStarts
  <2>3. Arrived(m)'
    BY <1>2, <1>4 DEF Arrived
  <2> QED BY <2>2, <2>3 DEF InOrder
<1> QED BY <1>3, <1>4

LEMMA FollowingInOrder ==
  ASSUME DOMAIN ctrl = Parts, Shaped, NEW m \in Asked, ~Deaf,
         NEW k \in 0 .. Len(m.payload) + 3, Taken(ctrl, m, k), Follows(m, k), Deliver
  PROVE  InOrder(m)'
<1> DEFINE b == Bytes(m)[k + 1]
           r == Remaining(m, k + 1)
<1>1. Heard(Head(line)) /\ line' = Tail(line)
  BY DEF Deliver, OnRecv
<1>2. ctrl.state # "SYNC"
  BY DEF Taken, StateAt
<1>3. CASE ctrl.escape
  <2>1. b \in {START, ESC} /\ line = <<Flip(b)>> \o r
    BY <1>3 DEF Follows
  <2>2. Head(line) = Flip(b) /\ line' = r
    BY <1>1, <2>1, RemainingStarts
  <2>3. Flip(Flip(b)) = b /\ Flip(b) # START
    BY <2>1, UartLinkAssumption
  <2>4. Takes(b)
    BY <1>1, <1>2, <1>3, <2>2, <2>3, Zenon DEF Heard
  <2> QED BY <2>2, <2>4, TakesInOrder
<1>4. CASE ~ctrl.escape /\ b \in {START, ESC}
  <2>1. line = Remaining(m, k)
    BY <1>4 DEF Follows
  <2>2. Head(line) = ESC /\ line' = <<Flip(b)>> \o r /\ line' # << >>
    BY <1>1, <1>4, <2>1, RemainingStarts
  <2>3. ESC # START
    BY UartLinkAssumption
  <2>4. ctrl' = [ctrl EXCEPT !.escape = TRUE]
    BY <1>1, <1>2, <1>4, <2>2, <2>3, Zenon DEF Heard, Escapes
  <2>5. /\ ctrl'.escape = TRUE /\ ctrl'.state = ctrl.state /\ ctrl'.pos = ctrl.pos
        /\ ctrl'.crc = ctrl.crc /\ ctrl'.type = ctrl.type /\ ctrl'.length = ctrl.length
        /\ ctrl'.payload = ctrl.payload /\ ctrl'.got = ctrl.got
    BY <2>4, Zenon DEF Parts
  <2>6. Taken(ctrl', m, k)
    BY <2>5 DEF Taken, Has
  <2>7. ~Deaf'
    BY <2>5 DEF Deaf
  <2>8. Follows(m, k)'
    BY <1>4, <2>2, <2>5 DEF Follows
  <2>9. Arriving(m)'
    BY <2>6, <2>7, <2>8 DEF Arriving
  <2> QED BY <2>2, <2>9 DEF InOrder
<1>5. CASE ~ctrl.escape /\ b \notin {START, ESC}
  <2>1. line = Remaining(m, k)
    BY <1>5 DEF Follows
  <2>2. Head(line) = b /\ line' = r
    BY <1>1, <1>5, <2>1, RemainingStarts
  <2>3. Takes(b)
    BY <1>1, <1>2, <1>5, <2>2, Zenon DEF Heard
  <2> QED BY <2>2, <2>3, TakesInOrder
<1> QED BY <1>3, <1>4, <1>5

LEMMA DeliverInOrder ==
  ASSUME LinkInv, Shaped, NEW m \in Asked, InOrder(m), Deliver
  PROVE  InOrder(m)'
<1>1. DOMAIN ctrl = Parts /\ line # << >> /\ line' = Tail(line) /\ OnRecv(Head(line))
  BY DEF LinkInv, Deliver
<1>2. Arriving(m)
  BY <1>1 DEF InOrder
<1>3. CASE line = Encode(m)
  <2>1. Head(line) = START /\ line' = Remaining(m, 0) /\ line' # << >>
    BY <1>1, <1>3, EncodeStarts
  <2>2. ctrl' = Restarted
    BY <1>1, <1>2, <2>1, Zenon DEF OnRecv, Heard, Arriving
  <2>3. ctrl'.state = "RECV_TYPE" /\ ctrl'.escape = FALSE /\ ctrl'.crc = 0
    BY <1>1, <2>2, RestartedSets
  <2>4. Len(m.payload) \in Nat /\ CrcOf(Covered(m))[0] = 0
    BY MessageFacts, CoveredFacts, CrcFacts
  <2>5. Taken(ctrl', m, 0)
    BY <2>3, <2>4 DEF Taken, StateAt, Covers, Has
  <2>6. Follows(m, 0)'
    BY <2>1, <2>3 DEF Follows
  <2>7. ~Deaf'
    BY <2>3 DEF Deaf
  <2>8. Arriving(m)'
    BY <2>4, <2>5, <2>6, <2>7 DEF Arriving
  <2> QED BY <2>1, <2>8 DEF InOrder
<1>4. CASE \E k \in 0 .. Len(m.payload) + 3 : Taken(ctrl, m, k) /\ Follows(m, k)
  BY <1>1, <1>2, <1>4, FollowingInOrder DEF Arriving
<1> QED BY <1>2, <1>3, <1>4 DEF Arriving

(* The handler gets the message as it was sent.                            *)
LEMMA RunInOrder ==
  ASSUME LinkInv, Shaped, NEW m \in Asked, InOrder(m), Run
  PROVE  InOrder(m)'
<1>1. ctrl.state = "WAIT_FOR_REPLY" /\ work /\ ~work' /\ ran' = Received /\ line' = line
  BY DEF LinkInv, Run, peerVars
<1>2. line = << >> /\ Has(ctrl, m, Len(m.payload) + 4)
  BY <1>1 DEF InOrder, Arriving, Arrived, Deaf
<1> DEFINE n == Len(m.payload)
<1>3. n \in Nat /\ m.payload \in Seq(Byte)
  BY MessageFacts
<1>4. /\ ctrl.type = m.type /\ ctrl.length = n
      /\ \A i \in 1 .. n : ctrl.payload[i - 1] = m.payload[i]
  BY <1>2, <1>3 DEF Has
<1>5. [i \in 1 .. ctrl.length |-> ctrl.payload[i - 1]] = m.payload
  BY <1>3, <1>4
<1>6. m = [type |-> m.type, payload |-> m.payload]
  BY UartLinkAssumption
<1>7. Received = m
  BY <1>4, <1>5, <1>6, Zenon DEF Received, Message
<1> QED BY <1>1, <1>2, <1>7 DEF InOrder, Arrived

LEMMA TxReadySets ==
  ASSUME DOMAIN ctrl = Parts, TxReady
  PROVE  /\ ctrl'.state = ctrl.state \/ (ctrl.state = "SEND_REPLY" /\ ctrl'.state = "SYNC")
         /\ ctrl'.pos = ctrl.pos /\ ctrl'.crc = ctrl.crc /\ ctrl'.type = ctrl.type
         /\ ctrl'.length = ctrl.length /\ ctrl'.payload = ctrl.payload
         /\ ctrl'.got = ctrl.got /\ ctrl'.escape = ctrl.escape
<1>1. CASE ctrl' = ctrl
  BY <1>1
<1>2. CASE ctrl' = [ctrl EXCEPT !.sending = FALSE,
                      !.state = IF @ = "SEND_REPLY" THEN "SYNC" ELSE @]
  BY <1>2, Zenon DEF Parts
<1> QED BY <1>1, <1>2, Zenon DEF TxReady

LEMMA ReplyInOrder ==
  ASSUME LinkInv, NEW m \in Asked, InOrder(m), Reply
  PROVE  InOrder(m)'
<1>1. /\ ctrl.state = "WAIT_FOR_REPLY" /\ ~work /\ ~work'
      /\ ran' = ran /\ line' = line /\ dropped' = dropped
  BY DEF LinkInv, Reply, peerVars
<1>2. line = << >> /\ (ran = m \/ dropped)
  BY <1>1 DEF InOrder, Arriving, Arrived, Deaf
<1> QED BY <1>1, <1>2 DEF InOrder, Arrived

LEMMA TxReadyInOrder ==
  ASSUME LinkInv, NEW m \in Asked, InOrder(m), TxReady
  PROVE  InOrder(m)'
<1>1. /\ DOMAIN ctrl = Parts /\ line' = line /\ ran' = ran /\ work' = work
      /\ dropped' = dropped
  BY DEF LinkInv, TxReady, peerVars
<1>2. /\ ctrl'.state = ctrl.state \/ (ctrl.state = "SEND_REPLY" /\ ctrl'.state = "SYNC")
      /\ ctrl'.pos = ctrl.pos /\ ctrl'.crc = ctrl.crc /\ ctrl'.type = ctrl.type
      /\ ctrl'.length = ctrl.length /\ ctrl'.payload = ctrl.payload
      /\ ctrl'.got = ctrl.got /\ ctrl'.escape = ctrl.escape
  BY <1>1, TxReadySets
<1>3. CASE line = << >>
  <2>1. Has(ctrl, m, Len(m.payload) + 4) => Has(ctrl', m, Len(m.payload) + 4)
    BY <1>2 DEF Has
  <2> QED BY <1>1, <1>3, <2>1 DEF InOrder, Arrived
<1>4. CASE line # << >>
  <2>1. Arriving(m) /\ ctrl'.state = ctrl.state /\ ~Deaf'
    BY <1>2, <1>4 DEF InOrder, Arriving, Deaf
  <2>2. CASE line = Encode(m)
    BY <1>1, <1>4, <2>1, <2>2 DEF InOrder, Arriving
  <2>3. CASE \E k \in 0 .. Len(m.payload) + 3 : Taken(ctrl, m, k) /\ Follows(m, k)
    <3>1. PICK k \in 0 .. Len(m.payload) + 3 : Taken(ctrl, m, k) /\ Follows(m, k)
      BY <2>3
    <3>2. Has(ctrl', m, k)
      BY <1>2, <3>1 DEF Taken, Has
    <3>3. Taken(ctrl', m, k)
      BY <1>2, <2>1, <3>1, <3>2 DEF Taken
    <3>4. Follows(m, k)'
      BY <1>1, <1>2, <3>1 DEF Follows
    <3>5. Arriving(m)'
      BY <2>1, <3>3, <3>4 DEF Arriving
    <3> QED BY <1>1, <1>4, <3>5 DEF InOrder
  <2> QED BY <2>1, <2>2, <2>3 DEF Arriving
<1> QED BY <1>3, <1>4

LEMMA SendShaped ==
  ASSUME DOMAIN ctrl = Parts, Shaped, NEW m, NEW state, Send(m, state)
  PROVE  Shaped'
<1>1. ctrl'.payload = ctrl.payload /\ ctrl'.got = ctrl.got
  BY Zenon DEF Send, Parts
<1> QED BY <1>1 DEF Shaped

LEMMA StepShaped ==
  ASSUME LinkInv, Shaped, [UlNext]_ulVars
  PROVE  Shaped'
<1>1. DOMAIN ctrl = Parts
  BY DEF LinkInv
<1>2. CASE ctrl' = ctrl
  BY <1>2 DEF Shaped
<1>3. CASE \E b : OnRecv(b)
  BY <1>3, OnRecvShaped
<1>4. CASE Reply
  <2>1. CASE Send(answer, "SEND_REPLY")
    BY <1>1, <2>1, SendShaped
  <2>2. CASE ctrl' = [ctrl EXCEPT !.pos = OutSize]
    <3>1. ctrl'.payload = ctrl.payload /\ ctrl'.got = ctrl.got
      BY <1>1, <2>2, Zenon DEF Parts
    <3> QED BY <3>1 DEF Shaped
  <2> QED BY <1>4, <2>1, <2>2, Zenon DEF Reply
<1>5. CASE Boot
  BY <1>1, <1>5, SendShaped DEF Boot
<1>6. CASE TxReady
  BY <1>1, <1>6, TxReadySets DEF Shaped
<1>7. Run \/ Lost \/ (\E m \in Asked : PeerSends(m)) \/ UNCHANGED ulVars => ctrl' = ctrl
  BY DEF Run, Lost, PeerSends, ulVars
<1>8. Deliver \/ (\E b \in Damages : Damaged(b)) => \E b : OnRecv(b)
  BY Zenon DEF Deliver, Damaged
<1> QED BY <1>2, <1>3, <1>4, <1>5, <1>6, <1>7, <1>8, Zenon DEF UlNext

LEMMA SendsInOrder ==
  ASSUME LinkInv, sends \in Seq(Asked), NEW m \in Asked, PeerSends(m)
  PROVE  /\ sends' \in Seq(Asked) /\ sends' # << >> /\ Last(sends') = m
         /\ clean' => InOrder(m)'
<1>1. sends' = Append(sends, m) /\ clean' = ~Deaf /\ line' = Encoded[m] /\ ctrl' = ctrl
  BY DEF PeerSends
<1>2. sends' \in Seq(Asked) /\ sends' # << >> /\ Last(sends') = m
  BY <1>1 DEF Last
<1>3. Encoded[m] = Encode(m) /\ Encode(m) # << >>
  BY EncodeStarts DEF Encoded
<1>4. clean' => Arriving(m)'
  BY <1>1, <1>3 DEF Arriving, Deaf
<1> QED BY <1>1, <1>2, <1>3, <1>4 DEF InOrder

LEMMA HeardInvStep ==
  ASSUME LinkInv, HeardInv, [UlNext]_ulVars
  PROVE  HeardInv'
<1>1. Shaped' /\ sends \in Seq(Asked) /\ Shaped
  BY StepShaped DEF HeardInv
<1>2. ASSUME NEW m \in Asked, PeerSends(m)
      PROVE  HeardInv'
  BY <1>1, <1>2, SendsInOrder DEF HeardInv
<1>3. ASSUME sends' = sends, clean' = FALSE
      PROVE  HeardInv'
  BY <1>1, <1>3 DEF HeardInv
<1>4. ASSUME sends' = sends, clean' = clean,
             \A m \in Asked : InOrder(m) => InOrder(m)'
      PROVE  HeardInv'
  <2>1. sends # << >> => Last(sends) \in Asked
    BY <1>1 DEF Last
  <2>2. PICK m : m = Last(sends)
    OBVIOUS
  <2>3. Last(sends)' = m
    BY <1>4, <2>2
  <2>4. clean => sends # << >> /\ InOrder(m)
    BY <2>2 DEF HeardInv
  <2>5. clean' => InOrder(m)'
    BY <1>4, <2>1, <2>2, <2>4
  <2> QED BY <1>1, <1>4, <2>3, <2>4, <2>5 DEF HeardInv
<1>5. CASE UNCHANGED ulVars
  BY <1>5 DEF ulVars, sendVars, peerVars, HeardInv, Shaped, InOrder, Arrived, Arriving, Deaf, Follows
<1>6. CASE Deliver
  BY <1>1, <1>4, <1>6, DeliverInOrder DEF Deliver, OnRecv
<1>7. CASE Lost \/ (\E b \in Damages : Damaged(b)) \/ Boot
  BY <1>3, <1>7 DEF Lost, Damaged, UlFault, OnRecv, Boot
<1>8. CASE Run
  BY <1>1, <1>4, <1>8, RunInOrder DEF Run, peerVars
<1>9. CASE Reply
  BY <1>4, <1>9, ReplyInOrder DEF Reply, peerVars
<1>10. CASE TxReady
  BY <1>4, <1>10, TxReadyInOrder DEF TxReady, peerVars
<1> QED BY <1>2, <1>5, <1>6, <1>7, <1>8, <1>9, <1>10, Zenon DEF UlNext

LEMMA HeardInvInit == UlInit => HeardInv
<1> SUFFICES ASSUME UlInit PROVE HeardInv
  OBVIOUS
<1>1. ctrl.payload = [i \in 0 .. PayloadSize - 1 |-> 0] /\ ctrl.got = <<0, 0>>
  BY Zenon DEF UlInit
<1>2. DOMAIN ctrl.payload = 0 .. PayloadSize - 1 /\ DOMAIN ctrl.got = 1 .. 2
  BY <1>1
<1> QED BY <1>2 DEF UlInit, HeardInv, Shaped

(* The next message, whatever bytes came before it: when it finds the      *)
(* controller listening and nothing disturbs it,                           *)
(* uart_ctrl_transport_on_recv takes it and the handler gets it as sent.   *)
THEOREM NextHeard == UlSpec => []NextIsHeard
<1>1. LinkInv /\ HeardInv /\ [UlNext]_ulVars => LinkInv' /\ HeardInv'
  BY LinkStep, HeardInvStep
<1>2. HeardInv => NextIsHeard
  BY DEF HeardInv, NextIsHeard, InOrder, Arrived
<1> QED BY <1>1, <1>2, LinkInvInit, HeardInvInit, PTL DEF UlSpec

-----------------------------------------------------------------------------
(* Every message, when no byte is lost or damaged *)

(* The line holds the end of m.                                            *)
Passing(m) ==
  \/ \E k \in 0 .. Len(m.payload) + 4 : line = Remaining(m, k)
  \/ \E k \in 0 .. Len(m.payload) + 3 :
       /\ Bytes(m)[k + 1] \in {START, ESC}
       /\ line = <<Flip(Bytes(m)[k + 1])>> \o Remaining(m, k + 1)

Entire(c, m) == Has(c, m, Len(m.payload) + 4)

(* All of m but its checksum is here, and the checksum does not fall into  *)
(* the payload, wherever the event left the position.                      *)
ButChecksum(m) ==
  /\ ctrl.state = "RECV_CRC" /\ Entire(ctrl, m)
  /\ ctrl.pos \in Nat /\ ctrl.pos - 4 \notin 0 .. Len(m.payload) - 1

(* What can become of the last message: it is on the line, or passes       *)
(* unheard, or is heard byte by byte.                                      *)
UnderWayTo(m) ==
  \/ line = Encode(m)
  \/ Passing(m) /\ (Deaf \/ ctrl.state = "SYNC" \/ ButChecksum(m))
  \/ \E k \in 0 .. Len(m.payload) + 1 : Taken(ctrl, m, k) /\ Follows(m, k)

Unharmed ==
  /\ work => \E i \in DOMAIN sends : Entire(ctrl, sends[i])
  /\ ran # NoMessage => \E i \in DOMAIN sends : ran = sends[i]
  /\ sends # << >> => UnderWayTo(Last(sends))

SentInv ==
  /\ sends = << >> => line = << >>
  /\ mixed => booted
  /\ ulFaults \in Nat
  /\ ulFaults = 0 /\ ~mixed => Unharmed

(* The end of a message has no start byte.                                 *)
LEMMA PassesOn ==
  ASSUME NEW m \in Asked, Passing(m), line # << >>, line' = Tail(line)
  PROVE  Head(line) # START /\ Passing(m)'
<1> DEFINE n == Len(m.payload)
<1>1. n \in Nat
  BY MessageFacts
<1>2. ASSUME NEW k \in 0 .. n + 4, line = Remaining(m, k)
      PROVE  Head(line) # START /\ Passing(m)'
  <2>1. k # n + 4
    BY <1>2, EncodeStarts
  <2>2. k \in 0 .. n + 3 /\ k + 1 \in 0 .. n + 4
    BY <1>1, <2>1
  <2>3. CASE Bytes(m)[k + 1] \in {START, ESC}
    <3>1. Head(line) = ESC /\ line' = <<Flip(Bytes(m)[k + 1])>> \o Remaining(m, k + 1)
      BY <1>2, <2>2, <2>3, RemainingStarts
    <3> QED BY <2>2, <2>3, <3>1, UartLinkAssumption DEF Passing
  <2>4. CASE Bytes(m)[k + 1] \notin {START, ESC}
    <3>1. Head(line) = Bytes(m)[k + 1] /\ line' = Remaining(m, k + 1)
      BY <1>2, <2>2, <2>4, RemainingStarts
    <3> QED BY <2>2, <2>4, <3>1 DEF Passing
  <2> QED BY <2>3, <2>4
<1>3. ASSUME NEW k \in 0 .. n + 3, Bytes(m)[k + 1] \in {START, ESC},
             line = <<Flip(Bytes(m)[k + 1])>> \o Remaining(m, k + 1)
      PROVE  Head(line) # START /\ Passing(m)'
  <2>1. Head(line) = Flip(Bytes(m)[k + 1]) /\ line' = Remaining(m, k + 1)
    BY <1>3, RemainingStarts
  <2>2. Flip(Bytes(m)[k + 1]) # START
    BY <1>3, UartLinkAssumption
  <2>3. k + 1 \in 0 .. n + 4
    BY <1>1
  <2> QED BY <2>1, <2>2, <2>3 DEF Passing
<1> QED BY <1>2, <1>3 DEF Passing

LEMMA ArrivingPasses ==
  ASSUME NEW m \in Asked, NEW k \in 0 .. Len(m.payload) + 3, Follows(m, k)'
  PROVE  Passing(m)'
<1>1. k \in 0 .. Len(m.payload) + 4
  BY MessageFacts
<1> QED BY <1>1 DEF Follows, Passing

(* A message that arrives is under way; past its payload it is complete.   *)
LEMMA ArrivingUnderWay ==
  ASSUME NEW m \in Asked, Arriving(m)'
  PROVE  UnderWayTo(m)'
<1> DEFINE n == Len(m.payload)
<1>1. n \in Nat
  BY MessageFacts
<1>2. ASSUME NEW k \in 0 .. n + 3, Taken(ctrl', m, k), Follows(m, k)'
      PROVE  UnderWayTo(m)'
  <2>1. CASE k \in 0 .. n + 1
    BY <1>2, <2>1 DEF UnderWayTo
  <2>2. CASE k \in n + 2 .. n + 3
    <3>1. /\ ctrl'.state = "RECV_CRC" /\ Has(ctrl', m, k)
          /\ ctrl'.pos = k - (n + 2)
      BY <1>1, <1>2, <2>2 DEF Taken, StateAt
    <3>2. Entire(ctrl', m)
      BY <1>1, <2>2, <3>1 DEF Entire, Has
    <3>3. ctrl'.pos \in {0, 1}
      BY <1>1, <2>2, <3>1
    <3>4. ButChecksum(m)'
      BY <1>1, <3>1, <3>2, <3>3 DEF ButChecksum
    <3> QED BY <1>2, <3>4, ArrivingPasses DEF UnderWayTo
  <2> QED BY <1>1, <2>1, <2>2
<1> QED BY <1>2 DEF Arriving, UnderWayTo

(* A byte after the payload.                                               *)
LEMMA CrcLeaves ==
  ASSUME DOMAIN ctrl = Parts, Shaped, NEW m \in Asked, ButChecksum(m), NEW byte
  PROVE  Entire(RecvCrc(byte), m)
<1> DEFINE n == Len(m.payload)
           c == RecvCrc(byte)
<1>1. n \in Nat /\ n <= PayloadSize /\ PayloadSize \in Nat
  BY MessageFacts, UartLinkAssumption
<1>2. /\ ctrl.type = m.type /\ ctrl.length = n
      /\ \A i \in 1 .. n : ctrl.payload[i - 1] = m.payload[i]
      /\ ctrl.pos - 4 \notin 0 .. n - 1 /\ DOMAIN ctrl.payload = 0 .. PayloadSize - 1
  BY <1>1 DEF ButChecksum, Entire, Has, Shaped
<1>3. /\ c.type = ctrl.type /\ c.length = ctrl.length
      /\ c.payload = IF ctrl.pos - 4 \in DOMAIN ctrl.payload
                     THEN [ctrl.payload EXCEPT ![ctrl.pos - 4] = byte] ELSE ctrl.payload
  BY CrcSets
<1> HIDE DEF c
<1>4. ASSUME NEW i \in 1 .. n
      PROVE  c.payload[i - 1] = m.payload[i]
  <2>1. i - 1 # ctrl.pos - 4 /\ i - 1 \in DOMAIN ctrl.payload
    BY <1>1, <1>2
  <2>2. c.payload[i - 1] = ctrl.payload[i - 1]
    BY <1>3, <2>1, Zenon
  <2> QED BY <1>2, <2>2
<1>5. Entire(c, m)
  BY <1>2, <1>3, <1>4 DEF Entire, Has
<1> QED BY <1>5 DEF c

LEMMA CheckLeaves ==
  ASSUME NEW c, NEW m, DOMAIN c = Parts, Entire(c, m), Check(c)
  PROVE  Entire(ctrl', m) /\ ctrl'.state = "WAIT_FOR_REPLY"
<1>1. ctrl'.payload = c.payload /\ ctrl'.type = c.type /\ ctrl'.length = c.length
  BY CheckSets
<1>2. ctrl'.state = "WAIT_FOR_REPLY"
  BY Zenon DEF Check, Parts
<1> QED BY <1>1, <1>2 DEF Entire, Has

(* A byte behind the payload: an escape, a byte of the checksum, or the    *)
(* one with which the message is taken, sooner than it should be when the  *)
(* position was moved.                                                     *)
LEMMA ButChecksumGoesOn ==
  ASSUME DOMAIN ctrl = Parts, Shaped, NEW m \in Asked, ButChecksum(m), ~work,
         NEW byte, Takes(byte) \/ Escapes
  PROVE  /\ ButChecksum(m)' \/ Deaf'
         /\ work' => Entire(ctrl', m)
<1>1. ctrl.state = "RECV_CRC" /\ ctrl.pos \in Nat
  BY DEF ButChecksum
<1>2. CASE Escapes
  <2>1. /\ ctrl'.state = ctrl.state /\ ctrl'.pos = ctrl.pos /\ ctrl'.type = ctrl.type
        /\ ctrl'.length = ctrl.length /\ ctrl'.payload = ctrl.payload /\ work' = work
    BY <1>2, Zenon DEF Escapes, Parts
  <2> QED BY <2>1 DEF ButChecksum, Entire, Has
<1>3. CASE Takes(byte)
  <2> DEFINE c == RecvCrc(byte)
  <2>1. Entire(c, m) /\ DOMAIN c = Parts
    BY CrcLeaves, RecvCrcShape
  <2>2. c.state = "RECV_CRC" /\ c.pos = ctrl.pos + 1
    BY <1>1, CrcSets
  <2>3. IF ctrl.pos + 1 < 2 THEN ctrl' = c /\ work' = work ELSE Check(c)
    BY <1>1, <1>3, Zenon DEF Takes
  <2> HIDE DEF c
  <2>4. CASE ctrl.pos + 1 < 2
    <3>1. ctrl' = c /\ work' = work
      BY <2>3, <2>4, Zenon
    <3>2. ctrl'.pos = 1 /\ 1 - 4 \notin 0 .. Len(m.payload) - 1
      BY <1>1, <2>2, <2>4, <3>1, MessageFacts
    <3>3. ctrl'.pos \in Nat /\ ctrl'.pos - 4 \notin 0 .. Len(m.payload) - 1
      BY <3>2
    <3> QED BY <2>1, <2>2, <3>1, <3>3 DEF ButChecksum
  <2>5. CASE ~(ctrl.pos + 1 < 2)
    <3>1. Check(c)
      BY <2>3, <2>5, Zenon
    <3>2. Entire(ctrl', m) /\ ctrl'.state = "WAIT_FOR_REPLY"
      BY <2>1, <3>1, CheckLeaves
    <3> QED BY <3>2 DEF Deaf
  <2> QED BY <2>4, <2>5
<1> QED BY <1>2, <1>3

(* A message that is heard up to the end of its payload is not yet taken.  *)
LEMMA HearingOn ==
  ASSUME LinkInv, Shaped, NEW m \in Asked, ~Deaf, Deliver,
         \/ line = Encode(m)
         \/ \E k \in 0 .. Len(m.payload) + 1 : Taken(ctrl, m, k) /\ Follows(m, k)
  PROVE  UnderWayTo(m)' /\ ~work'
<1> DEFINE n == Len(m.payload)
<1>1. n \in Nat
  BY MessageFacts
<1>2. line # << >> /\ line' = Tail(line) /\ OnRecv(Head(line))
  BY DEF Deliver
<1>3. Arriving(m)
  BY <1>1 DEF Arriving
<1>4. InOrder(m)'
  BY <1>2, <1>3, DeliverInOrder DEF InOrder
<1>5. line' # << >>
  <2>1. CASE line = Encode(m)
    BY <1>2, <2>1, EncodeStarts
  <2>2. ASSUME NEW k \in 0 .. n + 1, Follows(m, k)
        PROVE  line' # << >>
    <3>1. k \in 0 .. n + 3 /\ k + 1 \in 0 .. n + 3
      BY <1>1
    <3>2. Remaining(m, k + 1) # << >>
      BY <3>1, RemainingStarts
    <3> QED BY <1>2, <2>2, <3>1, <3>2, RemainingStarts DEF Follows
  <2> QED BY <2>1, <2>2
<1>6. Arriving(m)'
  BY <1>4, <1>5 DEF InOrder
<1>7. ~Deaf' /\ LinkInv'
  BY <1>2, <1>6, OnRecvKeeps DEF Arriving
<1> QED BY <1>6, <1>7, ArrivingUnderWay DEF LinkInv, Deaf

LEMMA DeliverUnderWay ==
  ASSUME LinkInv, Shaped, NEW m \in Asked, UnderWayTo(m), Deliver
  PROVE  /\ UnderWayTo(m)'
         /\ work' => Entire(ctrl', m) \/ (work /\ ctrl' = ctrl)
<1>1. /\ DOMAIN ctrl = Parts /\ line # << >> /\ line' = Tail(line) /\ OnRecv(Head(line))
      /\ work => Deaf
  BY DEF LinkInv, Deliver, Deaf
<1>2. CASE Deaf
  <2>1. ctrl' = ctrl /\ work' = work /\ Deaf'
    BY <1>1, <1>2 DEF OnRecv, Ignored, Deaf
  <2>2. CASE line = Encode(m)
    <3>1. line' = Remaining(m, 0) /\ 0 \in 0 .. Len(m.payload) + 4
      BY <1>1, <2>2, EncodeStarts, MessageFacts
    <3>2. Passing(m)'
      BY <3>1 DEF Passing
    <3> QED BY <2>1, <3>2 DEF UnderWayTo
  <2>3. CASE Passing(m)
    <3>1. Passing(m)'
      BY <1>1, <2>3, PassesOn
    <3> QED BY <2>1, <3>1 DEF UnderWayTo
  <2>4. ~(\E k \in 0 .. Len(m.payload) + 1 : Taken(ctrl, m, k) /\ Follows(m, k))
    BY <1>2 DEF Taken, StateAt, Deaf
  <2> QED BY <2>2, <2>3, <2>4 DEF UnderWayTo
<1>3. CASE ~Deaf
  <2>1. Heard(Head(line)) /\ ~work
    BY <1>1, <1>3 DEF OnRecv
  <2>2. CASE \/ line = Encode(m)
             \/ \E k \in 0 .. Len(m.payload) + 1 : Taken(ctrl, m, k) /\ Follows(m, k)
    BY <1>3, <2>2, HearingOn
  <2>3. CASE Passing(m) /\ (ctrl.state = "SYNC" \/ ButChecksum(m))
    <3>1. Head(line) # START /\ Passing(m)'
      BY <1>1, <2>3, PassesOn
    <3>2. CASE ctrl.state = "SYNC"
      <4>1. ctrl' = ctrl /\ work' = work
        BY <2>1, <3>1, <3>2, Zenon DEF Heard, Ignored
      <4> QED BY <2>1, <3>1, <3>2, <4>1 DEF UnderWayTo
    <3>3. CASE ButChecksum(m)
      <4>1. ctrl.state # "SYNC"
        BY <3>3 DEF ButChecksum
      <4>2. PICK byte : Takes(byte) \/ Escapes
        BY <2>1, <3>1, <4>1, Zenon DEF Heard
      <4>3. (ButChecksum(m)' \/ Deaf') /\ (work' => Entire(ctrl', m))
        BY <1>1, <2>1, <3>3, <4>2, ButChecksumGoesOn
      <4> QED BY <3>1, <4>3 DEF UnderWayTo
    <3> QED BY <2>3, <3>2, <3>3
  <2> QED BY <1>3, <2>2, <2>3 DEF UnderWayTo
<1> QED BY <1>2, <1>3

LEMMA StartedLength == Len(Encoded[Started]) \in Nat /\ Len(Encoded[Started]) >= 1
<1> DEFINE m == Started
           crc == CrcOf(Covered(m))[Len(Covered(m))]
<1>1. m.type = STARTED /\ m.payload = << >>
  BY DEF Started, Message
<1>2. Half \in Nat /\ Half > 0 /\ STARTED \in Byte /\ 0 \in Byte
  BY UartLinkAssumption DEF Byte
<1> HIDE DEF m
<1>3. Covered(m) \in Seq(Byte) /\ Len(Covered(m)) \in Nat
  BY <1>1, <1>2 DEF Covered
<1>4. crc \in Crc
  BY <1>3, CrcFacts
<1>5. Bytes(m) = Covered(m) \o <<crc % Half, crc \div Half>>
  BY Zenon DEF Bytes
<1> HIDE DEF crc
<1>6. Bytes(m) \in Seq(Byte)
  <2>1. crc % Half \in Byte /\ crc \div Half \in Byte
    BY <1>4, Bytewise
  <2>2. PICK lo \in Byte, hi \in Byte : Bytes(m) = Covered(m) \o <<lo, hi>>
    BY <1>5, <2>1
  <2> QED BY <1>3, <2>2
<1>7. OnLine(Bytes(m))[Len(Bytes(m))] \in Seq(LineBytes)
  <2>1. Len(Bytes(m)) \in 0 .. Len(Bytes(m))
    BY <1>6
  <2> QED BY <1>6, <2>1, OnLineFacts
<1>8. Encoded[m] = <<START>> \o OnLine(Bytes(m))[Len(Bytes(m))]
  BY DEF m, Encoded, Encode
<1>9. Len(Encoded[m]) \in Nat /\ Len(Encoded[m]) >= 1
  <2>1. START \in LineBytes
    BY DEF LineBytes
  <2> QED BY <1>7, <1>8, <2>1
<1> QED BY <1>9 DEF m

(* The event of the boot moves the position, where mixed does not say so   *)
(* past what is still to come or to a place of no account.                 *)
LEMMA BootUnderWay ==
  ASSUME LinkInv, NEW m \in Asked, UnderWayTo(m), Boot, ~mixed'
  PROVE  UnderWayTo(m)'
<1> DEFINE n == Len(m.payload)
<1>1. /\ DOMAIN ctrl = Parts /\ Send(Started, ctrl.state) /\ line' = line
      /\ ctrl.state # "RECV_PAYLOAD"
      /\ ctrl.state = "RECV_CRC" => Len(Encoded[Started]) - 4 \notin 0 .. ctrl.length - 1
  BY DEF LinkInv, Boot
<1>2. /\ ctrl'.state = ctrl.state /\ ctrl'.pos = Len(Encoded[Started])
      /\ ctrl'.crc = ctrl.crc /\ ctrl'.got = ctrl.got /\ ctrl'.type = ctrl.type
      /\ ctrl'.length = ctrl.length /\ ctrl'.payload = ctrl.payload
      /\ ctrl'.escape = ctrl.escape
  BY <1>1, Zenon DEF Send, Parts
<1>3. n \in Nat /\ Deaf' = Deaf
  BY <1>2, MessageFacts DEF Deaf
<1>4. CASE line = Encode(m)
  BY <1>1, <1>4 DEF UnderWayTo
<1>5. CASE Passing(m) /\ (Deaf \/ ctrl.state = "SYNC")
  BY <1>1, <1>2, <1>3, <1>5 DEF UnderWayTo, Passing
<1>6. CASE Passing(m) /\ ButChecksum(m)
  <2>1. Entire(ctrl', m) /\ ctrl.length = n
    BY <1>2, <1>3, <1>6 DEF ButChecksum, Entire, Has
  <2>2. ButChecksum(m)'
    BY <1>1, <1>2, <1>6, <2>1, StartedLength DEF ButChecksum
  <2> QED BY <1>1, <1>6, <2>2 DEF UnderWayTo, Passing
<1>7. ASSUME NEW k \in 0 .. n + 1, Taken(ctrl, m, k), Follows(m, k)
      PROVE  UnderWayTo(m)'
  <2>1. k \in {0, 1}
    BY <1>1, <1>3, <1>7 DEF Taken, StateAt
  <2>2. Has(ctrl', m, k)
    BY <1>2, <1>7 DEF Taken, Has
  <2>3. Taken(ctrl', m, k)
    <3>1. ~(k >= 2) /\ k # n + 3
      BY <1>3, <2>1
    <3>2. ctrl'.state = StateAt(m, k) /\ ctrl'.crc = CrcOf(Covered(m))[Covers(m, k)]
      BY <1>2, <1>7 DEF Taken
    <3> QED BY <2>2, <3>1, <3>2, Zenon DEF Taken
  <2>4. Follows(m, k)'
    BY <1>1, <1>2, <1>7 DEF Follows
  <2> QED BY <2>3, <2>4 DEF UnderWayTo
<1> QED BY <1>4, <1>5, <1>6, <1>7 DEF UnderWayTo

LEMMA TxReadyUnderWay ==
  ASSUME LinkInv, NEW m \in Asked, UnderWayTo(m), TxReady
  PROVE  UnderWayTo(m)'
<1>1. DOMAIN ctrl = Parts /\ line' = line
  BY DEF LinkInv, TxReady, peerVars
<1>2. /\ ctrl'.state = ctrl.state \/ (ctrl.state = "SEND_REPLY" /\ ctrl'.state = "SYNC")
      /\ ctrl'.pos = ctrl.pos /\ ctrl'.crc = ctrl.crc /\ ctrl'.type = ctrl.type
      /\ ctrl'.length = ctrl.length /\ ctrl'.payload = ctrl.payload
      /\ ctrl'.got = ctrl.got /\ ctrl'.escape = ctrl.escape
  BY <1>1, TxReadySets
<1>3. CASE line = Encode(m)
  BY <1>1, <1>3 DEF UnderWayTo
<1>4. CASE Passing(m) /\ (Deaf \/ ctrl.state = "SYNC")
  <2>1. Deaf' \/ ctrl'.state = "SYNC"
    BY <1>2, <1>4 DEF Deaf
  <2> QED BY <1>1, <1>4, <2>1 DEF UnderWayTo, Passing
<1>5. CASE Passing(m) /\ ButChecksum(m)
  <2>1. ButChecksum(m)'
    BY <1>2, <1>5 DEF ButChecksum, Entire, Has
  <2> QED BY <1>1, <1>5, <2>1 DEF UnderWayTo, Passing
<1>6. ASSUME NEW k \in 0 .. Len(m.payload) + 1, Taken(ctrl, m, k), Follows(m, k)
      PROVE  UnderWayTo(m)'
  <2>1. ctrl'.state = ctrl.state
    BY <1>2, <1>6 DEF Taken, StateAt
  <2>2. Has(ctrl', m, k)
    BY <1>2, <1>6 DEF Taken, Has
  <2>3. Taken(ctrl', m, k)
    BY <1>2, <1>6, <2>1, <2>2 DEF Taken
  <2>4. Follows(m, k)'
    BY <1>1, <1>2, <1>6 DEF Follows
  <2> QED BY <2>3, <2>4 DEF UnderWayTo
<1> QED BY <1>3, <1>4, <1>5, <1>6 DEF UnderWayTo

LEMMA ReplyUnderWay ==
  ASSUME LinkInv, NEW m \in Asked, UnderWayTo(m), Reply
  PROVE  UnderWayTo(m)' /\ ~work'
<1>1. /\ DOMAIN ctrl = Parts /\ ctrl.state = "WAIT_FOR_REPLY" /\ ~work'
      /\ line' = line /\ Deaf
  BY DEF LinkInv, Reply, Deaf, peerVars
<1>2. Deaf'
  <2>1. CASE Send(answer, "SEND_REPLY")
    <3>1. ctrl'.state = "SEND_REPLY"
      BY <1>1, <2>1, SendShape
    <3> QED BY <3>1 DEF Deaf
  <2>2. CASE ctrl' = [ctrl EXCEPT !.pos = OutSize]
    <3>1. ctrl'.state = ctrl.state
      BY <1>1, <2>2, Zenon DEF Parts
    <3> QED BY <1>1, <3>1 DEF Deaf
  <2> QED BY <2>1, <2>2, Zenon DEF Reply
<1>3. CASE line = Encode(m)
  BY <1>1, <1>3 DEF UnderWayTo
<1>4. CASE Passing(m)
  BY <1>1, <1>2, <1>4 DEF UnderWayTo, Passing
<1>5. ~(\E k \in 0 .. Len(m.payload) + 1 : Taken(ctrl, m, k) /\ Follows(m, k))
  BY <1>1 DEF Taken, StateAt
<1> QED BY <1>1, <1>3, <1>4, <1>5 DEF UnderWayTo

(* The handler is given a message that is whole as it was sent.            *)
LEMMA EntireReceived ==
  ASSUME NEW m \in Asked, Entire(ctrl, m)
  PROVE  Received = m
<1> DEFINE n == Len(m.payload)
<1>1. n \in Nat /\ m.payload \in Seq(Byte)
  BY MessageFacts
<1>2. /\ ctrl.type = m.type /\ ctrl.length = n
      /\ \A i \in 1 .. n : ctrl.payload[i - 1] = m.payload[i]
  BY <1>1 DEF Entire, Has
<1>3. [i \in 1 .. ctrl.length |-> ctrl.payload[i - 1]] = m.payload
  BY <1>1, <1>2
<1>4. m = [type |-> m.type, payload |-> m.payload]
  BY UartLinkAssumption
<1> QED BY <1>2, <1>3, <1>4, Zenon DEF Received, Message

LEMMA SendsUnharmed ==
  ASSUME LinkInv, SentInv, sends \in Seq(Asked), NEW m \in Asked, PeerSends(m),
         ulFaults = 0, ~mixed'
  PROVE  Unharmed'
<1>1. /\ sends' = Append(sends, m) /\ line' = Encoded[m] /\ ctrl' = ctrl
      /\ ran' = NoMessage /\ work' = work /\ mixed' = (mixed /\ Deaf)
  BY DEF PeerSends
<1>2. Last(sends') = m /\ Encoded[m] = Encode(m)
  BY <1>1 DEF Last, Encoded
<1>3. UnderWayTo(m)'
  BY <1>1, <1>2 DEF UnderWayTo
<1>4. ASSUME work'
      PROVE  \E i \in DOMAIN sends' : Entire(ctrl', sends'[i])
  <2>1. Deaf /\ ~mixed
    BY <1>1, <1>4 DEF LinkInv, Deaf
  <2>2. PICK i \in DOMAIN sends : Entire(ctrl, sends[i])
    BY <1>1, <1>4, <2>1 DEF SentInv, Unharmed
  <2>3. i \in DOMAIN sends' /\ sends'[i] = sends[i]
    BY <1>1
  <2> QED BY <1>1, <2>2, <2>3
<1>5. (sends # << >> => UnderWayTo(Last(sends)))'
  <2>1. PICK l : l = Last(sends')
    OBVIOUS
  <2>2. UnderWayTo(l)'
    BY <1>2, <1>3, <2>1
  <2> QED BY <2>1, <2>2
<1> QED BY <1>1, <1>4, <1>5 DEF Unharmed

(* The peer sends nothing, and nothing runs. *)
LEMMA UnharmedKept ==
  ASSUME sends \in Seq(Asked), sends' = sends, ran' = ran, Unharmed,
         sends # << >> => \A m \in Asked : UnderWayTo(m) => UnderWayTo(m)',
         work' => \/ work /\ \A m \in Asked : Entire(ctrl, m) => Entire(ctrl', m)
                  \/ sends # << >> /\ \E m \in Asked : m = Last(sends) /\ Entire(ctrl', m)
  PROVE  Unharmed'
<1>1. PICK l : l = Last(sends)
  OBVIOUS
<1>2. \A i \in DOMAIN sends : sends[i] \in Asked
  OBVIOUS
<1>3. sends # << >> => l \in Asked /\ Len(sends) \in DOMAIN sends /\ l = sends[Len(sends)]
  BY <1>1 DEF Last
<1>4. sends' # << >> => UnderWayTo(l)'
  BY <1>1, <1>3 DEF Unharmed
<1>5. work' => \E i \in DOMAIN sends' : Entire(ctrl', sends'[i])
  <2>1. CASE work /\ \A m \in Asked : Entire(ctrl, m) => Entire(ctrl', m)
    <3>1. PICK i \in DOMAIN sends : Entire(ctrl, sends[i])
      BY <2>1 DEF Unharmed
    <3> QED BY <1>2, <2>1, <3>1
  <2>2. CASE sends # << >> /\ \E m \in Asked : m = Last(sends) /\ Entire(ctrl', m)
    BY <1>1, <1>3, <2>2
  <2> QED BY <2>1, <2>2
<1>6. (sends # << >> => UnderWayTo(Last(sends)))'
  BY <1>1, <1>4
<1> QED BY <1>5, <1>6 DEF Unharmed

LEMMA SentInvStep ==
  ASSUME LinkInv, HeardInv, SentInv, [UlNext]_ulVars
  PROVE  SentInv'
<1>1. Shaped /\ sends \in Seq(Asked)
  BY DEF HeardInv
<1>2. ASSUME UNCHANGED <<sends, line, mixed, booted, ulFaults>>,
             Unharmed => Unharmed'
      PROVE  SentInv'
  BY <1>2 DEF SentInv
<1>3. CASE UNCHANGED ulVars
  <2>1. UNCHANGED <<sends, line, mixed, booted, ulFaults, ran, work, ctrl>>
    BY <1>3 DEF ulVars, sendVars, peerVars
  <2>2. \A m \in Asked : UnderWayTo(m) => UnderWayTo(m)'
    BY <2>1 DEF UnderWayTo, Passing, ButChecksum, Follows, Deaf
  <2> QED BY <1>1, <1>2, <2>1, <2>2, UnharmedKept
<1>4. ASSUME NEW m \in Asked, PeerSends(m)
      PROVE  SentInv'
  <2>1. /\ ulFaults' = ulFaults /\ booted' = booted /\ sends' # << >>
        /\ mixed' => mixed
    <3>1. ulFaults' = ulFaults /\ booted' = booted /\ (mixed' => mixed)
      BY <1>4, Zenon DEF PeerSends
    <3> QED BY <1>1, <1>4, <3>1, SendsInOrder
  <2>2. ulFaults = 0 /\ ~mixed' => Unharmed'
    BY <1>1, <1>4, SendsUnharmed
  <2>3. (mixed => booted) /\ ulFaults \in Nat
    BY DEF SentInv
  <2>4. (ulFaults = 0 /\ ~mixed => Unharmed)'
    BY <2>1, <2>2, Zenon
  <2>5. (sends = << >> => line = << >>)' /\ (mixed => booted)' /\ (ulFaults \in Nat)'
    BY <2>1, <2>3, Zenon
  <2> QED BY <2>4, <2>5, Zenon DEF SentInv
<1>5. CASE Deliver
  <2>1. /\ UNCHANGED <<sends, mixed, booted, ulFaults, ran>> /\ sends # << >>
    BY <1>5 DEF Deliver, OnRecv, SentInv
  <2>2. ASSUME Unharmed
        PROVE  Unharmed'
    <3>1. \A m \in Asked : UnderWayTo(m) =>
            /\ UnderWayTo(m)'
            /\ work' => Entire(ctrl', m) \/ (work /\ ctrl' = ctrl)
      BY <1>1, <1>5, DeliverUnderWay
    <3>2. PICK l : l = Last(sends)
      OBVIOUS
    <3>3. l \in Asked /\ UnderWayTo(l)
      BY <1>1, <2>1, <2>2, <3>2 DEF Last, Unharmed
    <3>4. work' => \/ work /\ \A m \in Asked : Entire(ctrl, m) => Entire(ctrl', m)
                   \/ sends # << >> /\ \E m \in Asked : m = Last(sends) /\ Entire(ctrl', m)
      BY <2>1, <3>1, <3>2, <3>3, Zenon
    <3>5. \A m \in Asked : UnderWayTo(m) => UnderWayTo(m)'
      BY <3>1
    <3> QED BY <1>1, <2>1, <2>2, <3>4, <3>5, UnharmedKept
  <2> QED BY <2>1, <2>2 DEF SentInv
<1>6. CASE Lost \/ (\E b \in Damages : Damaged(b))
  <2>1. /\ ulFaults' = ulFaults + 1 /\ UNCHANGED <<sends, mixed, booted>>
        /\ sends = << >> => line' = << >>
    BY <1>6 DEF Lost, Damaged, UlFault, OnRecv, SentInv
  <2> QED BY <2>1 DEF SentInv
<1>7. CASE Run
  <2>1. /\ ctrl' = ctrl /\ ran' = Received /\ ~work' /\ work
        /\ UNCHANGED <<sends, line, mixed, booted, ulFaults>>
    BY <1>7 DEF Run, peerVars
  <2>2. ASSUME Unharmed
        PROVE  Unharmed'
    <3>1. PICK i \in DOMAIN sends : Entire(ctrl, sends[i])
      BY <2>1, <2>2 DEF Unharmed
    <3>2. sends[i] \in Asked
      BY <1>1
    <3>3. ran' = sends[i]
      BY <2>1, <3>1, <3>2, EntireReceived
    <3>4. PICK l : l = Last(sends)
      OBVIOUS
    <3>5. sends # << >> => UnderWayTo(l)
      BY <2>2, <3>4 DEF Unharmed
    <3>6. sends # << >> => UnderWayTo(l)'
      BY <2>1, <3>5 DEF UnderWayTo, Passing, ButChecksum, Follows, Deaf
    <3>7. (sends # << >> => UnderWayTo(Last(sends)))'
      BY <2>1, <3>4, <3>6
    <3> QED BY <2>1, <3>3, <3>7 DEF Unharmed
  <2> QED BY <1>2, <2>1, <2>2
<1>8. CASE Reply
  <2>1. UNCHANGED <<sends, line, mixed, booted, ulFaults, ran>>
    BY <1>8 DEF Reply, peerVars
  <2>2. work' => FALSE
    BY <1>8 DEF Reply, LinkInv
  <2>3. \A m \in Asked : UnderWayTo(m) => UnderWayTo(m)'
    BY <1>8, ReplyUnderWay
  <2> QED BY <1>1, <1>2, <2>1, <2>2, <2>3, UnharmedKept
<1>9. CASE Boot
  <2>1. /\ UNCHANGED <<sends, line, ulFaults, ran, work>> /\ booted' /\ ~booted
        /\ Send(Started, ctrl.state) /\ DOMAIN ctrl = Parts
    BY <1>9 DEF Boot, LinkInv
  <2>2. ASSUME Unharmed, ~mixed'
        PROVE  Unharmed'
    <3>1. ctrl'.type = ctrl.type /\ ctrl'.length = ctrl.length /\ ctrl'.payload = ctrl.payload
      BY <2>1, Zenon DEF Send, Parts
    <3>2. \A m \in Asked : Entire(ctrl, m) => Entire(ctrl', m)
      BY <3>1 DEF Entire, Has
    <3>3. \A m \in Asked : UnderWayTo(m) => UnderWayTo(m)'
      BY <1>9, <2>2, BootUnderWay
    <3> QED BY <1>1, <2>1, <2>2, <3>2, <3>3, UnharmedKept
  <2> QED BY <2>1, <2>2 DEF SentInv
<1>10. CASE TxReady
  <2>1. /\ UNCHANGED <<sends, line, mixed, booted, ulFaults, ran, work>>
        /\ DOMAIN ctrl = Parts
    BY <1>10 DEF TxReady, peerVars, LinkInv
  <2>2. ctrl'.type = ctrl.type /\ ctrl'.length = ctrl.length /\ ctrl'.payload = ctrl.payload
    BY <1>10, <2>1, TxReadySets
  <2>3. \A m \in Asked : Entire(ctrl, m) => Entire(ctrl', m)
    BY <2>2 DEF Entire, Has
  <2>4. \A m \in Asked : UnderWayTo(m) => UnderWayTo(m)'
    BY <1>10, TxReadyUnderWay
  <2> QED BY <1>1, <1>2, <2>1, <2>3, <2>4, UnharmedKept
<1> QED BY <1>3, <1>4, <1>5, <1>6, <1>7, <1>8, <1>9, <1>10, Zenon DEF UlNext

(* A command that runs was sent, and as it was sent, for every checksum    *)
(* and every set of messages, as long as the line loses and damages        *)
(* nothing: whenever the event of the boot is written, and when a message  *)
(* comes while the controller is deaf to it (uart_ctrl_transport_on_recv). *)
THEOREM CommandsSentUnharmed == UlSpec => [](ulFaults = 0 => CommandsAreSent)
<1>1. UlInit => SentInv
  BY DEF UlInit, SentInv, Unharmed
<1>2. LinkInv /\ HeardInv /\ SentInv /\ [UlNext]_ulVars => LinkInv' /\ HeardInv' /\ SentInv'
  BY LinkStep, HeardInvStep, SentInvStep
<1>3. SentInv => (ulFaults = 0 => CommandsAreSent)
  BY DEF SentInv, Unharmed, CommandsAreSent
<1> QED BY <1>1, <1>2, <1>3, LinkInvInit, HeardInvInit, PTL DEF UlSpec

=============================================================================
