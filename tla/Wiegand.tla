------------------------------ MODULE Wiegand ------------------------------
(***************************************************************************)
(* The Wiegand reader (wiegand-reader.c): two lines, a low pulse on one of *)
(* them per bit, and a word that ends when no bit came for a while.  The   *)
(* pin change interrupt (external-irq.c) compares the port with what it    *)
(* saw last, so an interrupt that comes late sees several edges as one     *)
(* change, or none at all.                                                 *)
(*                                                                         *)
(* The reader sends words of Meaning's domain and pauses between two bits  *)
(* for less, between two words for more than WORD_TIMEOUT.  Each deviation *)
(* from this is one of at most MaxTrouble.                                 *)
(***************************************************************************)
EXTENDS Integers, Sequences, FiniteSets

CONSTANTS
  Meaning,    \* a function from the words to the event each stands for
  BitsSize,   \* 40: the bits that fit into wr->bits
  MaxWords,   \* bound: words sent
  MaxTrouble  \* bound: late interrupts, short or long pauses, lost contacts

ASSUME WiegandAssumption ==
  /\ BitsSize \in Nat /\ BitsSize >= 26
  /\ MaxWords \in Nat /\ MaxTrouble \in Nat
  /\ \A w \in DOMAIN Meaning : w \in Seq({0, 1}) /\ Len(w) < 256

VARIABLES
  pins,    \* the two lines, 1 is high
  latched, \* the pin change interrupt is pending
  wr,      \* data_pins, num_bits, bits, and whether word_timeout is pending
  heard,   \* history: the events reported since the word began
  word,    \* the word being sent
  edge,    \* how many of its edges are sent, two per bit
  begun,   \* history: the words that were sent, in part at least
  undisturbed, \* history: nothing went wrong since the word began
  trouble  \* history: how often something went wrong

wrVars == <<pins, latched, wr, heard, word, edge, begun, undisturbed, trouble>>

Lines == {0, 1}
High == [l \in Lines |-> 1]
Low == [l \in Lines |-> 0]
Bits(n) == [i \in 0 .. BitsSize - 1 |-> n]

(* wiegand_reader_init: data_pins, like the state that the interrupt       *)
(* handler keeps, is read from the lines.                                  *)
WrInit ==
  /\ pins = High /\ latched = FALSE
  /\ wr = [data |-> High, num |-> 0, bits |-> Bits(0), timer |-> FALSE]
  /\ heard = << >> /\ word = << >> /\ edge = 0
  /\ begun = {} /\ undisturbed = TRUE /\ trouble = 0

AllSent == edge = 2 * Len(word)

Trouble == trouble < MaxTrouble /\ trouble' = trouble + 1 /\ undisturbed' = FALSE
NoTrouble == UNCHANGED <<trouble, undisturbed>>

-----------------------------------------------------------------------------
(* wiegand_reader_data_pin_changed: the reader's record after it, and the  *)
(* event it reports, if any.  A bit is set when its pulse begins and       *)
(* counted when it ends.                                                   *)
WithBit(r, value) ==
  IF r.num < BitsSize THEN [r EXCEPT !.bits[r.num] = value] ELSE r

PinChanged(r, line, level) ==
  LET data == [r.data EXCEPT ![line] = level]
      now  == [r EXCEPT !.data = data]
  IN CASE data = Low -> [now EXCEPT !.num = 0, !.timer = FALSE]
       [] data = High -> [now EXCEPT !.num = (@ + 1) % 256, !.timer = TRUE]
       [] data[0] = 1 /\ data[1] = 0 -> WithBit(now, 1)
       [] data[0] = 0 /\ data[1] = 1 -> WithBit(now, 0)

NoReader(r, line, level) ==
  IF [r.data EXCEPT ![line] = level] = Low
  THEN <<[kind |-> "ERROR", value |-> 0]>> ELSE << >>

(* external_irq_pc_handler: one pin after the other, those that changed.   *)
Handler(levels) ==
  LET first == IF levels[0] = wr.data[0] THEN wr ELSE PinChanged(wr, 0, levels[0])
      told0 == IF levels[0] = wr.data[0] THEN << >> ELSE NoReader(wr, 0, levels[0])
      told1 == IF levels[1] = wr.data[1] THEN << >> ELSE NoReader(first, 1, levels[1])
  IN /\ wr' = IF levels[1] = wr.data[1] THEN first ELSE PinChanged(first, 1, levels[1])
     /\ heard' = heard \o told0 \o told1

(* The lines change: the interrupt is served at once, or late. *)
LinesChange(levels) ==
  /\ pins' = levels
  /\ Handler(levels) /\ latched' = FALSE

LinesChangeUnserved(levels) ==
  /\ pins' = levels
  /\ latched' = TRUE
  /\ UNCHANGED <<wr, heard>>

ReaderPulse == [pins EXCEPT ![word[(edge \div 2) + 1]] = edge % 2]

ReaderEdge ==
  /\ ~AllSent
  /\ edge' = edge + 1
  /\ \/ LinesChange(ReaderPulse) /\ NoTrouble
     \/ LinesChangeUnserved(ReaderPulse) /\ Trouble
  /\ UNCHANGED <<word, begun>>

ServedLate ==
  /\ latched
  /\ Handler(pins) /\ latched' = FALSE
  /\ UNCHANGED <<pins, word, edge, begun>> /\ NoTrouble

(* The reader is unplugged, which takes both lines down, and plugged in.   *)
Unplug ==
  /\ pins # Low /\ Trouble
  /\ LinesChange(Low)
  /\ word' = << >> /\ edge' = 0
  /\ UNCHANGED begun

PlugIn ==
  /\ pins = Low
  /\ LinesChange(High)
  /\ UNCHANGED <<word, edge, begun>> /\ NoTrouble

NextWord(w) ==
  /\ AllSent /\ pins = High /\ Cardinality(begun) < MaxWords /\ w \notin begun
  /\ word' = w /\ edge' = 0 /\ begun' = begun \cup {w} /\ heard' = << >>
  /\ IF wr.timer \/ latched
     THEN Trouble ELSE undisturbed' = TRUE /\ UNCHANGED trouble
  /\ UNCHANGED <<pins, latched, wr>>

-----------------------------------------------------------------------------
(* The decoding of the bits: the parity of a range, and its number with    *)
(* the first bit as the highest.                                           *)
Parity(bits, from, to) == Cardinality({i \in from .. to : bits[i] = 1}) % 2

Number(bits, from, to) ==
  LET n[k \in 0 .. to - from + 1] ==
        IF k = 0 THEN 0 ELSE 2 * n[k - 1] + bits[from + k - 1]
  IN n[to - from + 1]

Bad == [kind |-> "ERROR", value |-> 1]

(* wiegand_reader_process_4bits_code *)
Code4(bits) ==
  IF Number(bits, 0, 3) > 11 THEN Bad ELSE [kind |-> "KEY", value |-> Number(bits, 0, 3)]

(* wiegand_reader_process_8bits_code: the second half should be the        *)
(* complement of the first, but ~(x >> 4) is an int below 0 and (x & 0xF)  *)
(* is not: they are never equal.                                           *)
LowHalf(bits) == bits[0] + 2 * bits[1] + 4 * bits[2] + 8 * bits[3]
HighHalf(bits) == bits[4] + 2 * bits[5] + 4 * bits[6] + 8 * bits[7]
Code8(bits) == IF LowHalf(bits) # -HighHalf(bits) - 1 THEN Bad ELSE Code4(bits)

(* Mutant: the even and the odd parity are swapped.                        *)
Code26_ParitySwapped(bits) ==
  IF 1 - Parity(bits, 1, 12) # bits[0] \/ Parity(bits, 13, 24) # bits[25]
  THEN Bad ELSE [kind |-> "CARD", value |-> Number(bits, 1, 24)]

(* wiegand_reader_process_26bits_code *)
Code26(bits) ==
  IF Parity(bits, 1, 12) # bits[0] \/ 1 - Parity(bits, 13, 24) # bits[25]
  THEN Bad ELSE [kind |-> "CARD", value |-> Number(bits, 1, 24)]

(* wiegand_reader_on_word_timeout *)
Decode(bits, num) ==
  CASE num = 4 -> Code4(bits) [] num = 8 -> Code8(bits) [] num = 26 -> Code26(bits)
    [] OTHER -> Bad

Decoded == Decode(wr.bits, wr.num)

(* Mutant: the bits of a word that means nothing are kept.                 *)
WordTimeout_BitsKept ==
  /\ wr.timer
  /\ IF AllSent /\ ~latched THEN NoTrouble ELSE Trouble
  /\ heard' = Append(heard, Decoded)
  /\ wr' = [wr EXCEPT !.num = IF Decoded = Bad THEN @ ELSE 0, !.timer = FALSE]
  /\ UNCHANGED <<pins, latched, word, edge, begun>>

WordTimeout ==
  /\ wr.timer
  /\ IF AllSent /\ ~latched THEN NoTrouble ELSE Trouble
  /\ heard' = Append(heard, Decoded)
  /\ wr' = [wr EXCEPT !.num = 0, !.timer = FALSE]
  /\ UNCHANGED <<pins, latched, word, edge, begun>>

WrNext ==
  \/ ReaderEdge \/ ServedLate \/ Unplug \/ PlugIn
  \/ \E w \in DOMAIN Meaning : NextWord(w)
  \/ WordTimeout

(* The timer expires and a pending interrupt is served; a reader that      *)
(* began a word goes on with it.                                           *)
WrFairness ==
  WF_wrVars(WordTimeout) /\ WF_wrVars(ServedLate) /\ WF_wrVars(ReaderEdge)

WrSpec == WrInit /\ [][WrNext]_wrVars /\ WrFairness

-----------------------------------------------------------------------------
(* No card is reported that was not held to the reader, whichever edge the *)
(* interrupt misses and wherever the word timeout strikes: the bits of a   *)
(* broken word and of the next do not add up to a card                     *)
(* (wiegand_reader_on_word_timeout).  This is for one trouble: after two,  *)
(* a word split after a few bits and one that follows too soon, they may.  *)
CardsAreSent ==
  \A i \in DOMAIN heard :
    heard[i].kind = "CARD" => heard[i] \in {Meaning[w] : w \in begun}

(* A word that was sent without trouble is reported, once and right, also  *)
(* after trouble with the words before it: the event is handed to          *)
(* work_queue_schedule (wiegand_reader_event), which may have no room for  *)
(* it.  Words of eight bits have a property of their own.                  *)
WordIsHeard ==
  /\ [](undisturbed /\ word # << >> /\ Len(word) # 8 => heard \in {<< >>, <<Meaning[word]>>})
  /\ (undisturbed /\ word # << >> /\ Len(word) # 8 /\ AllSent)
       ~> (~undisturbed \/ word = << >> \/ heard = <<Meaning[word]>>)

(* A key that comes as eight bits, with its complement behind it, is       *)
(* reported as that key (wiegand_reader_process_8bits_code: "Check the     *)
(* data validity", and then the decoding of the key).                      *)
KeyFrameIsHeard ==
  undisturbed /\ word # << >> /\ Len(word) = 8 => heard \in {<< >>, <<Meaning[word]>>}

=============================================================================
