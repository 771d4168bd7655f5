------------------------------ MODULE UartLink ------------------------------
(***************************************************************************)
(* The serial line at the controller: the bytes of a message as the UART   *)
(* brings them (uart-ctrl-transport.c, uart.c), the command the message is *)
(* taken for (ctrl-cmd.c) and the reply.  One state, one position and one  *)
(* message buffer serve what comes in, its handler and what goes out.  At  *)
(* the other end is a peer that sends a message when the last one is       *)
(* delivered, whether it was answered or not.                              *)
(*                                                                         *)
(* Writing outbuf takes less than a byte on the line takes: that the event *)
(* of the boot is written is one step, between two bytes that come in.     *)
(***************************************************************************)
EXTENDS Integers, Sequences, SequencesExt

CONSTANTS
  START, ESC,
  Flip(_),       \* ^ 0x20, on the bytes of the model
  CrcUpdate(_, _),
  Half,          \* 256: a byte is below, the checksum is two bytes
  PayloadSize,   \* 20: the bytes of msg.payload
  OutSize,       \* the bytes of outbuf
  Commands,      \* ctrl_cmd_desc: the length for each type there is
  OK, ERROR, STARTED, \* the types of what the controller sends
  Answers,       \* the payloads of the replies of the handlers
  Asked,         \* the messages of the peer, [type, payload]
  Damages,       \* what a damaged byte turns into, and what noise is
  UlMaxSends,    \* bound: messages the peer sends
  UlMaxFaults    \* bound: bytes lost, damaged or made of noise

Byte == 0 .. Half - 1
Crc == 0 .. Half * Half - 1

ASSUME UartLinkAssumption ==
  /\ Half \in Nat \ {0}
  /\ PayloadSize \in Nat /\ PayloadSize < Half /\ OutSize \in Nat
  /\ UlMaxSends \in Nat /\ UlMaxFaults \in Nat
  /\ START # ESC
  /\ \A b \in {START, ESC} : Flip(Flip(b)) = b /\ Flip(b) \notin {START, ESC}
  /\ \A c \in Crc, b \in Byte : CrcUpdate(c, b) \in Crc
  /\ STARTED \in Byte
  /\ Asked \subseteq [type : Byte, payload : Seq(Byte)]
  /\ \A m \in Asked : Len(m.payload) <= PayloadSize

VARIABLES
  ctrl,    \* ctrl_transport but for outbuf
  out,     \* what the UART sends from outbuf, and
  txPos,   \* how much of it is sent
  answer,  \* the reply that waits in sleep_while, or NoMessage
  work,    \* the message is scheduled for on_ctrl_transport_event
  dropped, \* history: the run queue was full when a message came
  booted,  \* the event is written, the work queue runs
  line,    \* the bytes under way to the controller
  sends,   \* history: the messages the peer sent
  ran,     \* history: the message handled since the peer last sent one
  owed,    \* history: replies due
  clean,   \* history: the last message found the controller listening, and
           \* nothing went wrong since
  mixed,   \* history: the event moved the position inside the payload, or
           \* from the checksum into it, and no message was heard since
  ulFaults \* history: how many faults there were

sendVars == <<out, txPos, answer>>
peerVars == <<line, sends, clean, ulFaults>>
ulVars == <<ctrl, work, dropped, booted, mixed, ran, owed, sendVars, peerVars>>

Message(type, payload) == [type |-> type, payload |-> payload]
NoMessage == Message(-1, << >>)
Refusal == Message(ERROR, <<1>>)
Started == Message(STARTED, << >>)
Replies == {Message(OK, p) : p \in Answers}

UlInit ==
  /\ ctrl = [state |-> "SYNC", escape |-> FALSE, sending |-> FALSE, pos |-> 0,
             crc |-> 0, got |-> <<0, 0>>, type |-> 0, length |-> 0,
             payload |-> [i \in 0 .. PayloadSize - 1 |-> 0]]
  /\ out = << >> /\ txPos = 0 /\ answer = NoMessage
  /\ work = FALSE /\ dropped = FALSE /\ booted = FALSE
  /\ line = << >> /\ sends = << >> /\ ran = NoMessage /\ owed = 0
  /\ clean = FALSE /\ mixed = FALSE /\ ulFaults = 0

(* A message on the line, as ctrl_transport_write and the peer encode it.  *)
Escaped(byte) == IF byte \in {START, ESC} THEN <<ESC, Flip(byte)>> ELSE <<byte>>

Covered(m) == <<m.type, Len(m.payload)>> \o m.payload

(* The checksum after each of the bytes. *)
CrcOf(bytes) ==
  LET crc[k \in 0 .. Len(bytes)] ==
        IF k = 0 THEN 0 ELSE CrcUpdate(crc[k - 1], bytes[k])
  IN crc

Bytes(m) ==
  LET crc == CrcOf(Covered(m))[Len(Covered(m))]
  IN Covered(m) \o <<crc % Half, crc \div Half>>

(* What the last k of the bytes are on the line, for each k. *)
OnLine(bytes) ==
  LET end[k \in 0 .. Len(bytes)] ==
        IF k = 0 THEN << >>
        ELSE Escaped(bytes[Len(bytes) - k + 1]) \o end[k - 1]
  IN end

Encode(m) == <<START>> \o OnLine(Bytes(m))[Len(Bytes(m))]

Encoded == [m \in Asked \cup Replies \cup {Refusal, Started} |-> Encode(m)]

Deaf == ctrl.state \in {"WAIT_FOR_REPLY", "SEND_REPLY"}

-----------------------------------------------------------------------------
(* Mutant: a start byte in the middle of an escape does not end it.        *)
Restarted_EscapeKept ==
  [ctrl EXCEPT !.state = "RECV_TYPE", !.pos = 0, !.crc = 0]

(* uart_ctrl_transport_on_recv, by the state it finds.                     *)
Restarted ==
  [ctrl EXCEPT !.state = "RECV_TYPE", !.pos = 0, !.escape = FALSE, !.crc = 0]

(* The parts of a message: what the byte, unescaped, does to them.         *)
RecvHeader(byte) ==
  LET c == [ctrl EXCEPT !.escape = FALSE, !.crc = CrcUpdate(@, byte)]
  IN IF c.state = "RECV_TYPE"
     THEN [c EXCEPT !.type = byte, !.state = "RECV_LENGTH"]
     ELSE [c EXCEPT !.length = byte, !.pos = 0,
                    !.state = IF byte > 0 THEN "RECV_PAYLOAD" ELSE "RECV_CRC"]

RecvPayload(byte) ==
  LET fits == ctrl.pos < PayloadSize
      pos  == IF fits THEN ctrl.pos + 1 ELSE ctrl.pos
      c    == [ctrl EXCEPT !.escape = FALSE, !.crc = CrcUpdate(@, byte),
                 !.payload = IF fits THEN [@ EXCEPT ![ctrl.pos] = byte] ELSE @]
  IN IF pos >= ctrl.length THEN [c EXCEPT !.state = "RECV_CRC", !.pos = 0]
     ELSE [c EXCEPT !.pos = pos]

(* msg_crc is before msg.type, msg.length and msg.payload: a byte of the   *)
(* checksum that the position puts behind it falls into the payload.       *)
RecvCrc(byte) ==
  [ctrl EXCEPT !.escape = FALSE, !.pos = @ + 1,
     !.got = IF ctrl.pos < 2 THEN [@ EXCEPT ![ctrl.pos + 1] = byte] ELSE @,
     !.payload = IF ctrl.pos - 4 \in DOMAIN @ THEN [@ EXCEPT ![ctrl.pos - 4] = byte]
                 ELSE @]

CrcReceived(c) == c.got[1] + c.got[2] * Half

(* work_queue_schedule: when its queue, which the readers and the door     *)
(* fill too, has no room, the message is dropped.  No work is scheduled    *)
(* then, and nothing looks at the result: nobody will reply.               *)
HandedOver ==
  \/ work' = TRUE /\ UNCHANGED dropped
  \/ dropped' = TRUE /\ UNCHANGED work

(* Mutant: the checksum is not compared.                                   *)
Check_NoCrc(c) ==
  /\ ctrl' = [c EXCEPT !.state = "WAIT_FOR_REPLY"]
  /\ owed' = owed + 1
  /\ IF c.length > PayloadSize
     THEN answer' = Refusal /\ UNCHANGED <<work, dropped>>
     ELSE HandedOver /\ UNCHANGED answer

(* The message is complete: it is refused, or handed to the work queue.    *)
Check(c) ==
  /\ ctrl' = [c EXCEPT !.state = "WAIT_FOR_REPLY"]
  /\ owed' = owed + 1
  /\ IF c.length > PayloadSize \/ c.crc # CrcReceived(c)
     THEN answer' = Refusal /\ UNCHANGED <<work, dropped>>
     ELSE HandedOver /\ UNCHANGED answer

Takes(byte) ==
  CASE ctrl.state \in {"RECV_TYPE", "RECV_LENGTH"} ->
         ctrl' = RecvHeader(byte) /\ UNCHANGED <<answer, work, dropped, owed>>
    [] ctrl.state = "RECV_PAYLOAD" ->
         ctrl' = RecvPayload(byte) /\ UNCHANGED <<answer, work, dropped, owed>>
    [] ctrl.state = "RECV_CRC" ->
         IF ctrl.pos + 1 < 2
         THEN ctrl' = RecvCrc(byte) /\ UNCHANGED <<answer, work, dropped, owed>>
         ELSE Check(RecvCrc(byte))

Ignored == UNCHANGED <<ctrl, answer, work, dropped, owed>>
Escapes == ctrl' = [ctrl EXCEPT !.escape = TRUE] /\ UNCHANGED <<answer, work, dropped, owed>>

Heard(byte) ==
  \/ byte = START /\ ctrl' = Restarted /\ UNCHANGED <<answer, work, dropped, owed>>
  \/ byte # START /\ ctrl.state = "SYNC" /\ Ignored
  \/ /\ byte # START /\ ctrl.state # "SYNC"
     /\ \/ ctrl.escape /\ Takes(Flip(byte))
        \/ ~ctrl.escape /\ byte = ESC /\ Escapes
        \/ ~ctrl.escape /\ byte # ESC /\ Takes(byte)

OnRecv(byte) ==
  /\ UNCHANGED <<out, txPos, booted, mixed, ran, sends>>
  /\ (Deaf /\ Ignored) \/ (~Deaf /\ Heard(byte))

-----------------------------------------------------------------------------
(* The peer sends, and the line delivers, loses or damages a byte.         *)
PeerSends(m) ==
  /\ line = << >> /\ Len(sends) < UlMaxSends
  /\ line' = Encoded[m]
  /\ sends' = Append(sends, m)
  /\ ran' = NoMessage
  /\ clean' = ~Deaf
  /\ mixed' = (mixed /\ Deaf)
  /\ UNCHANGED <<ctrl, work, dropped, booted, owed, sendVars, ulFaults>>

Deliver ==
  /\ line # << >>
  /\ line' = Tail(line)
  /\ OnRecv(Head(line))
  /\ UNCHANGED <<clean, ulFaults>>

UlFault ==
  /\ ulFaults < UlMaxFaults /\ ulFaults' = ulFaults + 1
  /\ clean' = FALSE

Lost ==
  /\ UlFault
  /\ line # << >> /\ line' = Tail(line)
  /\ UNCHANGED <<ctrl, work, dropped, booted, mixed, ran, owed, sendVars, sends>>

Damaged(byte) ==
  /\ UlFault
  /\ line' = IF line = << >> THEN line ELSE Tail(line)
  /\ OnRecv(byte)

-----------------------------------------------------------------------------
(* on_ctrl_transport_received_msg: the handler of the command fails or has *)
(* a reply; what is not in the table, or has not its length, is refused.   *)
Received == Message(ctrl.type, [i \in 1 .. ctrl.length |-> ctrl.payload[i - 1]])

Run ==
  /\ work /\ booted
  /\ work' = FALSE
  /\ ran' = Received
  /\ answer' \in {Refusal} \cup
       IF ctrl.type \in DOMAIN Commands /\ Commands[ctrl.type] = ctrl.length
       THEN Replies ELSE {}
  /\ UNCHANGED <<ctrl, dropped, booted, mixed, owed, out, txPos, peerVars>>

(* ctrl_transport_write with uart_send, for a message that fits. *)
Send(m, state) ==
  /\ out' = Encoded[m] /\ txPos' = 0
  /\ ctrl' = [ctrl EXCEPT !.state = state, !.sending = TRUE, !.pos = Len(Encoded[m])]

(* Mutant: a reply does not wait for what is being sent.                   *)
Reply_NoWait ==
  /\ answer # NoMessage
  /\ IF Len(Encoded[answer]) <= OutSize
     THEN Send(answer, "SEND_REPLY") /\ answer' = NoMessage
     ELSE /\ answer' = Refusal
          /\ ctrl' = [ctrl EXCEPT !.pos = OutSize]
          /\ UNCHANGED <<out, txPos>>
  /\ UNCHANGED <<work, dropped, booted, mixed, ran, owed, peerVars>>

(* Mutant: a reply that does not fit is dropped.                           *)
Reply_TooLongDropped ==
  /\ answer # NoMessage /\ ~ctrl.sending
  /\ answer' = NoMessage
  /\ IF Len(Encoded[answer]) <= OutSize
     THEN Send(answer, "SEND_REPLY")
     ELSE /\ ctrl' = [ctrl EXCEPT !.pos = OutSize]
          /\ UNCHANGED <<out, txPos>>
  /\ UNCHANGED <<work, dropped, booted, mixed, ran, owed, peerVars>>

(* ctrl_transport_reply: in the receive interrupt for a message that is    *)
(* refused, else in the handler.  When the reply is too long for outbuf,   *)
(* the handler fails with that and an error is the reply.                  *)
Reply ==
  /\ answer # NoMessage /\ ~ctrl.sending
  /\ IF Len(Encoded[answer]) <= OutSize
     THEN Send(answer, "SEND_REPLY") /\ answer' = NoMessage
     ELSE /\ answer' = Refusal
          /\ ctrl' = [ctrl EXCEPT !.pos = OutSize]
          /\ UNCHANGED <<out, txPos>>
  /\ UNCHANGED <<work, dropped, booted, mixed, ran, owed, peerVars>>

(* main: ctrl_send_event once, and then the work queue.  It does not get   *)
(* to run while the receive interrupt waits with a reply.  The position it *)
(* leaves is where a message that is coming in goes on.                    *)
Boot ==
  /\ ~booted /\ ~ctrl.sending /\ answer = NoMessage
  /\ booted' = TRUE
  /\ clean' = FALSE
  /\ mixed' = \/ ctrl.state = "RECV_PAYLOAD"
              \/ ctrl.state = "RECV_CRC" /\ Len(Encoded[Started]) - 4 \in 0 .. ctrl.length - 1
  /\ Send(Started, ctrl.state)
  /\ UNCHANGED <<answer, work, dropped, ran, owed, line, sends, ulFaults>>

(* USART_UDRE_vect: the next byte, and with the last one                   *)
(* uart_ctrl_transport_on_sent.                                            *)
TxReady ==
  /\ txPos < Len(out)
  /\ txPos' = txPos + 1
  /\ IF txPos' < Len(out) THEN UNCHANGED <<ctrl, owed>>
     ELSE /\ ctrl' = [ctrl EXCEPT !.sending = FALSE,
                        !.state = IF @ = "SEND_REPLY" THEN "SYNC" ELSE @]
          /\ owed' = IF ctrl.state = "SEND_REPLY" THEN owed - 1 ELSE owed
  /\ UNCHANGED <<work, dropped, booted, mixed, ran, out, answer, peerVars>>

UlNext ==
  \/ \E m \in Asked : PeerSends(m)
  \/ Deliver \/ Lost \/ \E b \in Damages : Damaged(b)
  \/ Run \/ Reply \/ Boot \/ TxReady

(* The interrupts are served and the worker runs.                          *)
UlFairness ==
  WF_ulVars(Run) /\ WF_ulVars(Reply) /\ WF_ulVars(Boot) /\ WF_ulVars(TxReady)

UlSpec == UlInit /\ [][UlNext]_ulVars /\ UlFairness

-----------------------------------------------------------------------------
(* No command runs that the peer did not send, as it sent it: a message    *)
(* with a lost or damaged byte, two that run together, or one that came    *)
(* while another one was answered, is none (uart_ctrl_transport_on_recv).  *)
(* Only the event of the boot, written when a payload or the checksum      *)
(* behind it comes in, breaks this, for that message: it moves the         *)
(* position, which the checksum does not cover.                            *)
CommandsAreSent ==
  ran # NoMessage /\ ~mixed => \E i \in DOMAIN sends : ran = sends[i]

(* A message is heard that finds the controller listening and is not       *)
(* disturbed, whatever came before: a piece of a message, an escape, a     *)
(* length that no message can have (uart_ctrl_transport_on_recv).  Only a  *)
(* full run queue keeps it from its handler.                               *)
NextIsHeard == clean /\ line = << >> => work \/ ran = Last(sends) \/ dropped

(* No message is answered twice, a reply is due exactly while the          *)
(* controller is deaf, and what is being sent is not overwritten           *)
(* (ctrl_transport_reply, ctrl_transport_send_event).                      *)
OneReply ==
  [][/\ owed' = IF Deaf' THEN 1 ELSE 0
     /\ (txPos > 0 /\ txPos < Len(out)) => (out' = out)]_ulVars

(* The controller does not stay deaf, unless the run queue was full when a *)
(* message came: it waits for the reply to that one for good               *)
(* (uart_ctrl_transport_on_recv, ctrl_transport_reply, on_sent).           *)
ListensAgain == Deaf ~> ~Deaf \/ dropped

=============================================================================
