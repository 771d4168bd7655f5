------------------------------- MODULE Daemon -------------------------------
(***************************************************************************)
(* The daemon that offers one controller on the bus: the queue of requests *)
(* and the ping (avr-door-controller-daemon.c), the framing on the serial  *)
(* line (avr-door-controller-uart-transport.c) and the deferred method     *)
(* calls (avr-door-controller-methods.c).  All of it runs in one thread,   *)
(* as callbacks of uloop.                                                  *)
(*                                                                         *)
(* A query or an answer is a message [kind, of, page]: of is the request   *)
(* it belongs to, which the program does not know, for the messages carry  *)
(* no identification.  A query is encoded in Parts that the tty may take   *)
(* one at a time; an answer arrives as its start byte and the rest.  The   *)
(* requests of Lists are answered in pages, 0 to LastPage, and ask for the *)
(* next page when they got one; the other requests need no data in their   *)
(* answer.  The controller takes one query at a time and is deaf until it  *)
(* has answered it.                                                        *)
(***************************************************************************)
EXTENDS Naturals, Sequences, SequencesExt, RunQueue

CONSTANTS
  Requests,   \* the method calls of a behaviour
  Lists,      \* those that are answered in pages
  PING, NULL,
  LastPage,
  Parts,      \* of an encoded query
  MaxLine,    \* bound: queries, and answers, on the line
  MaxFaults   \* bound: faults of the line, the tty and the controller

ASSUME DaemonAssumption ==
  /\ Lists \subseteq Requests
  /\ PING \notin Requests /\ NULL \notin Requests \cup {PING}
  /\ LastPage \in Nat /\ Parts \in Nat \ {0}
  /\ MaxLine \in Nat /\ MaxFaults \in Nat

VARIABLES
  req,       \* ctrl->req
  pending,   \* ctrl->pending_reqs
  page,      \* the page the query of req asks for
  write,     \* ULOOP_WRITE is set in ctrl->fd.flags
  events,    \* the WRITE half of the event callback is still to run
  timers,    \* the requests whose timeout is set
  pingTimer, \* ctrl->ping_timeout is set
  outBuf,    \* send_buffer: its message and the parts not yet written
  inBuf,     \* recv_buffer, from recv_buffer_pos on
  synced,    \* recv_state # SYNC: a start byte was seen
  outcome,   \* what the client of each call knows
  toCtrl,    \* the queries on the line
  toDaemon,  \* the answers on the line and in the tty, as start and rest
  ctrl,      \* the controller: its mode and the query it works on
  givenUp,   \* history: requests completed by something else than their answer
  faults     \* history: how many faults there were

daemonVars == <<req, pending, page, write, events, timers, pingTimer, outBuf,
                inBuf, synced, outcome>>
lineVars == <<toCtrl, toDaemon, ctrl, faults>>
vars == <<daemonVars, lineVars, givenUp>>

Message(kind, r, p) == [kind |-> kind, of |-> r, page |-> p]
Start == Message("start", NULL, 0)
NoQuery == Message("query", NULL, 0)

Init ==
  /\ req = NULL /\ pending = << >> /\ page = 0
  /\ write = FALSE /\ events = FALSE /\ timers = {} /\ pingTimer = TRUE
  /\ outBuf = [msg |-> NoQuery, left |-> 0]
  /\ inBuf = << >> /\ synced = FALSE
  /\ outcome = [r \in Requests |-> "unmade"]
  /\ toCtrl = << >> /\ toDaemon = << >>
  /\ ctrl = [mode |-> "idle", query |-> NoQuery]
  /\ givenUp = {} /\ faults = 0

Fault == faults < MaxFaults /\ faults' = faults + 1

-----------------------------------------------------------------------------
(* avr_door_ctrl_send_next_request, with what is in the list.  writing is  *)
(* ULOOP_WRITE as the caller leaves it.                                    *)
SendNextRequest(queue, writing) ==
  /\ page' = 0
  /\ pingTimer' = (queue = << >>)
  /\ write' = (writing \/ queue # << >>)
  /\ IF queue = << >>
     THEN req' = NULL /\ pending' = << >>
     ELSE req' = Head(queue) /\ pending' = Tail(queue)

(* Mutant: a request is sent at once, also when another one is current.    *)
RequestSend_NoWait(r, ping) == SendNextRequest(Append(pending, r), write)

(* avr_door_ctrl_request_send *)
RequestSend(r, ping) ==
  IF req = NULL
  THEN SendNextRequest(Append(pending, r), write)
  ELSE /\ pending' = Append(pending, r)
       /\ pingTimer' = ping
       /\ UNCHANGED <<req, page, write>>

(* Mutant: the timeout of a completed request is not cancelled.            *)
CompleteRequest_TimerKept(r, result, own, writing) ==
  /\ timers' = timers
  /\ outcome' = IF r \in Requests THEN [outcome EXCEPT ![r] = result] ELSE outcome
  /\ ctrl' = IF r = PING /\ result = "failed"
             THEN [mode |-> "booting", query |-> NoQuery] ELSE ctrl
  /\ givenUp' = IF own THEN givenUp ELSE givenUp \cup {r}
  /\ SendNextRequest(pending, writing)

(* Mutant: a ping that fails is only logged.                               *)
CompleteRequest_NoReset(r, result, own, writing) ==
  /\ timers' = timers \ {r}
  /\ outcome' = IF r \in Requests THEN [outcome EXCEPT ![r] = result] ELSE outcome
  /\ ctrl' = ctrl
  /\ givenUp' = IF own THEN givenUp ELSE givenUp \cup {r}
  /\ SendNextRequest(pending, writing)

(* avr_door_ctrl_complete_request with the handlers of r: a method call    *)
(* completes the deferred ubus request, a failed ping resets the           *)
(* controller by the DTR line of the tty.                                  *)
CompleteRequest(r, result, own, writing) ==
  /\ timers' = timers \ {r}
  /\ outcome' = IF r \in Requests THEN [outcome EXCEPT ![r] = result] ELSE outcome
  /\ ctrl' = IF r = PING /\ result = "failed"
             THEN [mode |-> "booting", query |-> NoQuery] ELSE ctrl
  /\ givenUp' = IF own THEN givenUp ELSE givenUp \cup {r}
  /\ SendNextRequest(pending, writing)

(* avr_door_ctrl_method_handler: the arguments are right, the request is   *)
(* deferred.                                                               *)
MethodCall(r) ==
  /\ ~events
  /\ outcome[r] = "unmade"
  /\ outcome' = [outcome EXCEPT ![r] = "waiting"]
  /\ RequestSend(r, pingTimer)
  /\ UNCHANGED <<events, timers, outBuf, inBuf, synced, givenUp, lineVars>>

(* avr_door_ctrl_on_request_timeout.  An answer that is still to come is   *)
(* a fault of the controller: it took more than the 500 ms.                *)
OnRequestTimeout(r) ==
  /\ ~events
  /\ r \in timers
  /\ IF toDaemon # << >> \/ ctrl.mode = "busy" \/ toCtrl # << >>
     THEN Fault ELSE UNCHANGED faults
  /\ CompleteRequest(r, "failed", FALSE, write)
  /\ UNCHANGED <<events, outBuf, inBuf, synced, toCtrl, toDaemon>>

(* Mutant: the ping request could not be allocated, and is not tried again. *)
OnPingTimeout_NoMemory ==
  /\ ~events
  /\ toCtrl = << >> /\ toDaemon = << >> /\ ctrl.mode \notin {"busy", "booting"}
  /\ pingTimer
  /\ pingTimer' = FALSE
  /\ UNCHANGED <<req, pending, page, write, events, timers, outBuf, inBuf, synced,
                 outcome, givenUp, lineVars>>

(* avr_door_ctrl_on_ping_timeout.  It takes 5 s: by then the line is quiet *)
(* and a command, or a boot, is over.                                      *)
OnPingTimeout ==
  /\ ~events
  /\ toCtrl = << >> /\ toDaemon = << >> /\ ctrl.mode \notin {"busy", "booting"}
  /\ pingTimer
  /\ RequestSend(PING, FALSE)
  /\ UNCHANGED <<events, timers, outBuf, inBuf, synced, outcome, givenUp, lineVars>>

-----------------------------------------------------------------------------
(* uart_ctrl_transport_recv_byte for the start of a message or the rest of *)
(* one: whether a start was seen, after the tokens that came in.           *)
SyncedAfter(tokens) ==
  IF tokens = << >> THEN synced ELSE Last(tokens).kind = "start"

(* The tokens at which uart_ctrl_transport_recv returns to its caller: the *)
(* rest of a message, or a start where the rest should be.                 *)
Returning(tokens) ==
  {i \in DOMAIN tokens : SyncedAfter(SubSeq(tokens, 1, i - 1))}

(* The callbacks of a request that is there, and nothing if there is none. *)
Untouched ==
  UNCHANGED <<req, pending, page, write, timers, pingTimer, outcome, ctrl, givenUp>>

IsOwn(m) == m.of = req /\ m.page = page

(* avr_door_ctrl_method_on_response: a list refuses an answer that is too  *)
(* short to be a page.                                                     *)
TooShort(m) == req \in Lists /\ m.of \notin Lists

(* avr_door_ctrl_method_continue: the next page is asked for, the request  *)
(* stays the current one.                                                  *)
NextPage(m) ==
  /\ timers' = timers \ {req}
  /\ page' = m.page + 1
  /\ write' = TRUE
  /\ givenUp' = IF IsOwn(m) THEN givenUp ELSE givenUp \cup {req}
  /\ UNCHANGED <<req, pending, pingTimer, outcome, ctrl>>

(* Mutant: an answer that is too short cancels the timeout and is dropped. *)
RecvMsg_ShortDropped(m) ==
  CASE req = NULL -> Untouched
    [] req # NULL /\ TooShort(m) ->
         /\ timers' = timers \ {req}
         /\ UNCHANGED <<req, pending, page, write, pingTimer, outcome, ctrl, givenUp>>
    [] req # NULL /\ ~TooShort(m) /\ m.kind # "ok" ->
         CompleteRequest(req, "failed", IsOwn(m) /\ m.kind # "started", write)
    [] req # NULL /\ m.kind = "ok" /\ ~TooShort(m) ->
         IF req \in Lists /\ m.page < LastPage
         THEN NextPage(m) ELSE CompleteRequest(req, "ok", IsOwn(m), write)

(* avr_door_ctrl_recv_msg: any message but OK fails the request.           *)
RecvMsg(m) ==
  CASE req = NULL -> Untouched
    [] req # NULL /\ (m.kind # "ok" \/ TooShort(m)) ->
         CompleteRequest(req, "failed", IsOwn(m) /\ m.kind # "started", write)
    [] req # NULL /\ m.kind = "ok" /\ ~TooShort(m) ->
         IF req \in Lists /\ m.page < LastPage
         THEN NextPage(m) ELSE CompleteRequest(req, "ok", IsOwn(m), write)

(* A message with a bad CRC terminates the request. *)
RecvBadMsg ==
  IF req = NULL THEN Untouched ELSE CompleteRequest(req, "failed", FALSE, write)

(* The READ half of avr_door_ctrl_on_transport_event: the kernel has bytes *)
(* for the daemon, the buffer is refilled only when it is used up, and one *)
(* message is taken at most.  What is left in the buffer waits for the     *)
(* next event.  A start in the middle of a message is only logged.         *)
OnReadEvent(also) ==
  /\ ~events
  /\ toDaemon # << >>
  /\ also => write
  /\ events' = also
  /\ \E n \in IF inBuf = << >> THEN 1 .. Len(toDaemon) ELSE {0} :
       LET buf  == inBuf \o SubSeq(toDaemon, 1, n)
           hits == Returning(buf)
           used == IF hits = {} THEN Len(buf)
                   ELSE CHOOSE i \in hits : \A j \in hits : i <= j
       IN /\ toDaemon' = SubSeq(toDaemon, n + 1, Len(toDaemon))
          /\ inBuf' = SubSeq(buf, used + 1, Len(buf))
          /\ synced' = (buf[used].kind = "start")
          /\ IF hits = {} \/ buf[used].kind = "start" THEN Untouched
             ELSE IF buf[used].kind = "damaged" THEN RecvBadMsg
             ELSE RecvMsg(buf[used])
  /\ UNCHANGED <<outBuf, toCtrl, faults>>

-----------------------------------------------------------------------------
(* uart_ctrl_transport_send: a new message is encoded only when the last   *)
(* one is written to its end.                                              *)
Outgoing ==
  IF outBuf.left = 0
  THEN [msg |-> Message("query", req, page), left |-> Parts]
  ELSE outBuf

(* The tty takes n parts of what is to be sent. *)
Write(n) ==
  /\ outBuf' = [msg |-> Outgoing.msg, left |-> Outgoing.left - n]
  /\ IF n = Outgoing.left
     THEN Len(toCtrl) < MaxLine /\ toCtrl' = Append(toCtrl, Outgoing.msg)
     ELSE UNCHANGED toCtrl

(* The WRITE half of avr_door_ctrl_on_transport_event: alone, or after the *)
(* READ half, which may have completed the request.                        *)
Writable ==
  /\ events \/ write
  /\ events' = FALSE
  /\ UNCHANGED <<inBuf, synced, toDaemon>>

NothingToWrite ==
  /\ Writable /\ req = NULL
  /\ write' = FALSE
  /\ UNCHANGED <<req, pending, page, timers, pingTimer, outBuf, outcome,
                 toCtrl, ctrl, givenUp, faults>>

(* The message is written: its answer is due in 500 ms.                    *)
Sent ==
  /\ Writable /\ req # NULL
  /\ Write(Outgoing.left)
  /\ timers' = timers \cup {req}
  /\ write' = FALSE
  /\ UNCHANGED <<req, pending, page, pingTimer, outcome, ctrl, givenUp, faults>>

(* EAGAIN *)
PartlySent ==
  /\ Writable /\ req # NULL
  /\ \E n \in 0 .. Outgoing.left - 1 : Write(n)
  /\ Untouched /\ UNCHANGED faults

(* The tty is gone or has an error; the rest stays in the buffer.          *)
SendFails ==
  /\ Writable /\ req # NULL
  /\ Fault
  /\ \E n \in 0 .. Outgoing.left - 1 : Write(n)
  /\ CompleteRequest(req, "failed", FALSE, FALSE)

OnWriteEvent == NothingToWrite \/ Sent \/ PartlySent \/ SendFails

-----------------------------------------------------------------------------
(* The controller, uart-ctrl-transport.c and ctrl-cmd.c: it ignores what   *)
(* comes in while it works on a query, hangs or boots.                     *)
Arrive ==
  /\ toCtrl # << >>
  /\ toCtrl' = Tail(toCtrl)
  /\ ctrl' = IF ctrl.mode = "idle"
             THEN [mode |-> "busy", query |-> Head(toCtrl)] ELSE ctrl
  /\ UNCHANGED <<daemonVars, toDaemon, givenUp, faults>>

SendToDaemon(m) ==
  /\ Len(toDaemon) < 2 * MaxLine - 1
  /\ toDaemon' = toDaemon \o <<Start, m>>

(* It refuses a query that was damaged, and may refuse any but a ping.     *)
Answer ==
  /\ ctrl.mode = "busy"
  /\ \E kind \in {"ok", "error"} :
       /\ ctrl.query.kind = "damaged" => kind = "error"
       /\ ctrl.query.kind = "query" /\ ctrl.query.of = PING => kind = "ok"
       /\ SendToDaemon(Message(kind, ctrl.query.of, ctrl.query.page))
  /\ ctrl' = [mode |-> "idle", query |-> NoQuery]
  /\ UNCHANGED <<daemonVars, toCtrl, givenUp, faults>>

(* main: the boot ends with an event.  With the boot loader it takes more  *)
(* than a second: the daemon has read what was there.                      *)
Boot ==
  /\ ctrl.mode = "booting" /\ toDaemon = << >>
  /\ SendToDaemon(Message("started", NULL, 0))
  /\ ctrl' = [mode |-> "idle", query |-> NoQuery]
  /\ UNCHANGED <<daemonVars, toCtrl, givenUp, faults>>

HangOrRestart ==
  /\ Fault
  /\ ctrl.mode \in {"idle", "busy"}
  /\ \E mode \in {"hung", "booting"} : ctrl' = [mode |-> mode, query |-> NoQuery]
  /\ UNCHANGED <<daemonVars, toCtrl, toDaemon, givenUp>>

(* The line loses or damages a message, or a part of an answer.            *)
Damaged(m) == [m EXCEPT !.kind = "damaged"]

LineFails ==
  /\ Fault
  /\ \/ /\ \E i \in DOMAIN toCtrl :
             \/ toCtrl' = RemoveAt(toCtrl, i)
             \/ toCtrl' = [toCtrl EXCEPT ![i] = Damaged(@)]
        /\ UNCHANGED toDaemon
     \/ /\ \E i \in DOMAIN toDaemon :
             \/ toDaemon' = RemoveAt(toDaemon, i)
             \/ /\ toDaemon[i].kind # "start"
                /\ toDaemon' = [toDaemon EXCEPT ![i] = Damaged(@)]
        /\ UNCHANGED toCtrl
  /\ UNCHANGED <<daemonVars, ctrl, givenUp>>

-----------------------------------------------------------------------------
Next ==
  \/ \E r \in Requests : MethodCall(r)
  \/ \E r \in Requests \cup {PING} : OnRequestTimeout(r)
  \/ OnPingTimeout
  \/ \E also \in BOOLEAN : OnReadEvent(also)
  \/ OnWriteEvent
  \/ Arrive \/ Answer \/ Boot \/ HangOrRestart \/ LineFails

(* uloop delivers every event and timeout, the tty takes what it is        *)
(* offered again and again, the line delivers, and a controller that does  *)
(* not hang answers.                                                       *)
Fairness ==
  /\ \A r \in Requests \cup {PING} : WF_vars(OnRequestTimeout(r))
  /\ WF_vars(OnPingTimeout)
  /\ WF_vars(\E also \in BOOLEAN : OnReadEvent(also))
  /\ WF_vars(NothingToWrite) /\ WF_vars(Sent)
  /\ WF_vars(Arrive) /\ WF_vars(Answer) /\ WF_vars(Boot)

Spec == Init /\ [][Next]_vars /\ Fairness

-----------------------------------------------------------------------------
(* The one thing the daemon waits for cannot be forgotten: the current     *)
(* request is being written or its timeout runs, no timeout runs for a     *)
(* request that is gone, and an idle controller is pinged                  *)
(* (avr_door_ctrl_send_next_request, avr_door_ctrl_on_transport_event).    *)
Watched ==
  /\ timers \subseteq {req} \ {NULL}
  /\ req = NULL => pingTimer /\ pending = << >>
  /\ req # NULL => ~pingTimer /\ (write \/ req \in timers)

(* What is sent and not used up, from the daemon round to the daemon.      *)
Unwritten == IF outBuf.left > 0 THEN <<outBuf.msg>> ELSE << >>
InWork == IF ctrl.mode = "busy" THEN <<ctrl.query>> ELSE << >>

OnTheWay == Unwritten \o (toCtrl \o (InWork \o (toDaemon \o inBuf)))

(* The queries and answers among them: a start byte and the event of a     *)
(* boot belong to no request.                                              *)
Underway == {i \in DOMAIN OnTheWay : OnTheWay[i].of # NULL}

(* The messages carry no identification: that an answer is taken for the   *)
(* request it belongs to rests on there being no other one under way.      *)
(* Nothing is under way but the query or the answer of the current         *)
(* request, once, and what is left of requests that were given up.         *)
InStep ==
  /\ \A i \in Underway : OnTheWay[i].of \in givenUp \/ IsOwn(OnTheWay[i])
  /\ req \notin givenUp =>
       \A i, j \in Underway :
         IsOwn(OnTheWay[i]) /\ IsOwn(OnTheWay[j]) => i = j

(* What faults leave behind is used up: the daemon and the controller are  *)
(* in step again some time after the last fault, by way of the pings.      *)
Recovers == <>[](\A i \in Underway : IsOwn(OnTheWay[i]))

(* The ping finds a controller that hangs (avr_door_ctrl_ping_complete).   *)
HungIsReset == ctrl.mode = "hung" ~> ctrl.mode # "hung"

(* The requests that are not completed, oldest first, and those among them *)
(* that are deferred calls: they are completed in order, once each, and    *)
(* all of them.                                                            *)
Queue == (IF req = NULL THEN << >> ELSE <<req>>) \o pending
Waiting == Without(Queue, PING)

Promised == INSTANCE DaemonSpec WITH waiting <- Waiting

Refines == Promised!Promise

=============================================================================
