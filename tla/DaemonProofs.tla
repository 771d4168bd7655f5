---------------------------- MODULE DaemonProofs ----------------------------
(***************************************************************************)
(* The daemon always waits for something that comes, answers its calls     *)
(* once and in order, and takes no message for the answer to another       *)
(* request: proved for any requests, pages and parts, and any number of    *)
(* faults.                                                                 *)
(***************************************************************************)
EXTENDS Daemon, RunQueueLemmas, WellFoundedInduction

Calls == Requests \cup {PING}

(* The inductive invariant: Watched, with the types of the queue.          *)
IInv ==
  /\ req \in Calls \cup {NULL}
  /\ pending \in Seq(Calls)
  /\ write \in BOOLEAN /\ events \in BOOLEAN /\ pingTimer \in BOOLEAN
  /\ Watched

LEMMA QueueType ==
  /\ \A r \in Calls : r # NULL
  /\ \A q \in Seq(Calls) : q # << >> => Head(q) \in Calls /\ Tail(q) \in Seq(Calls)
  /\ \A q \in Seq(Calls), r \in Calls : Append(q, r) \in Seq(Calls) /\ Append(q, r) # << >>
<1>1. \A r \in Calls : r # NULL
  BY DaemonAssumption DEF Calls
<1>2. \A q \in Seq(Calls) : q # << >> => Head(q) \in Calls /\ Tail(q) \in Seq(Calls)
  BY HeadTailProperties
<1>3. \A q \in Seq(Calls), r \in Calls : Append(q, r) \in Seq(Calls) /\ Append(q, r) # << >>
  BY AppendProperties
<1> QED BY <1>1, <1>2, <1>3

(* avr_door_ctrl_send_next_request leaves a request that is to be written, *)
(* or the timer of the ping.                                               *)
LEMMA SendNextRequestWatched ==
  ASSUME NEW q \in Seq(Calls), NEW w \in BOOLEAN, SendNextRequest(q, w)
  PROVE  /\ req' \in Calls \cup {NULL} /\ pending' \in Seq(Calls)
         /\ write' \in BOOLEAN /\ pingTimer' \in BOOLEAN
         /\ req' = NULL => pingTimer' /\ pending' = << >>
         /\ req' # NULL => ~pingTimer' /\ write'
<1>1. CASE q = << >>
  BY <1>1 DEF SendNextRequest
<1>2. CASE q # << >>
  <2>1. /\ req' = Head(q) /\ pending' = Tail(q)
        /\ pingTimer' = FALSE /\ write' = TRUE
    BY <1>2 DEF SendNextRequest
  <2> QED BY <1>2, <2>1, QueueType
<1> QED BY <1>1, <1>2

LEMMA CompleteRequestWatched ==
  ASSUME IInv, NEW result, NEW own, NEW w \in BOOLEAN,
         CompleteRequest(req, result, own, w), events' \in BOOLEAN
  PROVE  IInv'
<1>1. timers' = {} /\ SendNextRequest(pending, w)
  BY DEF CompleteRequest, IInv, Watched
<1>2. pending \in Seq(Calls)
  BY DEF IInv
<1>3. /\ req' \in Calls \cup {NULL} /\ pending' \in Seq(Calls)
      /\ write' \in BOOLEAN /\ pingTimer' \in BOOLEAN
      /\ req' = NULL => pingTimer' /\ pending' = << >>
      /\ req' # NULL => ~pingTimer' /\ write'
  BY <1>1, <1>2, SendNextRequestWatched
<1> QED BY <1>1, <1>3 DEF IInv, Watched

LEMMA RequestSendWatched ==
  ASSUME IInv, NEW r \in Calls, NEW ping \in BOOLEAN, RequestSend(r, ping),
         req # NULL => ping = pingTimer,
         UNCHANGED <<timers, events>>
  PROVE  IInv'
<1>1. Append(pending, r) \in Seq(Calls) /\ write \in BOOLEAN
  BY QueueType DEF IInv
<1>2. CASE req = NULL
  <2>1. timers = {}
    BY <1>2 DEF IInv, Watched
  <2>2. SendNextRequest(Append(pending, r), write)
    BY <1>2 DEF RequestSend
  <2>3. /\ req' \in Calls \cup {NULL} /\ pending' \in Seq(Calls)
        /\ write' \in BOOLEAN /\ pingTimer' \in BOOLEAN
        /\ req' = NULL => pingTimer' /\ pending' = << >>
        /\ req' # NULL => ~pingTimer' /\ write'
    BY <1>1, <2>2, SendNextRequestWatched
  <2> QED BY <2>1, <2>3 DEF IInv, Watched
<1>3. CASE req # NULL
  <2>1. /\ pending' = Append(pending, r) /\ pingTimer' = pingTimer
        /\ UNCHANGED <<req, write>>
    BY <1>3 DEF RequestSend
  <2> QED BY <1>1, <1>3, <2>1 DEF IInv, Watched
<1> QED BY <1>2, <1>3

(* The READ half, by what becomes of the request. *)
LEMMA RecvWatched ==
  ASSUME IInv, events' \in BOOLEAN, NEW msg,
         Untouched \/ RecvBadMsg \/ RecvMsg(msg)
  PROVE  IInv'
<1>1. CASE Untouched
  BY <1>1 DEF Untouched, IInv, Watched
<1>2. ASSUME NEW result, NEW own, CompleteRequest(req, result, own, write)
      PROVE  IInv'
  <2>1. write \in BOOLEAN
    BY DEF IInv
  <2> QED BY <1>2, <2>1, CompleteRequestWatched
<1>3. CASE req # NULL /\ NextPage(msg)
  BY <1>3 DEF NextPage, IInv, Watched
<1>4. CASE RecvBadMsg
  BY <1>1, <1>2, <1>4 DEF RecvBadMsg
<1>5. CASE RecvMsg(msg)
  <2>1. CASE req = NULL
    BY <1>1, <1>5, <2>1 DEF RecvMsg
  <2>2. CASE req # NULL /\ (msg.kind # "ok" \/ TooShort(msg))
    <3>1. CompleteRequest(req, "failed", IsOwn(msg) /\ msg.kind # "started", write)
      BY <1>5, <2>2, Zenon DEF RecvMsg
    <3> QED BY <1>2, <3>1
  <2>3. CASE req # NULL /\ msg.kind = "ok" /\ ~TooShort(msg)
    <3>1. IF req \in Lists /\ msg.page < LastPage
          THEN NextPage(msg) ELSE CompleteRequest(req, "ok", IsOwn(msg), write)
      BY <1>5, <2>3, Zenon DEF RecvMsg
    <3> QED BY <1>2, <1>3, <2>3, <3>1
  <2> QED BY <2>1, <2>2, <2>3
<1> QED BY <1>1, <1>4, <1>5

-----------------------------------------------------------------------------
LEMMA InitIInv == Init => IInv
<1> SUFFICES ASSUME Init PROVE IInv
  OBVIOUS
<1>1. pending = << >> /\ pending \in Seq(Calls)
  BY EmptySeq DEF Init
<1> QED BY <1>1 DEF Init, IInv, Watched

LEMMA NextIInv == IInv /\ [Next]_vars => IInv'
<1> SUFFICES ASSUME IInv, [Next]_vars PROVE IInv'
  OBVIOUS
<1>1. ASSUME NEW r \in Requests, MethodCall(r) PROVE IInv'
  <2>1. RequestSend(r, pingTimer) /\ UNCHANGED <<timers, events>>
    BY <1>1 DEF MethodCall
  <2>2. r \in Calls /\ pingTimer \in BOOLEAN
    BY DEF Calls, IInv
  <2> QED BY <2>1, <2>2, RequestSendWatched
<1>2. ASSUME NEW r \in Requests \cup {PING}, OnRequestTimeout(r) PROVE IInv'
  <2>1. r = req /\ write \in BOOLEAN
    BY <1>2 DEF OnRequestTimeout, IInv, Watched
  <2>2. CompleteRequest(req, "failed", FALSE, write) /\ events' = events
    BY <1>2, <2>1 DEF OnRequestTimeout
  <2>3. events' \in BOOLEAN
    BY <2>2 DEF IInv
  <2> QED BY <2>1, <2>2, <2>3, CompleteRequestWatched
<1>3. CASE OnPingTimeout
  <2>1. RequestSend(PING, FALSE) /\ UNCHANGED <<timers, events>> /\ pingTimer
    BY <1>3 DEF OnPingTimeout
  <2>2. PING \in Calls /\ (req # NULL => FALSE = pingTimer)
    BY <2>1 DEF Calls, IInv, Watched
  <2> QED BY <2>1, <2>2, RequestSendWatched
<1>4. ASSUME NEW also \in BOOLEAN, OnReadEvent(also) PROVE IInv'
  <2>1. events' \in BOOLEAN
    BY <1>4 DEF OnReadEvent
  <2>2. \E msg : Untouched \/ RecvBadMsg \/ RecvMsg(msg)
    BY <1>4, Zenon DEF OnReadEvent
  <2> QED BY <2>1, <2>2, RecvWatched
<1>5. CASE OnWriteEvent
  <2>1. CASE NothingToWrite
    BY <1>5, <2>1 DEF NothingToWrite, Writable, IInv, Watched
  <2>2. CASE Sent
    <3>1. /\ timers' = timers \cup {req} /\ events' = FALSE /\ write' = FALSE
          /\ UNCHANGED <<req, pending, pingTimer>> /\ req # NULL
      BY <2>2 DEF Sent, Writable
    <3> QED BY <3>1 DEF IInv, Watched
  <2>3. CASE PartlySent
    BY <1>5, <2>3 DEF PartlySent, Writable, Untouched, IInv, Watched
  <2>4. CASE SendFails
    BY <1>5, <2>4, CompleteRequestWatched DEF SendFails, Writable
  <2> QED BY <1>5, <2>1, <2>2, <2>3, <2>4 DEF OnWriteEvent
<1>6. CASE Arrive \/ Answer \/ Boot \/ HangOrRestart \/ LineFails \/ UNCHANGED vars
  <2>1. UNCHANGED daemonVars
    BY <1>6 DEF Arrive, Answer, Boot, HangOrRestart, LineFails, vars
  <2> QED BY <2>1 DEF daemonVars, IInv, Watched
<1> QED BY <1>1, <1>2, <1>3, <1>4, <1>5, <1>6 DEF Next

LEMMA QueueInvariance == Spec => []IInv
BY InitIInv, NextIInv, PTL DEF Spec

(* What the daemon waits for cannot be forgotten: the current request is   *)
(* being written or its timeout runs, no timeout runs for a request that   *)
(* is gone, and an idle controller is pinged                               *)
(* (avr_door_ctrl_send_next_request, avr_door_ctrl_on_transport_event).    *)
THEOREM RequestsWatched == Spec => []Watched
<1>1. Spec => []IInv
  BY QueueInvariance
<1>2. IInv => Watched
  BY DEF IInv
<1> QED BY <1>1, <1>2, PTL


-----------------------------------------------------------------------------
(* The current request and those behind it.                                *)
LEMMA QueueShape ==
  ASSUME IInv
  PROVE  /\ Queue \in Seq(Calls)
         /\ req = NULL => Queue = << >>
         /\ req # NULL => Queue # << >> /\ Queue[1] = req /\ Tail(Queue) = pending
<1>1. /\ req \in Calls \cup {NULL} /\ pending \in Seq(Calls)
      /\ req = NULL => pending = << >>
  BY DEF IInv, Watched
<1>2. CASE req = NULL
  <2>1. Queue = << >> \o << >>
    BY <1>1, <1>2 DEF Queue
  <2>2. Queue = << >>
    BY <2>1, ConcatEmptySeq, EmptySeq
  <2> QED BY <1>2, <2>2, EmptySeq
<1>3. CASE req # NULL
  <2>1. Queue = <<req>> \o pending /\ <<req>> \in Seq(Calls) /\ Len(<<req>>) = 1
    BY <1>1, <1>3 DEF Queue
  <2>2. /\ Queue \in Seq(Calls) /\ Len(Queue) = 1 + Len(pending) /\ Len(pending) \in Nat
        /\ \A i \in 1 .. 1 + Len(pending) :
             Queue[i] = IF i <= 1 THEN <<req>>[i] ELSE pending[i - 1]
    BY <1>1, <2>1, ConcatProperties, LenProperties
  <2>3. Queue # << >> /\ Queue[1] = req
    BY <2>2, EmptySeq
  <2>4. /\ Tail(Queue) \in Seq(Calls) /\ Len(Tail(Queue)) = Len(pending)
        /\ \A i \in 1 .. Len(pending) : Tail(Queue)[i] = Queue[i + 1]
    BY <2>2, <2>3, HeadTailProperties
  <2>5. \A i \in 1 .. Len(pending) : Tail(Queue)[i] = pending[i]
    BY <2>2, <2>4
  <2>6. Tail(Queue) = pending
    BY <1>1, <2>4, <2>5, SeqEqual
  <2> QED BY <1>3, <2>2, <2>3, <2>6
<1> QED BY <1>2, <1>3

(* avr_door_ctrl_send_next_request only moves the front of the list to     *)
(* ctrl->req.                                                              *)
LEMMA SendNextRequestQueue ==
  ASSUME NEW q \in Seq(Calls), NEW w, SendNextRequest(q, w)
  PROVE  Queue' = q
<1>1. CASE q = << >>
  <2>1. req' = NULL /\ pending' = << >>
    BY <1>1 DEF SendNextRequest
  <2>2. Queue' = << >> \o << >>
    BY <2>1 DEF Queue
  <2> QED BY <1>1, <2>2, ConcatEmptySeq, EmptySeq
<1>2. CASE q # << >>
  <2>1. req' = Head(q) /\ pending' = Tail(q) /\ req' # NULL
    BY <1>2, QueueType DEF SendNextRequest
  <2>2. Queue' = <<Head(q)>> \o Tail(q)
    BY <2>1 DEF Queue
  <2>3. Head(q) \in Calls /\ Tail(q) \in Seq(Calls) /\ <<Head(q)>> \in Seq(Calls) /\ Len(<<Head(q)>>) = 1
    BY <1>2, QueueType
  <2>4. /\ Len(q) \in Nat /\ Len(q) # 0 /\ Len(Tail(q)) = Len(q) - 1 /\ Head(q) = q[1]
        /\ \A i \in 1 .. Len(q) - 1 : Tail(q)[i] = q[i + 1]
    BY <1>2, HeadTailProperties, LenProperties, EmptySeq
  <2>5. /\ Queue' \in Seq(Calls) /\ Len(Queue') = Len(q)
        /\ \A i \in 1 .. Len(q) : Queue'[i] = IF i <= 1 THEN <<Head(q)>>[i] ELSE Tail(q)[i - 1]
    BY <2>2, <2>3, <2>4, ConcatProperties
  <2>6. \A i \in 1 .. Len(q) : Queue'[i] = q[i]
    BY <2>4, <2>5
  <2> QED BY <2>5, <2>6, SeqEqual
<1> QED BY <1>1, <1>2

(* A deferred call joins the end of the list.                              *)
LEMMA RequestSendQueue ==
  ASSUME IInv, NEW r \in Calls, NEW ping, RequestSend(r, ping)
  PROVE  Queue' = Append(Queue, r)
<1>1. pending \in Seq(Calls) /\ req \in Calls \cup {NULL} /\ (req = NULL => pending = << >>)
  BY DEF IInv, Watched
<1>2. Append(pending, r) \in Seq(Calls)
  BY <1>1, QueueType
<1>3. CASE req = NULL
  <2>1. SendNextRequest(Append(pending, r), write)
    BY <1>3 DEF RequestSend
  <2>2. Queue' = Append(pending, r)
    BY <1>2, <2>1, SendNextRequestQueue
  <2>3. Queue = pending
    BY <1>1, <1>3, QueueShape
  <2> QED BY <2>2, <2>3
<1>4. CASE req # NULL
  <2>1. pending' = Append(pending, r) /\ req' = req
    BY <1>4 DEF RequestSend
  <2>2. Queue = <<req>> \o pending /\ Queue' = <<req>> \o Append(pending, r)
    BY <1>4, <2>1 DEF Queue
  <2>3. <<req>> \in Seq(Calls) /\ <<r>> \in Seq(Calls)
    BY <1>1, <1>4
  <2>4. /\ Append(pending, r) = pending \o <<r>>
        /\ Append(<<req>> \o pending, r) = (<<req>> \o pending) \o <<r>>
        /\ (<<req>> \o pending) \o <<r>> = <<req>> \o (pending \o <<r>>)
    <3>1. <<req>> \o pending \in Seq(Calls)
      BY <1>1, <2>3, ConcatProperties
    <3>2. Append(<<req>> \o pending, r) = (<<req>> \o pending) \o <<r>>
      BY <3>1, AppendIsConcat
    <3>3. Append(pending, r) = pending \o <<r>>
      BY <1>1, AppendIsConcat
    <3>4. (<<req>> \o pending) \o <<r>> = <<req>> \o (pending \o <<r>>)
      BY <1>1, <2>3, ConcatAssociative
    <3> QED BY <3>2, <3>3, <3>4
  <2> QED BY <2>2, <2>4
<1> QED BY <1>3, <1>4

(* Completing the current request completes the oldest deferred call, or   *)
(* nothing when it is the ping.                                            *)
LEMMA CompleteRequestRefines ==
  ASSUME IInv, req # NULL, NEW result \in {"ok", "failed"}, NEW own, NEW w,
         CompleteRequest(req, result, own, w)
  PROVE  [Promised!PromiseNext]_Promised!promiseVars
<1>1. /\ Queue \in Seq(Calls) /\ Queue # << >> /\ Queue[1] = req /\ Tail(Queue) = pending
      /\ pending \in Seq(Calls)
  BY QueueShape DEF IInv
<1>2. /\ outcome' = IF req \in Requests THEN [outcome EXCEPT ![req] = result] ELSE outcome
      /\ SendNextRequest(pending, w)
  BY DEF CompleteRequest
<1>3. Queue' = Tail(Queue)
  BY <1>1, <1>2, SendNextRequestQueue
<1>4. CASE req = PING
  <2>1. outcome' = outcome
    BY <1>2, <1>4, DaemonAssumption
  <2>2. Without(Tail(Queue), PING) = Without(Queue, PING)
    <3>1. /\ Len(Queue) \in Nat /\ 1 \in 1 .. Len(Queue) /\ Queue[1] = PING
          /\ Tail(Queue) \in Seq(Calls) /\ Len(Tail(Queue)) = Len(Queue) - 1
          /\ \A i \in 1 .. Len(Queue) - 1 : Tail(Queue)[i] = Queue[i + 1]
      BY <1>1, <1>4, HeadTailProperties, LenProperties, EmptySeq
    <3>2. \A i \in 1 .. Len(Tail(Queue)) :
            Tail(Queue)[i] = IF i < 1 THEN Queue[i] ELSE Queue[i + 1]
      BY <3>1
    <3> QED BY <1>1, <3>1, <3>2, WithoutOneMore
  <2>3. Waiting' = Waiting
    BY <1>3, <2>2 DEF Waiting
  <2> QED BY <2>1, <2>3 DEF Promised!promiseVars
<1>5. CASE req # PING
  <2>1. req \in Requests
    BY <1>5 DEF IInv, Calls
  <2>2. /\ Waiting # << >> /\ Head(Waiting) = req
        /\ Tail(Waiting) = Without(Tail(Queue), PING)
    BY <1>1, <1>5, WithoutFirst DEF Waiting
  <2>3. Waiting' = Tail(Waiting)
    BY <1>3, <2>2 DEF Waiting
  <2>4. outcome' = [outcome EXCEPT ![Head(Waiting)] = result]
    BY <1>2, <2>1, <2>2
  <2>5. Promised!CompleteOldest(result)
    BY <2>2, <2>3, <2>4 DEF Promised!CompleteOldest
  <2> QED BY <2>5 DEF Promised!PromiseNext, Promised!Complete
<1> QED BY <1>4, <1>5

LEMMA UntouchedRefines ==
  ASSUME UNCHANGED <<req, pending, outcome>>
  PROVE  [Promised!PromiseNext]_Promised!promiseVars
BY DEF Promised!promiseVars, Waiting, Queue

LEMMA StepRefines ==
  ASSUME IInv, [Next]_vars
  PROVE  [Promised!PromiseNext]_Promised!promiseVars
<1>1. ASSUME NEW r \in Requests, MethodCall(r)
      PROVE  [Promised!PromiseNext]_Promised!promiseVars
  <2>1. /\ outcome[r] = "unmade" /\ outcome' = [outcome EXCEPT ![r] = "waiting"]
        /\ RequestSend(r, pingTimer) /\ r \in Calls /\ r # PING
    BY <1>1, DaemonAssumption DEF MethodCall, Calls
  <2>2. Queue' = Append(Queue, r) /\ Queue \in Seq(Calls)
    BY <2>1, RequestSendQueue, QueueShape
  <2>3. Waiting' = Append(Waiting, r)
    BY <2>1, <2>2, WithoutAppend DEF Waiting
  <2>4. Promised!Defer(r)
    BY <2>1, <2>3 DEF Promised!Defer
  <2> QED BY <2>4 DEF Promised!PromiseNext
<1>2. ASSUME NEW r \in Requests \cup {PING}, OnRequestTimeout(r)
      PROVE  [Promised!PromiseNext]_Promised!promiseVars
  <2>1. r = req /\ req # NULL
    BY <1>2 DEF OnRequestTimeout, IInv, Watched
  <2>2. CompleteRequest(req, "failed", FALSE, write)
    BY <1>2, <2>1 DEF OnRequestTimeout
  <2> QED BY <2>1, <2>2, CompleteRequestRefines
<1>3. CASE OnPingTimeout
  <2>1. RequestSend(PING, FALSE) /\ outcome' = outcome /\ PING \in Calls
    BY <1>3 DEF OnPingTimeout, Calls
  <2>2. Queue' = Append(Queue, PING) /\ Queue \in Seq(Calls)
    BY <2>1, RequestSendQueue, QueueShape
  <2>3. Waiting' = Waiting
    BY <2>1, <2>2, WithoutAppend DEF Waiting
  <2> QED BY <2>1, <2>3 DEF Promised!promiseVars
<1>4. ASSUME NEW also \in BOOLEAN, OnReadEvent(also)
      PROVE  [Promised!PromiseNext]_Promised!promiseVars
  <2>1. CASE Untouched
    BY <2>1, UntouchedRefines DEF Untouched
  <2>2. ASSUME NEW own, NEW result \in {"ok", "failed"}, req # NULL,
               CompleteRequest(req, result, own, write)
        PROVE  [Promised!PromiseNext]_Promised!promiseVars
    BY <2>2, CompleteRequestRefines
  <2>3. CASE RecvBadMsg
    BY <2>1, <2>2, <2>3 DEF RecvBadMsg
  <2>4. ASSUME NEW msg, RecvMsg(msg)
        PROVE  [Promised!PromiseNext]_Promised!promiseVars
    <3>1. CASE req = NULL
      BY <2>1, <2>4, <3>1 DEF RecvMsg
    <3>2. CASE req # NULL /\ (msg.kind # "ok" \/ TooShort(msg))
      <4>1. CompleteRequest(req, "failed", IsOwn(msg) /\ msg.kind # "started", write)
        BY <2>4, <3>2, Zenon DEF RecvMsg
      <4> QED BY <2>2, <3>2, <4>1
    <3>3. CASE req # NULL /\ msg.kind = "ok" /\ ~TooShort(msg)
      <4>1. IF req \in Lists /\ msg.page < LastPage
            THEN NextPage(msg) ELSE CompleteRequest(req, "ok", IsOwn(msg), write)
        BY <2>4, <3>3, Zenon DEF RecvMsg
      <4>2. CASE NextPage(msg)
        BY <4>2, UntouchedRefines DEF NextPage
      <4> QED BY <2>2, <3>3, <4>1, <4>2
    <3> QED BY <3>1, <3>2, <3>3
  <2>5. \E msg : Untouched \/ RecvBadMsg \/ RecvMsg(msg)
    BY <1>4, Zenon DEF OnReadEvent
  <2> QED BY <2>1, <2>3, <2>4, <2>5
<1>5. CASE OnWriteEvent
  <2>1. CASE SendFails
    BY <2>1, CompleteRequestRefines DEF SendFails
  <2>2. CASE NothingToWrite \/ Sent \/ PartlySent
    BY <2>2, UntouchedRefines DEF NothingToWrite, Sent, PartlySent, Untouched
  <2> QED BY <1>5, <2>1, <2>2 DEF OnWriteEvent
<1>6. CASE Arrive \/ Answer \/ Boot \/ HangOrRestart \/ LineFails \/ UNCHANGED vars
  <2>1. UNCHANGED daemonVars
    BY <1>6 DEF Arrive, Answer, Boot, HangOrRestart, LineFails, vars
  <2> QED BY <2>1, UntouchedRefines DEF daemonVars
<1> QED BY <1>1, <1>2, <1>3, <1>4, <1>5, <1>6 DEF Next

LEMMA InitRefines == Init => Promised!PromiseInit
<1> SUFFICES ASSUME Init PROVE Promised!PromiseInit
  OBVIOUS
<1>1. Queue = << >> /\ Queue \in Seq(Calls)
  BY QueueShape, InitIInv DEF Init
<1>2. ~Queued(Queue, PING)
  BY <1>1, EmptySeq DEF Queued
<1>3. Waiting = << >>
  BY <1>1, <1>2, WithoutAbsent DEF Waiting
<1> QED BY <1>3 DEF Init, Promised!PromiseInit, Promised!Unmade

(* The deferred calls are completed in the order they were made, once      *)
(* each, with success or failure, whatever the line, the tty and the       *)
(* controller do (avr_door_ctrl_request_send, _complete_request,           *)
(* _on_request_timeout).                                                   *)
THEOREM KeepsPromise == Spec => Promised!PromiseSafety
BY QueueInvariance, InitRefines, StepRefines, PTL DEF Spec, Promised!PromiseSafety


-----------------------------------------------------------------------------
(* A message of request r for page p; one of r, of a request given up, or  *)
(* of none.                                                                *)
Mine(m, r, p) == r # NULL /\ m.of = r /\ m.page = p
Fits(m, r, p, g) == m.of = NULL \/ m.of \in g \/ Mine(m, r, p)

Has(s, r, p) == \E i \in DOMAIN s : Mine(s[i], r, p)
Once(s, r, p) == \A i, j \in DOMAIN s : Mine(s[i], r, p) /\ Mine(s[j], r, p) => i = j
AllFit(s, r, p, g) == \A i \in DOMAIN s : Fits(s[i], r, p, g)

(* At most one message of r for p in five buffers; none at all.            *)
Single(r, p, a, b, c, d, e) ==
  /\ Once(a, r, p) /\ Once(b, r, p) /\ Once(c, r, p) /\ Once(d, r, p) /\ Once(e, r, p)
  /\ Has(a, r, p) => ~Has(b, r, p) /\ ~Has(c, r, p) /\ ~Has(d, r, p) /\ ~Has(e, r, p)
  /\ Has(b, r, p) => ~Has(c, r, p) /\ ~Has(d, r, p) /\ ~Has(e, r, p)
  /\ Has(c, r, p) => ~Has(d, r, p) /\ ~Has(e, r, p)
  /\ Has(d, r, p) => ~Has(e, r, p)

None(r, p, a, b, c, d, e) ==
  /\ ~Has(a, r, p) /\ ~Has(b, r, p) /\ ~Has(c, r, p) /\ ~Has(d, r, p) /\ ~Has(e, r, p)

Tokens ==
  [kind : {"query", "ok", "error", "started", "start", "damaged"},
   of : Calls \cup {NULL}, page : Nat]

LineType ==
  /\ page \in Nat
  /\ outBuf \in [msg : Tokens, left : Nat]
  /\ toCtrl \in Seq(Tokens) /\ toDaemon \in Seq(Tokens) /\ inBuf \in Seq(Tokens)
  /\ ctrl \in [mode : {"idle", "busy", "hung", "booting"}, query : Tokens]

(* Every message under way is one of the current request, or of one given  *)
(* up; of the current one there is one, unless it is still to be encoded.  *)
OneUnderway ==
  /\ LineType
  /\ events => write
  /\ AllFit(Unwritten, req, page, givenUp) /\ AllFit(toCtrl, req, page, givenUp)
  /\ AllFit(InWork, req, page, givenUp) /\ AllFit(toDaemon, req, page, givenUp)
  /\ AllFit(inBuf, req, page, givenUp)
  /\ req \notin givenUp =>
       Single(req, page, Unwritten, toCtrl, InWork, toDaemon, inBuf)
  /\ req \notin givenUp /\ outBuf.left = 0 /\ write =>
       None(req, page, Unwritten, toCtrl, InWork, toDaemon, inBuf)

(* t holds some of the messages of s, each of them once, whatever became   *)
(* of their kind.                                                          *)
Thinned(t, s) ==
  \E f \in [DOMAIN t -> DOMAIN s] :
    \A i \in DOMAIN t :
      /\ t[i].of = s[f[i]].of /\ t[i].page = s[f[i]].page
      /\ \A j \in DOMAIN t : f[i] = f[j] => i = j

LEMMA ThinnedKeeps ==
  ASSUME NEW s, NEW t, Thinned(t, s), NEW r, NEW p
  PROVE  /\ Has(t, r, p) => Has(s, r, p)
         /\ Once(s, r, p) => Once(t, r, p)
         /\ \A g : AllFit(s, r, p, g) => AllFit(t, r, p, g)
<1>1. PICK f \in [DOMAIN t -> DOMAIN s] :
        \A i \in DOMAIN t :
          /\ t[i].of = s[f[i]].of /\ t[i].page = s[f[i]].page
          /\ \A j \in DOMAIN t : f[i] = f[j] => i = j
  BY DEF Thinned
<1>2. \A i \in DOMAIN t : f[i] \in DOMAIN s /\ (Mine(t[i], r, p) <=> Mine(s[f[i]], r, p))
  BY <1>1 DEF Mine
<1>3. Has(t, r, p) => Has(s, r, p)
  BY <1>2 DEF Has
<1>4. Once(s, r, p) => Once(t, r, p)
  BY <1>1, <1>2 DEF Once
<1>5. ASSUME NEW g, AllFit(s, r, p, g) PROVE AllFit(t, r, p, g)
  BY <1>1, <1>2, <1>5 DEF AllFit, Fits
<1> QED BY <1>3, <1>4, <1>5

LEMMA EmptyHolds ==
  ASSUME NEW r, NEW p
  PROVE  /\ ~Has(<< >>, r, p) /\ Once(<< >>, r, p)
         /\ \A g : AllFit(<< >>, r, p, g)
<1>1. DOMAIN << >> = {}
  OBVIOUS
<1> QED BY <1>1 DEF Has, Once, AllFit

LEMMA OneHolds ==
  ASSUME NEW m, NEW r, NEW p
  PROVE  /\ Has(<<m>>, r, p) <=> Mine(m, r, p)
         /\ Once(<<m>>, r, p)
         /\ \A g : AllFit(<<m>>, r, p, g) <=> Fits(m, r, p, g)
<1>1. DOMAIN <<m>> = {1} /\ <<m>>[1] = m
  OBVIOUS
<1> QED BY <1>1 DEF Has, Once, AllFit

(* Two buffers behind each other.                                          *)
LEMMA ConcatHolds ==
  ASSUME NEW S, NEW s \in Seq(S), NEW t \in Seq(S), NEW r, NEW p
  PROVE  /\ s \o t \in Seq(S)
         /\ Has(s \o t, r, p) <=> Has(s, r, p) \/ Has(t, r, p)
         /\ Once(s, r, p) /\ Once(t, r, p) /\ ~(Has(s, r, p) /\ Has(t, r, p))
              => Once(s \o t, r, p)
         /\ \A g : AllFit(s \o t, r, p, g) <=> AllFit(s, r, p, g) /\ AllFit(t, r, p, g)
<1> DEFINE u == s \o t
           n == Len(s)
           m == Len(t)
<1>1. /\ n \in Nat /\ m \in Nat /\ DOMAIN s = 1 .. n /\ DOMAIN t = 1 .. m
  BY LenProperties
<1>2. /\ u \in Seq(S) /\ Len(u) = n + m /\ DOMAIN u = 1 .. n + m
      /\ \A i \in 1 .. n + m : u[i] = IF i <= n THEN s[i] ELSE t[i - n]
  <2>1. /\ u \in Seq(S) /\ Len(u) = n + m
        /\ \A i \in 1 .. n + m : u[i] = IF i <= n THEN s[i] ELSE t[i - n]
    BY ConcatProperties
  <2> QED BY <2>1, LenProperties
<1> HIDE DEF u, n, m
<1>3. \A i \in 1 .. n : i \in 1 .. n + m /\ u[i] = s[i]
  BY <1>1, <1>2
<1>4. \A i \in 1 .. m : n + i \in 1 .. n + m /\ u[n + i] = t[i]
  BY <1>1, <1>2
<1>5. \A i \in 1 .. n + m :
        \/ i \in 1 .. n /\ u[i] = s[i]
        \/ i - n \in 1 .. m /\ u[i] = t[i - n] /\ n + (i - n) = i
  BY <1>1, <1>2
<1>6. Has(u, r, p) <=> Has(s, r, p) \/ Has(t, r, p)
  <2>1. Has(u, r, p) => Has(s, r, p) \/ Has(t, r, p)
    BY <1>1, <1>2, <1>5 DEF Has
  <2>2. Has(s, r, p) => Has(u, r, p)
    BY <1>1, <1>2, <1>3 DEF Has
  <2>3. Has(t, r, p) => Has(u, r, p)
    BY <1>1, <1>2, <1>4 DEF Has
  <2> QED BY <2>1, <2>2, <2>3
<1>7. ASSUME Once(s, r, p), Once(t, r, p), ~(Has(s, r, p) /\ Has(t, r, p))
      PROVE  Once(u, r, p)
  <2> SUFFICES ASSUME NEW i \in 1 .. n + m, NEW j \in 1 .. n + m,
                      Mine(u[i], r, p), Mine(u[j], r, p)
               PROVE  i = j
    BY <1>2 DEF Once
  <2>1. CASE i \in 1 .. n /\ j \in 1 .. n
    BY <1>1, <1>3, <1>7, <2>1 DEF Once
  <2>2. CASE i - n \in 1 .. m /\ j - n \in 1 .. m
    <3>1. u[i] = t[i - n] /\ u[j] = t[j - n]
      <4>1. \A k \in 1 .. m : k > 0
        BY <1>1
      <4> QED BY <1>1, <1>2, <2>2, <4>1
    <3>2. i - n = j - n
      BY <1>1, <1>7, <2>2, <3>1 DEF Once
    <3> QED BY <1>1, <3>2
  <2>3. CASE i \in 1 .. n /\ j - n \in 1 .. m
    <3>1. u[i] = s[i] /\ u[j] = t[j - n]
      BY <1>1, <1>2, <2>3
    <3> QED BY <1>1, <1>7, <2>3, <3>1 DEF Has
  <2>4. CASE i - n \in 1 .. m /\ j \in 1 .. n
    <3>1. u[i] = t[i - n] /\ u[j] = s[j]
      BY <1>1, <1>2, <2>4
    <3> QED BY <1>1, <1>7, <2>4, <3>1 DEF Has
  <2> QED BY <1>5, <2>1, <2>2, <2>3, <2>4
<1>8. ASSUME NEW g PROVE AllFit(u, r, p, g) <=> AllFit(s, r, p, g) /\ AllFit(t, r, p, g)
  <2>1. AllFit(u, r, p, g) => AllFit(s, r, p, g)
    BY <1>1, <1>2, <1>3 DEF AllFit
  <2>2. AllFit(u, r, p, g) => AllFit(t, r, p, g)
    BY <1>1, <1>2, <1>4 DEF AllFit
  <2>3. AllFit(s, r, p, g) /\ AllFit(t, r, p, g) => AllFit(u, r, p, g)
    BY <1>1, <1>2, <1>5 DEF AllFit
  <2> QED BY <2>1, <2>2, <2>3
<1> QED BY <1>2, <1>6, <1>7, <1>8 DEF u

(* A message joins the end of a buffer.                                    *)
LEMMA AppendHolds ==
  ASSUME NEW S, NEW s \in Seq(S), NEW m \in S, NEW r, NEW p
  PROVE  /\ Append(s, m) \in Seq(S)
         /\ Has(Append(s, m), r, p) <=> Has(s, r, p) \/ Mine(m, r, p)
         /\ Once(s, r, p) /\ ~(Has(s, r, p) /\ Mine(m, r, p)) => Once(Append(s, m), r, p)
         /\ \A g : AllFit(Append(s, m), r, p, g) <=> AllFit(s, r, p, g) /\ Fits(m, r, p, g)
<1>1. <<m>> \in Seq(S) /\ Append(s, m) = s \o <<m>>
  BY AppendIsConcat
<1>2. /\ Has(<<m>>, r, p) <=> Mine(m, r, p)
      /\ Once(<<m>>, r, p)
      /\ \A g : AllFit(<<m>>, r, p, g) <=> Fits(m, r, p, g)
  BY OneHolds
<1>3. /\ s \o <<m>> \in Seq(S)
      /\ Has(s \o <<m>>, r, p) <=> Has(s, r, p) \/ Has(<<m>>, r, p)
      /\ Once(s, r, p) /\ Once(<<m>>, r, p) /\ ~(Has(s, r, p) /\ Has(<<m>>, r, p))
           => Once(s \o <<m>>, r, p)
      /\ \A g : AllFit(s \o <<m>>, r, p, g) <=> AllFit(s, r, p, g) /\ AllFit(<<m>>, r, p, g)
  BY <1>1, ConcatHolds
<1> QED BY <1>1, <1>2, <1>3

(* The messages from a place on, and those before it.                      *)
LEMMA SubSeqHolds ==
  ASSUME NEW S, NEW s \in Seq(S), NEW a \in 1 .. Len(s) + 1, NEW b \in 0 .. Len(s)
  PROVE  /\ SubSeq(s, a, b) \in Seq(S)
         /\ Len(SubSeq(s, a, b)) = IF a <= b THEN b - a + 1 ELSE 0
         /\ \A i \in DOMAIN SubSeq(s, a, b) :
              /\ a + i - 1 \in DOMAIN s /\ a <= a + i - 1 /\ a + i - 1 <= b
              /\ SubSeq(s, a, b)[i] = s[a + i - 1]
         /\ Thinned(SubSeq(s, a, b), s)
<1> DEFINE t == SubSeq(s, a, b)
<1>1. /\ Len(s) \in Nat /\ DOMAIN s = 1 .. Len(s)
      /\ \A i \in 1 .. Len(s) : s[i] \in S
  BY LenProperties, ElementOfSeq
<1>2. a \in Int /\ b \in Int /\ \A i \in a .. b : s[i] \in S
  BY <1>1
<1>3. /\ t \in Seq(S) /\ Len(t) = IF a <= b THEN b - a + 1 ELSE 0
      /\ \A i \in 1 .. b - a + 1 : t[i] = s[a + i - 1]
  BY <1>2, SubSeqProperties
<1>4. DOMAIN t = 1 .. Len(t)
  BY <1>3, LenProperties
<1> HIDE DEF t
<1>5. \A i \in DOMAIN t :
        /\ i \in Nat /\ a + i - 1 \in DOMAIN s /\ a <= a + i - 1 /\ a + i - 1 <= b
        /\ t[i] = s[a + i - 1]
  BY <1>1, <1>2, <1>3, <1>4
<1>6. Thinned(t, s)
  <2> DEFINE f == [i \in DOMAIN t |-> a + i - 1]
  <2>1. f \in [DOMAIN t -> DOMAIN s]
    BY <1>5
  <2>2. ASSUME NEW i \in DOMAIN t
        PROVE  /\ t[i].of = s[f[i]].of /\ t[i].page = s[f[i]].page
               /\ \A j \in DOMAIN t : f[i] = f[j] => i = j
    BY <1>2, <1>5
  <2> HIDE DEF f
  <2> QED BY <2>1, <2>2 DEF Thinned
<1> QED BY <1>3, <1>5, <1>6 DEF t

LEMMA PrefixAndSuffix ==
  ASSUME NEW S, NEW s \in Seq(S), NEW n \in 0 .. Len(s)
  PROVE  LET a == SubSeq(s, 1, n)
             b == SubSeq(s, n + 1, Len(s))
         IN  /\ a \in Seq(S) /\ Len(a) = n /\ \A i \in 1 .. n : a[i] = s[i]
             /\ b \in Seq(S) /\ Len(b) = Len(s) - n
             /\ \A i \in 1 .. Len(s) - n : b[i] = s[n + i]
             /\ a \o b = s
             /\ Thinned(a, s) /\ Thinned(b, s)
<1> DEFINE a == SubSeq(s, 1, n)
           b == SubSeq(s, n + 1, Len(s))
<1>1. Len(s) \in Nat /\ n \in Nat /\ n <= Len(s)
  BY LenProperties
<1>2. ASSUME NEW c \in 1 .. Len(s) + 1, NEW l \in 0 .. Len(s)
      PROVE  /\ SubSeq(s, c, l) \in Seq(S)
             /\ Len(SubSeq(s, c, l)) = IF c <= l THEN l - c + 1 ELSE 0
             /\ \A k \in DOMAIN SubSeq(s, c, l) : SubSeq(s, c, l)[k] = s[c + k - 1]
             /\ Thinned(SubSeq(s, c, l), s)
  BY SubSeqHolds
<1>3. /\ 1 \in 1 .. Len(s) + 1 /\ n \in 0 .. Len(s)
      /\ n + 1 \in 1 .. Len(s) + 1 /\ Len(s) \in 0 .. Len(s)
  BY <1>1
<1>4. /\ a \in Seq(S) /\ Len(a) = (IF 1 <= n THEN n - 1 + 1 ELSE 0) /\ Thinned(a, s)
      /\ \A k \in DOMAIN a : a[k] = s[1 + k - 1]
  BY <1>2, <1>3, Zenon
<1>5. /\ b \in Seq(S) /\ Thinned(b, s)
      /\ Len(b) = (IF n + 1 <= Len(s) THEN Len(s) - (n + 1) + 1 ELSE 0)
      /\ \A k \in DOMAIN b : b[k] = s[n + 1 + k - 1]
  BY <1>2, <1>3, Zenon
<1>6. DOMAIN a = 1 .. Len(a) /\ DOMAIN b = 1 .. Len(b)
  BY <1>4, <1>5, LenProperties
<1> DEFINE u == a \o b
<1>7. /\ u \in Seq(S) /\ Len(u) = Len(a) + Len(b)
      /\ \A k \in 1 .. Len(a) + Len(b) : u[k] = IF k <= Len(a) THEN a[k] ELSE b[k - Len(a)]
  BY <1>4, <1>5, ConcatProperties
<1> HIDE DEF a, b, u
<1>8. Len(a) = n /\ \A i \in 1 .. n : a[i] = s[i]
  <2>1. Len(a) = n
    BY <1>1, <1>4
  <2>2. \A k \in 1 .. n : 1 + k - 1 = k
    BY <1>1
  <2> QED BY <1>4, <1>6, <2>1, <2>2
<1>9. Len(b) = Len(s) - n /\ \A i \in 1 .. Len(s) - n : b[i] = s[n + i]
  <2>1. Len(b) = Len(s) - n
    BY <1>1, <1>5
  <2>2. \A k \in 1 .. Len(s) - n : n + 1 + k - 1 = n + k
    BY <1>1
  <2> QED BY <1>5, <1>6, <2>1, <2>2
<1>10. \A k \in 1 .. Len(s) : u[k] = s[k]
  <2> SUFFICES ASSUME NEW k \in 1 .. Len(s) PROVE u[k] = s[k]
    OBVIOUS
  <2>1. CASE k <= n
    BY <1>1, <1>7, <1>8, <1>9, <2>1
  <2>2. CASE k > n
    <3>1. k - n \in 1 .. Len(s) - n /\ n + (k - n) = k
      BY <1>1, <2>2
    <3>2. u[k] = b[k - n]
      BY <1>1, <1>7, <1>8, <1>9, <2>2
    <3> QED BY <1>9, <3>1, <3>2
  <2> QED BY <1>1, <2>1, <2>2
<1>11. Len(u) = Len(s)
  BY <1>1, <1>7, <1>8, <1>9
<1>12. u = s
  BY <1>7, <1>10, <1>11, SeqEqual
<1> QED BY <1>4, <1>5, <1>8, <1>9, <1>12 DEF a, b, u

(* What is left of one buffer, with another one behind it.                 *)
LEMMA SuffixConcat ==
  ASSUME NEW S, NEW s \in Seq(S), NEW t \in Seq(S), NEW n \in 0 .. Len(s)
  PROVE  SubSeq(s, n + 1, Len(s)) \o t = SubSeq(s \o t, n + 1, Len(s \o t))
<1> DEFINE b == SubSeq(s, n + 1, Len(s))
           u == s \o t
           v == SubSeq(u, n + 1, Len(u))
           w == b \o t
<1>1. Len(s) \in Nat /\ n \in Nat /\ n <= Len(s) /\ Len(t) \in Nat
  BY LenProperties
<1>2. /\ u \in Seq(S) /\ Len(u) = Len(s) + Len(t)
      /\ \A k \in 1 .. Len(s) + Len(t) : u[k] = IF k <= Len(s) THEN s[k] ELSE t[k - Len(s)]
  BY ConcatProperties
<1>3. /\ b \in Seq(S) /\ Len(b) = Len(s) - n
      /\ \A i \in 1 .. Len(s) - n : b[i] = s[n + i]
  BY PrefixAndSuffix
<1> HIDE DEF u
<1>4. n \in 0 .. Len(u)
  BY <1>1, <1>2
<1>5. /\ v \in Seq(S) /\ Len(v) = Len(u) - n
      /\ \A i \in 1 .. Len(u) - n : v[i] = u[n + i]
  BY <1>2, <1>4, PrefixAndSuffix
<1> HIDE DEF b, v
<1>6. /\ w \in Seq(S) /\ Len(w) = Len(b) + Len(t)
      /\ \A k \in 1 .. Len(b) + Len(t) : w[k] = IF k <= Len(b) THEN b[k] ELSE t[k - Len(b)]
  BY <1>3, ConcatProperties
<1> HIDE DEF w
<1>7. Len(w) = Len(v)
  BY <1>1, <1>2, <1>3, <1>5, <1>6
<1>8. \A k \in 1 .. Len(w) : w[k] = v[k]
  <2> SUFFICES ASSUME NEW k \in 1 .. Len(w) PROVE w[k] = v[k]
    OBVIOUS
  <2>1. k \in Nat /\ k >= 1 /\ k <= Len(s) - n + Len(t) /\ v[k] = u[n + k]
    <3>1. Len(w) = Len(s) - n + Len(t) /\ Len(w) \in Nat /\ Len(u) - n = Len(w)
      BY <1>1, <1>2, <1>3, <1>6
    <3>2. v[k] = u[n + k]
      BY <1>5, <3>1
    <3> QED BY <3>1, <3>2
  <2>2. CASE k <= Len(s) - n
    <3>1. k \in 1 .. Len(s) - n /\ n + k \in 1 .. Len(s) + Len(t) /\ n + k <= Len(s)
      BY <1>1, <2>1, <2>2
    <3>2. w[k] = b[k] /\ b[k] = s[n + k]
      BY <1>1, <1>3, <1>6, <2>1, <3>1
    <3>3. u[n + k] = s[n + k]
      BY <1>2, <3>1
    <3> QED BY <2>1, <3>2, <3>3
  <2>3. CASE k > Len(s) - n
    <3>1. w[k] = t[k - (Len(s) - n)]
      BY <1>1, <1>3, <1>6, <2>1, <2>3
    <3>2. n + k \in 1 .. Len(s) + Len(t) /\ ~(n + k <= Len(s)) /\ n + k - Len(s) = k - (Len(s) - n)
      BY <1>1, <2>1, <2>3
    <3>3. u[n + k] = t[n + k - Len(s)]
      BY <1>2, <3>2
    <3> QED BY <2>1, <3>1, <3>2, <3>3
  <2> QED BY <1>1, <2>1, <2>2, <2>3
<1>9. w = v
  BY <1>5, <1>6, <1>7, <1>8, SeqEqual
<1> QED BY <1>9 DEF w, b, v, u


-----------------------------------------------------------------------------
(* Nothing in the buffer but messages of requests given up.                *)
Gone(s, g) == AllFit(s, NULL, 0, g)
AllGone(g, a, b, c, d, e) == Gone(a, g) /\ Gone(b, g) /\ Gone(c, g) /\ Gone(d, g) /\ Gone(e, g)

LEMMA GoneHolds ==
  ASSUME NEW s, NEW r, NEW p, NEW g
  PROVE  /\ Gone(s, g) => AllFit(s, r, p, g)
         /\ Gone(s, g) /\ r \notin g => ~Has(s, r, p) /\ Once(s, r, p)
         /\ AllFit(s, r, p, g) /\ ~Has(s, r, p) => Gone(s, g)
         /\ AllFit(s, r, p, g) => Gone(s, g \cup {r})
         /\ \A h : Gone(s, g) /\ g \subseteq h => Gone(s, h)
<1> USE DEF Gone, AllFit, Fits, Mine
<1>1. Gone(s, g) => AllFit(s, r, p, g)
  OBVIOUS
<1>2. Gone(s, g) /\ r \notin g => ~Has(s, r, p) /\ Once(s, r, p)
  BY DEF Has, Once
<1>3. AllFit(s, r, p, g) /\ ~Has(s, r, p) => Gone(s, g)
  BY DEF Has
<1>4. AllFit(s, r, p, g) => Gone(s, g \cup {r})
  OBVIOUS
<1>5. \A h : Gone(s, g) /\ g \subseteq h => Gone(s, h)
  OBVIOUS
<1> QED BY <1>1, <1>2, <1>3, <1>4, <1>5

LEMMA GoneThinned ==
  ASSUME NEW s, NEW t, Thinned(t, s), NEW g
  PROVE  Gone(s, g) => Gone(t, g)
BY ThinnedKeeps DEF Gone

LEMMA ThinnedSelf == \A s : Thinned(s, s)
<1> SUFFICES ASSUME NEW s PROVE Thinned(s, s)
  OBVIOUS
<1> DEFINE f == [i \in DOMAIN s |-> i]
<1>1. f \in [DOMAIN s -> DOMAIN s] /\ \A i \in DOMAIN s : f[i] = i
  OBVIOUS
<1> HIDE DEF f
<1> QED BY <1>1 DEF Thinned

LEMMA ThinnedEmpty == \A s : Thinned(<< >>, s)
<1> SUFFICES ASSUME NEW s PROVE Thinned(<< >>, s)
  OBVIOUS
<1>1. DOMAIN << >> = {}
  OBVIOUS
<1> DEFINE f == [i \in {} |-> i]
<1>2. f \in [{} -> DOMAIN s]
  OBVIOUS
<1> HIDE DEF f
<1> QED BY <1>1, <1>2 DEF Thinned

(* Tokens. *)
LEMMA TokenTypes ==
  /\ Start \in Tokens /\ Start.of = NULL
  /\ NoQuery \in Tokens
  /\ Message("started", NULL, 0) \in Tokens /\ Message("started", NULL, 0).of = NULL
  /\ \A k \in {"query", "ok", "error"}, r \in Calls \cup {NULL}, p \in Nat :
       LET m == Message(k, r, p)
       IN  m \in Tokens /\ m.of = r /\ m.page = p
  /\ \A m \in Tokens : m.of \in Calls \cup {NULL} /\ m.page \in Nat
BY DEF Start, NoQuery, Message, Tokens

LEMMA BufferTypes ==
  ASSUME LineType
  PROVE  /\ outBuf.left \in Nat /\ outBuf.msg \in Tokens
         /\ outBuf.left > 0 => Unwritten = <<outBuf.msg>>
         /\ outBuf.left = 0 => Unwritten = << >>
         /\ ctrl.mode = "busy" => InWork = <<ctrl.query>>
         /\ ctrl.mode # "busy" => InWork = << >>
         /\ ctrl.query \in Tokens
         /\ Unwritten \in Seq(Tokens) /\ InWork \in Seq(Tokens)
<1>1. /\ outBuf.left \in Nat /\ outBuf.msg \in Tokens /\ ctrl.query \in Tokens
  BY DEF LineType
<1>2. << >> \in Seq(Tokens) /\ <<outBuf.msg>> \in Seq(Tokens) /\ <<ctrl.query>> \in Seq(Tokens)
  BY <1>1, EmptySeq
<1> QED BY <1>1, <1>2 DEF Unwritten, InWork

(* When every request whose messages are left was given up, whatever comes *)
(* next is alone.                                                          *)
LEMMA GoneUnderway ==
  ASSUME LineType', events' => write',
         AllGone(givenUp', Unwritten', toCtrl', InWork', toDaemon', inBuf')
  PROVE  OneUnderway'
<1>1. ASSUME NEW s, Gone(s, givenUp')
      PROVE  /\ AllFit(s, req', page', givenUp')
             /\ req' \notin givenUp' => ~Has(s, req', page') /\ Once(s, req', page')
  BY <1>1, GoneHolds
<1>2. /\ AllFit(Unwritten', req', page', givenUp') /\ AllFit(toCtrl', req', page', givenUp')
      /\ AllFit(InWork', req', page', givenUp') /\ AllFit(toDaemon', req', page', givenUp')
      /\ AllFit(inBuf', req', page', givenUp')
  BY <1>1 DEF AllGone
<1>3. req' \notin givenUp' =>
        None(req', page', Unwritten', toCtrl', InWork', toDaemon', inBuf')
  BY <1>1 DEF AllGone, None
<1>4. req' \notin givenUp' =>
        Single(req', page', Unwritten', toCtrl', InWork', toDaemon', inBuf')
  BY <1>1 DEF AllGone, Single
<1> QED BY <1>2, <1>3, <1>4 DEF OneUnderway

(* The messages left, once the current one is given up.                    *)
LEMMA GivenUpGone ==
  ASSUME OneUnderway
  PROVE  AllGone(givenUp \cup {req}, Unwritten, toCtrl, InWork, toDaemon, inBuf)
BY GoneHolds DEF OneUnderway, AllGone

LEMMA IdleGone ==
  ASSUME OneUnderway, req = NULL
  PROVE  AllGone(givenUp, Unwritten, toCtrl, InWork, toDaemon, inBuf)
<1>1. \A s : AllFit(s, NULL, page, givenUp) => Gone(s, givenUp)
  BY DEF Gone, AllFit, Fits, Mine
<1> QED BY <1>1 DEF OneUnderway, AllGone

(* avr_door_ctrl_complete_request leaves the line alone but for the reset. *)
LEMMA CompleteLine ==
  ASSUME LineType, NEW r, NEW result, NEW own, NEW w, CompleteRequest(r, result, own, w)
  PROVE  /\ page' = 0 /\ write' = (w \/ pending # << >>)
         /\ ctrl' \in [mode : {"idle", "busy", "hung", "booting"}, query : Tokens]
         /\ InWork' = << >> \/ InWork' = InWork
         /\ givenUp' = IF own THEN givenUp ELSE givenUp \cup {r}
<1>1. /\ page' = 0 /\ write' = (w \/ pending # << >>)
      /\ givenUp' = IF own THEN givenUp ELSE givenUp \cup {r}
  BY DEF CompleteRequest, SendNextRequest
<1>2. ctrl' = [mode |-> "booting", query |-> NoQuery] \/ ctrl' = ctrl
  BY DEF CompleteRequest
<1>3. CASE ctrl' = [mode |-> "booting", query |-> NoQuery]
  BY <1>1, <1>3, TokenTypes DEF InWork
<1>4. CASE ctrl' = ctrl
  BY <1>1, <1>4 DEF InWork, LineType
<1> QED BY <1>2, <1>3, <1>4

(* A request is completed: what is left of it, or nothing, is given up.    *)
LEMMA CompleteUnderway ==
  ASSUME LineType, NEW result, NEW own, NEW w, CompleteRequest(req, result, own, w),
         events' => w, outBuf' \in [msg : Tokens, left : Nat],
         toCtrl' \in Seq(Tokens), toDaemon' \in Seq(Tokens), inBuf' \in Seq(Tokens),
         AllGone(IF own THEN givenUp ELSE givenUp \cup {req},
                 Unwritten', toCtrl', InWork, toDaemon', inBuf')
  PROVE  OneUnderway'
<1>1. /\ page' = 0 /\ write' = (w \/ pending # << >>)
      /\ ctrl' \in [mode : {"idle", "busy", "hung", "booting"}, query : Tokens]
      /\ InWork' = << >> \/ InWork' = InWork
      /\ givenUp' = IF own THEN givenUp ELSE givenUp \cup {req}
  BY CompleteLine
<1>2. LineType'
  BY <1>1 DEF LineType
<1>3. events' => write'
  BY <1>1
<1>4. Gone(InWork', givenUp')
  <2>1. Gone(InWork, givenUp')
    BY <1>1 DEF AllGone
  <2>2. Gone(<< >>, givenUp')
    BY EmptyHolds DEF Gone
  <2>3. CASE InWork' = << >>
    BY <2>2, <2>3 DEF Gone
  <2>4. CASE InWork' = InWork
    BY <2>1, <2>4 DEF Gone
  <2> QED BY <1>1, <2>3, <2>4
<1>5. AllGone(givenUp', Unwritten', toCtrl', InWork', toDaemon', inBuf')
  BY <1>1, <1>4 DEF AllGone
<1> QED BY <1>2, <1>3, <1>5, GoneUnderway


(* A step that leaves the current request alone: the messages still fit,   *)
(* and there is still one of it at most.                                   *)
LEMMA KeptUnderway ==
  ASSUME OneUnderway, LineType', events' => write', UNCHANGED <<req, page, givenUp>>,
         AllFit(Unwritten', req, page, givenUp), AllFit(toCtrl', req, page, givenUp),
         AllFit(InWork', req, page, givenUp), AllFit(toDaemon', req, page, givenUp),
         AllFit(inBuf', req, page, givenUp),
         req \notin givenUp => Single(req, page, Unwritten', toCtrl', InWork', toDaemon', inBuf'),
         req \notin givenUp /\ outBuf'.left = 0 /\ write'
           => None(req, page, Unwritten', toCtrl', InWork', toDaemon', inBuf')
  PROVE  OneUnderway'
<1>1. req' = req /\ page' = page /\ givenUp' = givenUp
  OBVIOUS
<1>2. /\ AllFit(Unwritten', req', page', givenUp') /\ AllFit(toCtrl', req', page', givenUp')
      /\ AllFit(InWork', req', page', givenUp') /\ AllFit(toDaemon', req', page', givenUp')
      /\ AllFit(inBuf', req', page', givenUp')
  BY <1>1
<1>3. req' \notin givenUp' => Single(req', page', Unwritten', toCtrl', InWork', toDaemon', inBuf')
  BY <1>1
<1>4. req' \notin givenUp' /\ outBuf'.left = 0 /\ write'
           => None(req', page', Unwritten', toCtrl', InWork', toDaemon', inBuf')
  BY <1>1
<1> QED BY <1>2, <1>3, <1>4 DEF OneUnderway

(* A step that at most loses messages, and has the next one written only   *)
(* when it was to be written.                                              *)
LEMMA ThinnedUnderway ==
  ASSUME OneUnderway, LineType', events' => write', UNCHANGED <<req, page, givenUp>>,
         Thinned(Unwritten', Unwritten), Thinned(toCtrl', toCtrl), Thinned(InWork', InWork),
         Thinned(toDaemon', toDaemon), Thinned(inBuf', inBuf),
         outBuf'.left = 0 /\ write' => outBuf.left = 0 /\ write
  PROVE  OneUnderway'
<1>1. ASSUME NEW s, NEW t, Thinned(t, s)
      PROVE  /\ AllFit(s, req, page, givenUp) => AllFit(t, req, page, givenUp)
             /\ Has(t, req, page) => Has(s, req, page)
             /\ Once(s, req, page) => Once(t, req, page)
  BY <1>1, ThinnedKeeps
<1>2. /\ AllFit(Unwritten', req, page, givenUp) /\ AllFit(toCtrl', req, page, givenUp)
      /\ AllFit(InWork', req, page, givenUp) /\ AllFit(toDaemon', req, page, givenUp)
      /\ AllFit(inBuf', req, page, givenUp)
  BY <1>1 DEF OneUnderway
<1>3. ASSUME req \notin givenUp
      PROVE  Single(req, page, Unwritten', toCtrl', InWork', toDaemon', inBuf')
  <2>1. Single(req, page, Unwritten, toCtrl, InWork, toDaemon, inBuf)
    BY <1>3 DEF OneUnderway
  <2> QED BY <1>1, <2>1 DEF Single
<1>4. ASSUME req \notin givenUp, outBuf'.left = 0, write'
      PROVE  None(req, page, Unwritten', toCtrl', InWork', toDaemon', inBuf')
  <2>1. None(req, page, Unwritten, toCtrl, InWork, toDaemon, inBuf)
    BY <1>4 DEF OneUnderway
  <2> QED BY <1>1, <2>1 DEF None
<1> QED BY <1>2, <1>3, <1>4, KeptUnderway

LEMMA MethodCallUnderway ==
  ASSUME IInv, OneUnderway, NEW r, NEW ping, RequestSend(r, ping), r \in Calls,
         UNCHANGED <<events, outBuf, inBuf, givenUp, lineVars>>
  PROVE  OneUnderway'
<1>1. /\ Unwritten' = Unwritten /\ InWork' = InWork
      /\ UNCHANGED <<outBuf, inBuf, toCtrl, toDaemon, ctrl>>
  BY DEF Unwritten, InWork, lineVars
<1>2. CASE req = NULL
  <2>1. SendNextRequest(Append(pending, r), write) /\ Append(pending, r) # << >>
    BY <1>2, QueueType DEF RequestSend, IInv
  <2>2. page' = 0 /\ write' = TRUE
    BY <2>1 DEF SendNextRequest
  <2>3. LineType'
    BY <1>1, <2>2 DEF OneUnderway, LineType
  <2>4. AllGone(givenUp', Unwritten', toCtrl', InWork', toDaemon', inBuf')
    BY <1>1, <1>2, IdleGone
  <2> QED BY <2>2, <2>3, <2>4, GoneUnderway
<1>3. CASE req # NULL
  <2>1. UNCHANGED <<req, page, write>>
    BY <1>3 DEF RequestSend
  <2>2. LineType' /\ (events' => write')
    BY <1>1, <2>1 DEF OneUnderway, LineType
  <2> QED BY <1>1, <2>1, <2>2, ThinnedSelf, ThinnedUnderway
<1> QED BY <1>2, <1>3

LEMMA TimeoutUnderway ==
  ASSUME IInv, OneUnderway, NEW r, OnRequestTimeout(r)
  PROVE  OneUnderway'
<1>1. r = req /\ LineType
  BY DEF OnRequestTimeout, IInv, Watched, OneUnderway
<1>2. /\ CompleteRequest(req, "failed", FALSE, write)
      /\ UNCHANGED <<events, outBuf, inBuf, toCtrl, toDaemon>>
  BY <1>1 DEF OnRequestTimeout
<1>3. Unwritten' = Unwritten
  BY <1>2 DEF Unwritten
<1>4. /\ events' => write
      /\ outBuf' \in [msg : Tokens, left : Nat] /\ toCtrl' \in Seq(Tokens)
      /\ toDaemon' \in Seq(Tokens) /\ inBuf' \in Seq(Tokens)
  BY <1>1, <1>2 DEF OneUnderway, LineType
<1>5. AllGone(IF FALSE THEN givenUp ELSE givenUp \cup {req},
              Unwritten', toCtrl', InWork, toDaemon', inBuf')
  BY <1>2, <1>3, GivenUpGone
<1> QED BY <1>1, <1>2, <1>4, <1>5, CompleteUnderway


-----------------------------------------------------------------------------
(* What uart_ctrl_transport_send has to write.                             *)
LEMMA OutgoingHolds ==
  ASSUME IInv, OneUnderway, req # NULL, Writable
  PROVE  /\ Outgoing.msg \in Tokens /\ Outgoing.left \in Nat /\ Outgoing.left > 0
         /\ Fits(Outgoing.msg, req, page, givenUp)
         /\ outBuf.left > 0 => Unwritten = <<Outgoing.msg>>
         /\ outBuf.left = 0 /\ req \notin givenUp
              => None(req, page, Unwritten, toCtrl, InWork, toDaemon, inBuf)
<1>1. /\ LineType /\ req \in Calls \cup {NULL} /\ page \in Nat
      /\ outBuf.left \in Nat /\ outBuf.msg \in Tokens
      /\ outBuf.left > 0 => Unwritten = <<outBuf.msg>>
  BY BufferTypes DEF IInv, OneUnderway, LineType
<1>2. write
  BY DEF Writable, OneUnderway
<1>3. outBuf.left = 0 /\ req \notin givenUp
        => None(req, page, Unwritten, toCtrl, InWork, toDaemon, inBuf)
  BY <1>2 DEF OneUnderway
<1>4. CASE outBuf.left = 0
  <2>1. Outgoing = [msg |-> Message("query", req, page), left |-> Parts]
    BY <1>4 DEF Outgoing
  <2>2. Outgoing.msg = Message("query", req, page) /\ Outgoing.left = Parts
    BY <2>1
  <2>3. Outgoing.msg \in Tokens /\ Outgoing.msg.of = req /\ Outgoing.msg.page = page
    BY <1>1, <2>2, TokenTypes
  <2>4. Parts \in Nat /\ Parts > 0
    BY DaemonAssumption
  <2> QED BY <1>3, <1>4, <2>2, <2>3, <2>4 DEF Fits, Mine
<1>5. CASE outBuf.left > 0
  <2>1. Outgoing = outBuf
    BY <1>5 DEF Outgoing
  <2>2. Unwritten = <<outBuf.msg>> /\ AllFit(Unwritten, req, page, givenUp)
    BY <1>1, <1>5 DEF OneUnderway
  <2>3. Fits(outBuf.msg, req, page, givenUp)
    BY <2>2, OneHolds
  <2> QED BY <1>1, <1>5, <2>1, <2>2, <2>3
<1> QED BY <1>1, <1>4, <1>5

(* A part of it is written: the rest is in the buffer.                     *)
LEMMA PartWritten ==
  ASSUME IInv, OneUnderway, req # NULL, Writable, NEW n \in 0 .. Outgoing.left - 1, Write(n)
  PROVE  /\ outBuf' \in [msg : Tokens, left : Nat] /\ outBuf'.left > 0
         /\ Unwritten' = <<Outgoing.msg>> /\ toCtrl' = toCtrl
<1>1. Outgoing.msg \in Tokens /\ Outgoing.left \in Nat
  BY OutgoingHolds
<1>2. n # Outgoing.left /\ Outgoing.left - n \in Nat /\ Outgoing.left - n > 0
  BY <1>1
<1>3. outBuf' = [msg |-> Outgoing.msg, left |-> Outgoing.left - n] /\ toCtrl' = toCtrl
  BY <1>2 DEF Write
<1> QED BY <1>1, <1>2, <1>3 DEF Unwritten

LEMMA NothingToWriteUnderway ==
  ASSUME OneUnderway, NothingToWrite
  PROVE  OneUnderway'
<1>1. /\ UNCHANGED <<req, page, givenUp, outBuf, toCtrl, toDaemon, inBuf, ctrl>>
      /\ write' = FALSE /\ events' = FALSE
  BY DEF NothingToWrite, Writable
<1>2. Unwritten' = Unwritten /\ InWork' = InWork
  BY <1>1 DEF Unwritten, InWork
<1>3. LineType'
  BY <1>1 DEF OneUnderway, LineType
<1> QED BY <1>1, <1>2, <1>3, ThinnedSelf, ThinnedUnderway

LEMMA SentUnderway ==
  ASSUME IInv, OneUnderway, Sent
  PROVE  OneUnderway'
<1> DEFINE m == Outgoing.msg
<1>1. /\ Writable /\ req # NULL /\ Write(Outgoing.left)
      /\ UNCHANGED <<req, page, givenUp, toDaemon, inBuf, ctrl>>
      /\ write' = FALSE /\ events' = FALSE
  BY DEF Sent, Writable
<1>2. /\ m \in Tokens /\ Outgoing.left \in Nat /\ Fits(m, req, page, givenUp)
      /\ outBuf.left > 0 => Unwritten = <<m>>
      /\ outBuf.left = 0 /\ req \notin givenUp
           => None(req, page, Unwritten, toCtrl, InWork, toDaemon, inBuf)
  BY <1>1, OutgoingHolds
<1>3. outBuf' = [msg |-> m, left |-> 0] /\ toCtrl' = Append(toCtrl, m)
  BY <1>1, <1>2 DEF Write
<1>4. Unwritten' = << >> /\ InWork' = InWork
  BY <1>1, <1>3 DEF Unwritten, InWork
<1> HIDE DEF m
<1>5. toCtrl \in Seq(Tokens) /\ outBuf.left \in Nat
  BY DEF OneUnderway, LineType
<1>6. /\ toCtrl' \in Seq(Tokens)
      /\ Has(toCtrl', req, page) <=> Has(toCtrl, req, page) \/ Mine(m, req, page)
      /\ Once(toCtrl, req, page) /\ ~(Has(toCtrl, req, page) /\ Mine(m, req, page))
           => Once(toCtrl', req, page)
      /\ \A g : AllFit(toCtrl', req, page, g)
                  <=> AllFit(toCtrl, req, page, g) /\ Fits(m, req, page, g)
  BY <1>2, <1>3, <1>5, AppendHolds
<1>7. LineType'
  BY <1>1, <1>2, <1>3, <1>6 DEF OneUnderway, LineType
<1>8. /\ ~Has(Unwritten', req, page) /\ Once(Unwritten', req, page)
      /\ AllFit(Unwritten', req, page, givenUp)
  BY <1>4, EmptyHolds
<1>9. AllFit(toCtrl', req, page, givenUp)
  BY <1>2, <1>6 DEF OneUnderway
<1>10. ASSUME req \notin givenUp
       PROVE  Single(req, page, Unwritten', toCtrl', InWork', toDaemon', inBuf')
  <2>1. Single(req, page, Unwritten, toCtrl, InWork, toDaemon, inBuf)
    BY <1>10 DEF OneUnderway
  <2>2. Mine(m, req, page) => /\ ~Has(toCtrl, req, page) /\ ~Has(InWork, req, page)
                              /\ ~Has(toDaemon, req, page) /\ ~Has(inBuf, req, page)
    <3>1. CASE outBuf.left = 0
      BY <1>2, <1>10, <3>1 DEF None
    <3>2. CASE outBuf.left > 0
      <4>1. Mine(m, req, page) => Has(Unwritten, req, page)
        BY <1>2, <3>2, OneHolds
      <4> QED BY <2>1, <4>1 DEF Single
    <3> QED BY <1>5, <3>1, <3>2
  <2> QED BY <1>1, <1>4, <1>6, <1>8, <2>1, <2>2 DEF Single
<1>11. /\ AllFit(InWork', req, page, givenUp) /\ AllFit(toDaemon', req, page, givenUp)
       /\ AllFit(inBuf', req, page, givenUp)
  BY <1>1, <1>4 DEF OneUnderway
<1> QED BY <1>1, <1>7, <1>8, <1>9, <1>10, <1>11, KeptUnderway

LEMMA PartlySentUnderway ==
  ASSUME IInv, OneUnderway, PartlySent
  PROVE  OneUnderway'
<1> DEFINE m == Outgoing.msg
<1>1. PICK n \in 0 .. Outgoing.left - 1 : Write(n)
  BY DEF PartlySent
<1>2. /\ Writable /\ req # NULL
      /\ UNCHANGED <<req, page, givenUp, toDaemon, inBuf, ctrl, write>> /\ events' = FALSE
  BY DEF PartlySent, Writable, Untouched
<1>3. /\ outBuf' \in [msg : Tokens, left : Nat] /\ outBuf'.left > 0
      /\ Unwritten' = <<m>> /\ toCtrl' = toCtrl /\ InWork' = InWork
  BY <1>1, <1>2, PartWritten DEF InWork
<1>4. /\ Fits(m, req, page, givenUp)
      /\ outBuf.left > 0 => Unwritten = <<m>>
      /\ outBuf.left = 0 /\ req \notin givenUp
           => None(req, page, Unwritten, toCtrl, InWork, toDaemon, inBuf)
  BY <1>2, OutgoingHolds
<1> HIDE DEF m
<1>5. LineType' /\ outBuf.left \in Nat
  BY <1>2, <1>3 DEF OneUnderway, LineType
<1>6. /\ Has(Unwritten', req, page) <=> Mine(m, req, page)
      /\ Once(Unwritten', req, page) /\ AllFit(Unwritten', req, page, givenUp)
  BY <1>3, <1>4, OneHolds
<1>7. ASSUME req \notin givenUp
      PROVE  Single(req, page, Unwritten', toCtrl', InWork', toDaemon', inBuf')
  <2>1. Single(req, page, Unwritten, toCtrl, InWork, toDaemon, inBuf)
    BY <1>7 DEF OneUnderway
  <2>2. CASE outBuf.left = 0
    BY <1>2, <1>3, <1>4, <1>6, <1>7, <2>1, <2>2 DEF Single, None
  <2>3. CASE outBuf.left > 0
    BY <1>2, <1>3, <1>4, <2>1, <2>3
  <2> QED BY <1>5, <2>2, <2>3
<1>8. /\ AllFit(toCtrl', req, page, givenUp) /\ AllFit(InWork', req, page, givenUp)
      /\ AllFit(toDaemon', req, page, givenUp) /\ AllFit(inBuf', req, page, givenUp)
  BY <1>2, <1>3 DEF OneUnderway
<1>9. outBuf'.left # 0
  BY <1>3
<1> QED BY <1>2, <1>5, <1>6, <1>7, <1>8, <1>9, KeptUnderway

LEMMA SendFailsUnderway ==
  ASSUME IInv, OneUnderway, SendFails
  PROVE  OneUnderway'
<1>1. PICK n \in 0 .. Outgoing.left - 1 : Write(n)
  BY DEF SendFails
<1>2. /\ Writable /\ req # NULL /\ events' = FALSE /\ UNCHANGED <<toDaemon, inBuf>>
      /\ CompleteRequest(req, "failed", FALSE, FALSE)
  BY DEF SendFails, Writable
<1>3. /\ outBuf' \in [msg : Tokens, left : Nat]
      /\ Unwritten' = <<Outgoing.msg>> /\ toCtrl' = toCtrl
  BY <1>1, <1>2, PartWritten
<1>4. AllFit(Unwritten', req, page, givenUp)
  BY <1>2, <1>3, OutgoingHolds, OneHolds
<1>5. Gone(Unwritten', givenUp \cup {req})
  BY <1>4, GoneHolds
<1>6. AllGone(IF FALSE THEN givenUp ELSE givenUp \cup {req},
              Unwritten', toCtrl', InWork, toDaemon', inBuf')
  BY <1>2, <1>3, <1>5, GivenUpGone DEF AllGone
<1>7. LineType /\ toCtrl' \in Seq(Tokens) /\ toDaemon' \in Seq(Tokens) /\ inBuf' \in Seq(Tokens)
  BY <1>2, <1>3 DEF OneUnderway, LineType
<1> QED BY <1>2, <1>3, <1>6, <1>7, CompleteUnderway


(* Of two buffers behind each other only one has what there is once.       *)
LEMMA ConcatSplits ==
  ASSUME NEW S, NEW s \in Seq(S), NEW t \in Seq(S), NEW r, NEW p, Once(s \o t, r, p)
  PROVE  /\ Once(s, r, p) /\ Once(t, r, p)
         /\ ~(Has(s, r, p) /\ Has(t, r, p))
<1> DEFINE u == s \o t
           n == Len(s)
           m == Len(t)
<1>1. /\ n \in Nat /\ m \in Nat /\ DOMAIN s = 1 .. n /\ DOMAIN t = 1 .. m
  BY LenProperties
<1>2. /\ u \in Seq(S) /\ Len(u) = n + m /\ DOMAIN u = 1 .. n + m
      /\ \A i \in 1 .. n + m : u[i] = IF i <= n THEN s[i] ELSE t[i - n]
  <2>1. /\ u \in Seq(S) /\ Len(u) = n + m
        /\ \A i \in 1 .. n + m : u[i] = IF i <= n THEN s[i] ELSE t[i - n]
    BY ConcatProperties
  <2> QED BY <2>1, LenProperties
<1>3. Once(u, r, p)
  OBVIOUS
<1> HIDE DEF u, n, m
<1>4. \A i \in 1 .. n : i \in 1 .. n + m /\ u[i] = s[i]
  BY <1>1, <1>2
<1>5. \A i \in 1 .. m : n + i \in 1 .. n + m /\ u[n + i] = t[i]
  BY <1>1, <1>2
<1>6. Once(s, r, p)
  BY <1>1, <1>2, <1>3, <1>4 DEF Once
<1>7. Once(t, r, p)
  <2> SUFFICES ASSUME NEW i \in 1 .. m, NEW j \in 1 .. m,
                      Mine(t[i], r, p), Mine(t[j], r, p)
               PROVE  i = j
    BY <1>1 DEF Once
  <2>1. n + i = n + j
    BY <1>2, <1>3, <1>5 DEF Once
  <2> QED BY <1>1, <2>1
<1>8. ~(Has(s, r, p) /\ Has(t, r, p))
  <2> SUFFICES ASSUME NEW i \in 1 .. n, NEW j \in 1 .. m,
                      Mine(s[i], r, p), Mine(t[j], r, p)
               PROVE  FALSE
    BY <1>1 DEF Has
  <2>1. i = n + j
    BY <1>2, <1>3, <1>4, <1>5 DEF Once
  <2> QED BY <1>1, <2>1
<1> QED BY <1>6, <1>7, <1>8

(* The start byte is nobody's message.                                     *)
LEMMA AnswerHolds ==
  ASSUME NEW s \in Seq(Tokens), NEW m \in Tokens, NEW r, NEW p
  PROVE  /\ s \o <<Start, m>> \in Seq(Tokens)
         /\ Has(s \o <<Start, m>>, r, p) <=> Has(s, r, p) \/ Mine(m, r, p)
         /\ Once(s, r, p) /\ ~(Has(s, r, p) /\ Mine(m, r, p)) => Once(s \o <<Start, m>>, r, p)
         /\ \A g : AllFit(s \o <<Start, m>>, r, p, g) <=> AllFit(s, r, p, g) /\ Fits(m, r, p, g)
<1>1. Start \in Tokens /\ ~Mine(Start, r, p) /\ \A g : Fits(Start, r, p, g)
  BY TokenTypes DEF Mine, Fits
<1> DEFINE t == <<Start, m>>
<1>2. t \in Seq(Tokens) /\ DOMAIN t = {1, 2} /\ t[1] = Start /\ t[2] = m
  BY <1>1
<1> HIDE DEF t
<1>3. /\ Has(t, r, p) <=> Mine(m, r, p)
      /\ Once(t, r, p)
      /\ \A g : AllFit(t, r, p, g) <=> Fits(m, r, p, g)
  BY <1>1, <1>2 DEF Has, Once, AllFit
<1>4. /\ s \o t \in Seq(Tokens)
      /\ Has(s \o t, r, p) <=> Has(s, r, p) \/ Has(t, r, p)
      /\ Once(s, r, p) /\ Once(t, r, p) /\ ~(Has(s, r, p) /\ Has(t, r, p))
           => Once(s \o t, r, p)
      /\ \A g : AllFit(s \o t, r, p, g) <=> AllFit(s, r, p, g) /\ AllFit(t, r, p, g)
  BY <1>2, ConcatHolds
<1> QED BY <1>3, <1>4 DEF t

-----------------------------------------------------------------------------
(* The controller takes the first query, or drops it.                      *)
LEMMA ArriveUnderway ==
  ASSUME OneUnderway, Arrive
  PROVE  OneUnderway'
<1>1. /\ UNCHANGED <<req, page, givenUp, write, events, outBuf, toDaemon, inBuf>>
      /\ toCtrl # << >> /\ toCtrl' = Tail(toCtrl) /\ toCtrl \in Seq(Tokens) /\ LineType
  BY DEF Arrive, daemonVars, OneUnderway, LineType
<1> DEFINE m == Head(toCtrl)
<1>2. /\ m \in Tokens /\ toCtrl' \in Seq(Tokens) /\ toCtrl = <<m>> \o toCtrl'
      /\ Thinned(toCtrl', toCtrl)
  <2>1. /\ Len(toCtrl) \in Nat /\ Len(toCtrl) # 0 /\ m = toCtrl[1]
        /\ m \in Tokens /\ toCtrl' \in Seq(Tokens) /\ Len(toCtrl') = Len(toCtrl) - 1
        /\ \A i \in 1 .. Len(toCtrl) - 1 : toCtrl'[i] = toCtrl[i + 1]
    BY <1>1, HeadTailProperties, LenProperties, EmptySeq
  <2>2. <<m>> \in Seq(Tokens) /\ Len(<<m>>) = 1
    BY <2>1
  <2> HIDE DEF m
  <2>3. /\ <<m>> \o toCtrl' \in Seq(Tokens) /\ Len(<<m>> \o toCtrl') = Len(toCtrl)
        /\ \A i \in 1 .. Len(toCtrl) :
             (<<m>> \o toCtrl')[i] = IF i <= 1 THEN <<m>>[i] ELSE toCtrl'[i - 1]
    BY <2>1, <2>2, ConcatProperties
  <2>4. \A i \in 1 .. Len(toCtrl) : (<<m>> \o toCtrl')[i] = toCtrl[i]
    BY <2>1, <2>3
  <2>5. toCtrl = <<m>> \o toCtrl'
    BY <1>1, <2>3, <2>4, SeqEqual
  <2>6. Thinned(toCtrl', toCtrl)
    <3> DEFINE f == [i \in DOMAIN toCtrl' |-> i + 1]
    <3>1. DOMAIN toCtrl' = 1 .. Len(toCtrl) - 1 /\ DOMAIN toCtrl = 1 .. Len(toCtrl)
      BY <1>1, <2>1, LenProperties
    <3>2. f \in [DOMAIN toCtrl' -> DOMAIN toCtrl]
      BY <2>1, <3>1
    <3>3. \A i \in DOMAIN toCtrl' :
            /\ toCtrl'[i].of = toCtrl[f[i]].of /\ toCtrl'[i].page = toCtrl[f[i]].page
            /\ \A j \in DOMAIN toCtrl' : f[i] = f[j] => i = j
      BY <2>1, <3>1
    <3> HIDE DEF f
    <3> QED BY <3>2, <3>3 DEF Thinned
  <2> QED BY <2>1, <2>5, <2>6
<1>3. Unwritten' = Unwritten
  BY <1>1 DEF Unwritten
<1>4. CASE ctrl.mode # "idle"
  <2>1. ctrl' = ctrl
    BY <1>4 DEF Arrive
  <2>2. InWork' = InWork
    BY <2>1 DEF InWork
  <2>3. LineType' /\ (events' => write')
    BY <1>1, <1>2, <2>1 DEF OneUnderway, LineType
  <2> QED BY <1>1, <1>2, <1>3, <2>2, <2>3, ThinnedSelf, ThinnedUnderway
<1>5. CASE ctrl.mode = "idle"
  <2>1. ctrl' = [mode |-> "busy", query |-> m]
    BY <1>5 DEF Arrive
  <2>2. InWork' = <<m>> /\ InWork = << >>
    BY <1>5, <2>1 DEF InWork
  <2>3. LineType' /\ (events' => write')
    BY <1>1, <1>2, <2>1 DEF OneUnderway, LineType
  <2>4. <<m>> \in Seq(Tokens)
    BY <1>2
  <2> HIDE DEF m
  <2>5. /\ Has(toCtrl, req, page) <=> Has(<<m>>, req, page) \/ Has(toCtrl', req, page)
        /\ AllFit(toCtrl, req, page, givenUp)
             <=> AllFit(<<m>>, req, page, givenUp) /\ AllFit(toCtrl', req, page, givenUp)
        /\ Once(<<m>>, req, page)
        /\ Once(toCtrl, req, page) => Once(toCtrl', req, page)
    BY <1>2, <2>4, ConcatHolds, OneHolds, ThinnedKeeps
  <2>6. Once(toCtrl, req, page) => ~(Has(<<m>>, req, page) /\ Has(toCtrl', req, page))
    BY <1>2, <2>4, ConcatSplits
  <2>7. /\ AllFit(Unwritten', req, page, givenUp) /\ AllFit(toCtrl', req, page, givenUp)
        /\ AllFit(InWork', req, page, givenUp) /\ AllFit(toDaemon', req, page, givenUp)
        /\ AllFit(inBuf', req, page, givenUp)
    BY <1>1, <1>3, <2>2, <2>5 DEF OneUnderway
  <2>8. ASSUME req \notin givenUp
        PROVE  Single(req, page, Unwritten', toCtrl', InWork', toDaemon', inBuf')
    <3>1. Single(req, page, Unwritten, toCtrl, InWork, toDaemon, inBuf)
      BY <2>8 DEF OneUnderway
    <3> QED BY <1>1, <1>3, <2>2, <2>5, <2>6, <3>1 DEF Single
  <2>9. ASSUME req \notin givenUp, outBuf'.left = 0, write'
        PROVE  None(req, page, Unwritten', toCtrl', InWork', toDaemon', inBuf')
    <3>1. None(req, page, Unwritten, toCtrl, InWork, toDaemon, inBuf)
      BY <1>1, <2>9 DEF OneUnderway
    <3> QED BY <1>1, <1>3, <2>2, <2>5, <3>1 DEF None
  <2> QED BY <1>1, <2>3, <2>7, <2>8, <2>9, KeptUnderway
<1> QED BY <1>4, <1>5

(* The query it works on becomes its answer, behind a start byte.          *)
LEMMA AnswerUnderway ==
  ASSUME OneUnderway, Answer
  PROVE  OneUnderway'
<1>1. /\ UNCHANGED <<req, page, givenUp, write, events, outBuf, toCtrl, inBuf>>
      /\ ctrl.mode = "busy" /\ ctrl' = [mode |-> "idle", query |-> NoQuery]
      /\ LineType /\ toDaemon \in Seq(Tokens) /\ ctrl.query \in Tokens
  BY BufferTypes DEF Answer, daemonVars, OneUnderway, LineType
<1>2. PICK kind \in {"ok", "error"} :
        SendToDaemon(Message(kind, ctrl.query.of, ctrl.query.page))
  BY DEF Answer
<1> DEFINE m == Message(kind, ctrl.query.of, ctrl.query.page)
<1>3. m \in Tokens /\ m.of = ctrl.query.of /\ m.page = ctrl.query.page
  <2>1. ctrl.query.of \in Calls \cup {NULL} /\ ctrl.query.page \in Nat
    BY <1>1, TokenTypes
  <2>2. \A k \in {"query", "ok", "error"}, r \in Calls \cup {NULL}, p \in Nat :
          Message(k, r, p) \in Tokens /\ Message(k, r, p).of = r /\ Message(k, r, p).page = p
    BY TokenTypes
  <2> QED BY <2>1, <2>2
<1>4. toDaemon' = toDaemon \o <<Start, m>>
  BY <1>2 DEF SendToDaemon
<1>5. /\ InWork = <<ctrl.query>> /\ InWork' = << >> /\ Unwritten' = Unwritten
  BY <1>1 DEF InWork, Unwritten
<1> HIDE DEF m
<1>6. /\ Mine(m, req, page) <=> Has(InWork, req, page)
      /\ AllFit(InWork, req, page, givenUp) => Fits(m, req, page, givenUp)
  <2>1. /\ Has(InWork, req, page) <=> Mine(ctrl.query, req, page)
        /\ AllFit(InWork, req, page, givenUp) => Fits(ctrl.query, req, page, givenUp)
    BY <1>5, OneHolds
  <2> QED BY <1>3, <2>1 DEF Mine, Fits
<1>7. /\ toDaemon' \in Seq(Tokens)
      /\ Has(toDaemon', req, page) <=> Has(toDaemon, req, page) \/ Mine(m, req, page)
      /\ Once(toDaemon, req, page) /\ ~(Has(toDaemon, req, page) /\ Mine(m, req, page))
           => Once(toDaemon', req, page)
      /\ AllFit(toDaemon, req, page, givenUp) /\ Fits(m, req, page, givenUp)
           => AllFit(toDaemon', req, page, givenUp)
  BY <1>1, <1>3, <1>4, AnswerHolds
<1>8. LineType' /\ (events' => write')
  BY <1>1, <1>7, TokenTypes DEF OneUnderway, LineType
<1>9. /\ ~Has(InWork', req, page) /\ Once(InWork', req, page)
      /\ AllFit(InWork', req, page, givenUp)
  BY <1>5, EmptyHolds
<1>10. /\ AllFit(Unwritten', req, page, givenUp) /\ AllFit(toCtrl', req, page, givenUp)
       /\ AllFit(InWork', req, page, givenUp) /\ AllFit(toDaemon', req, page, givenUp)
       /\ AllFit(inBuf', req, page, givenUp)
  BY <1>1, <1>5, <1>6, <1>7, <1>9 DEF OneUnderway
<1>11. ASSUME req \notin givenUp
       PROVE  Single(req, page, Unwritten', toCtrl', InWork', toDaemon', inBuf')
  <2>1. Single(req, page, Unwritten, toCtrl, InWork, toDaemon, inBuf)
    BY <1>11 DEF OneUnderway
  <2> QED BY <1>1, <1>5, <1>6, <1>7, <1>9, <2>1 DEF Single
<1>12. ASSUME req \notin givenUp, outBuf'.left = 0, write'
       PROVE  None(req, page, Unwritten', toCtrl', InWork', toDaemon', inBuf')
  <2>1. None(req, page, Unwritten, toCtrl, InWork, toDaemon, inBuf)
    BY <1>1, <1>12 DEF OneUnderway
  <2> QED BY <1>1, <1>5, <1>6, <1>7, <1>9, <2>1 DEF None
<1> QED BY <1>1, <1>8, <1>10, <1>11, <1>12, KeptUnderway

(* The event at the end of a boot belongs to no request.                   *)
LEMMA BootUnderway ==
  ASSUME OneUnderway, Boot
  PROVE  OneUnderway'
<1> DEFINE m == Message("started", NULL, 0)
<1>1. /\ UNCHANGED <<req, page, givenUp, write, events, outBuf, toCtrl, inBuf>>
      /\ ctrl.mode = "booting" /\ ctrl' = [mode |-> "idle", query |-> NoQuery]
      /\ LineType /\ toDaemon \in Seq(Tokens) /\ toDaemon' = toDaemon \o <<Start, m>>
  BY DEF Boot, SendToDaemon, daemonVars, OneUnderway, LineType
<1>2. /\ m \in Tokens /\ ~Mine(m, req, page) /\ Fits(m, req, page, givenUp)
  BY TokenTypes DEF Mine, Fits
<1>3. InWork = << >> /\ InWork' = << >> /\ Unwritten' = Unwritten
  BY <1>1 DEF InWork, Unwritten
<1> HIDE DEF m
<1>4. /\ toDaemon' \in Seq(Tokens)
      /\ Has(toDaemon', req, page) <=> Has(toDaemon, req, page)
      /\ Once(toDaemon, req, page) => Once(toDaemon', req, page)
      /\ AllFit(toDaemon, req, page, givenUp) => AllFit(toDaemon', req, page, givenUp)
  BY <1>1, <1>2, AnswerHolds
<1>5. LineType' /\ (events' => write')
  BY <1>1, <1>4, TokenTypes DEF OneUnderway, LineType
<1>6. /\ AllFit(Unwritten', req, page, givenUp) /\ AllFit(toCtrl', req, page, givenUp)
      /\ AllFit(InWork', req, page, givenUp) /\ AllFit(toDaemon', req, page, givenUp)
      /\ AllFit(inBuf', req, page, givenUp)
  BY <1>1, <1>3, <1>4 DEF OneUnderway
<1>7. ASSUME req \notin givenUp
       PROVE  Single(req, page, Unwritten', toCtrl', InWork', toDaemon', inBuf')
  <2>1. Single(req, page, Unwritten, toCtrl, InWork, toDaemon, inBuf)
    BY <1>7 DEF OneUnderway
  <2> QED BY <1>1, <1>3, <1>4, <2>1 DEF Single
<1>8. ASSUME req \notin givenUp, outBuf'.left = 0, write'
       PROVE  None(req, page, Unwritten', toCtrl', InWork', toDaemon', inBuf')
  <2>1. None(req, page, Unwritten, toCtrl, InWork, toDaemon, inBuf)
    BY <1>1, <1>8 DEF OneUnderway
  <2> QED BY <1>1, <1>3, <1>4, <2>1 DEF None
<1> QED BY <1>1, <1>5, <1>6, <1>7, <1>8, KeptUnderway

LEMMA HangUnderway ==
  ASSUME OneUnderway, HangOrRestart
  PROVE  OneUnderway'
<1>1. /\ UNCHANGED <<req, page, givenUp, write, events, outBuf, toCtrl, toDaemon, inBuf>>
      /\ \E mode \in {"hung", "booting"} : ctrl' = [mode |-> mode, query |-> NoQuery]
  BY DEF HangOrRestart, daemonVars
<1>2. Unwritten' = Unwritten /\ InWork' = << >>
  BY <1>1 DEF Unwritten, InWork
<1>3. LineType' /\ (events' => write')
  BY <1>1, TokenTypes DEF OneUnderway, LineType
<1> QED BY <1>1, <1>2, <1>3, ThinnedSelf, ThinnedEmpty, ThinnedUnderway


LEMMA RemoveAtThinned ==
  ASSUME NEW s \in Seq(Tokens), NEW i \in DOMAIN s
  PROVE  RemoveAt(s, i) \in Seq(Tokens) /\ Thinned(RemoveAt(s, i), s)
<1> DEFINE a == SubSeq(s, 1, i - 1)
           b == SubSeq(s, i + 1, Len(s))
<1>1. /\ Len(s) \in Nat /\ i \in 1 .. Len(s) /\ DOMAIN s = 1 .. Len(s)
  BY LenProperties
<1>2. i - 1 \in 0 .. Len(s) /\ i \in 0 .. Len(s)
  BY <1>1
<1>3. a \in Seq(Tokens) /\ Len(a) = i - 1 /\ \A k \in 1 .. i - 1 : a[k] = s[k]
  BY <1>2, PrefixAndSuffix
<1>4. /\ b \in Seq(Tokens) /\ Len(b) = Len(s) - i
      /\ \A k \in 1 .. Len(s) - i : b[k] = s[i + k]
  BY <1>2, PrefixAndSuffix
<1> HIDE DEF a, b
<1>5. /\ Len(a) = i - 1 /\ DOMAIN a = 1 .. i - 1
      /\ Len(b) = Len(s) - i /\ DOMAIN b = 1 .. Len(s) - i
  BY <1>1, <1>3, <1>4, LenProperties
<1> DEFINE t == a \o b
<1>6. RemoveAt(s, i) = t
  BY DEF RemoveAt, a, b
<1>7. /\ t \in Seq(Tokens) /\ DOMAIN t = 1 .. Len(s) - 1
      /\ \A k \in 1 .. Len(s) - 1 : t[k] = IF k <= i - 1 THEN a[k] ELSE b[k - (i - 1)]
  <2>1. /\ t \in Seq(Tokens) /\ Len(t) = Len(a) + Len(b)
        /\ \A k \in 1 .. Len(a) + Len(b) : t[k] = IF k <= Len(a) THEN a[k] ELSE b[k - Len(a)]
    BY <1>3, <1>4, ConcatProperties
  <2>2. DOMAIN t = 1 .. Len(t)
    BY <2>1, LenProperties
  <2>3. Len(a) + Len(b) = Len(s) - 1
    BY <1>1, <1>5
  <2> HIDE DEF t
  <2> QED BY <1>5, <2>1, <2>2, <2>3
<1> HIDE DEF t
<1> DEFINE f == [k \in DOMAIN t |-> IF k < i THEN k ELSE k + 1]
<1>8. \A k \in DOMAIN t : f[k] \in DOMAIN s /\ t[k] = s[f[k]]
  <2> SUFFICES ASSUME NEW k \in 1 .. Len(s) - 1 PROVE f[k] \in DOMAIN s /\ t[k] = s[f[k]]
    BY <1>7
  <2>1. f[k] = IF k < i THEN k ELSE k + 1
    BY <1>7
  <2> HIDE DEF f
  <2>2. CASE k < i
    <3>1. k \in DOMAIN a /\ t[k] = a[k]
      BY <1>1, <1>5, <1>7, <2>2
    <3> QED BY <1>1, <1>3, <2>1, <2>2, <3>1
  <2>3. CASE ~(k < i)
    <3>1. k - (i - 1) \in DOMAIN b /\ t[k] = b[k - (i - 1)] /\ i + (k - (i - 1)) = k + 1
      BY <1>1, <1>5, <1>7, <2>3
    <3> QED BY <1>1, <1>4, <2>1, <2>3, <3>1
  <2> QED BY <2>2, <2>3
<1>9. f \in [DOMAIN t -> DOMAIN s]
  <2>1. \A k \in DOMAIN t : f[k] \in DOMAIN s
    BY <1>8
  <2> QED BY <2>1
<1>10. \A k, l \in DOMAIN t : f[k] = f[l] => k = l
  BY <1>1, <1>7
<1> HIDE DEF f
<1>11. Thinned(t, s)
  BY <1>8, <1>9, <1>10 DEF Thinned
<1> QED BY <1>6, <1>7, <1>11

LEMMA DamagedThinned ==
  ASSUME NEW s \in Seq(Tokens), NEW i \in DOMAIN s
  PROVE  /\ [s EXCEPT ![i] = Damaged(@)] \in Seq(Tokens)
         /\ Thinned([s EXCEPT ![i] = Damaged(@)], s)
<1> DEFINE t == [s EXCEPT ![i] = Damaged(s[i])]
<1>1. /\ Len(s) \in Nat /\ i \in 1 .. Len(s) /\ DOMAIN s = 1 .. Len(s)
      /\ \A k \in 1 .. Len(s) : s[k] \in Tokens
  BY LenProperties, ElementOfSeq
<1>2. /\ Damaged(s[i]) \in Tokens
      /\ Damaged(s[i]).of = s[i].of /\ Damaged(s[i]).page = s[i].page
  BY <1>1 DEF Damaged, Tokens
<1>3. t \in Seq(Tokens) /\ DOMAIN t = DOMAIN s
  BY <1>1, <1>2, ExceptSeq
<1>4. \A k \in DOMAIN t : t[k].of = s[k].of /\ t[k].page = s[k].page
  BY <1>1, <1>2
<1> HIDE DEF t
<1> DEFINE f == [k \in DOMAIN t |-> k]
<1>5. f \in [DOMAIN t -> DOMAIN s] /\ \A k \in DOMAIN t : f[k] = k
  BY <1>3
<1> HIDE DEF f
<1>6. Thinned(t, s)
  BY <1>4, <1>5 DEF Thinned
<1> QED BY <1>3, <1>6 DEF t

LEMMA LineFailsUnderway ==
  ASSUME OneUnderway, LineFails
  PROVE  OneUnderway'
<1>1. /\ UNCHANGED <<req, page, givenUp, write, events, outBuf, inBuf, ctrl>>
      /\ toCtrl \in Seq(Tokens) /\ toDaemon \in Seq(Tokens)
  BY DEF LineFails, daemonVars, OneUnderway, LineType
<1>2. /\ toCtrl' \in Seq(Tokens) /\ Thinned(toCtrl', toCtrl)
      /\ toDaemon' \in Seq(Tokens) /\ Thinned(toDaemon', toDaemon)
  <2>1. ASSUME NEW s \in Seq(Tokens), NEW t, NEW i \in DOMAIN s,
               t = RemoveAt(s, i) \/ t = [s EXCEPT ![i] = Damaged(@)]
        PROVE  t \in Seq(Tokens) /\ Thinned(t, s)
    BY <2>1, RemoveAtThinned, DamagedThinned
  <2>2. \/ /\ toDaemon' = toDaemon
           /\ \E i \in DOMAIN toCtrl :
                toCtrl' = RemoveAt(toCtrl, i) \/ toCtrl' = [toCtrl EXCEPT ![i] = Damaged(@)]
        \/ /\ toCtrl' = toCtrl
           /\ \E i \in DOMAIN toDaemon :
                toDaemon' = RemoveAt(toDaemon, i) \/ toDaemon' = [toDaemon EXCEPT ![i] = Damaged(@)]
    BY Zenon DEF LineFails
  <2> QED BY <1>1, <2>1, <2>2, ThinnedSelf
<1>3. Unwritten' = Unwritten /\ InWork' = InWork
  BY <1>1 DEF Unwritten, InWork
<1>4. LineType' /\ (events' => write')
  BY <1>1, <1>2 DEF OneUnderway, LineType
<1> QED BY <1>1, <1>2, <1>3, <1>4, ThinnedSelf, ThinnedUnderway


-----------------------------------------------------------------------------
(* What the daemon has received, in the order it came, and what the READ   *)
(* half takes from it: the tokens up to one of them, m.                    *)
Received == inBuf \o toDaemon

Taken(m) ==
  /\ inBuf' \in Seq(Tokens) /\ toDaemon' \in Seq(Tokens)
  /\ \E k \in 1 .. Len(Received) :
       /\ m = Received[k]
       /\ Received' = SubSeq(Received, k + 1, Len(Received))

LEMMA LeastIsIn ==
  ASSUME NEW S \in SUBSET Nat, S # {}
  PROVE  \E i \in S : \A j \in S : i <= j
<1>1. \A r, p \in Nat : r < p => <<r, p>> \in OpToRel(<, Nat)
  BY Zenon DEF OpToRel
<1>2. PICK p \in S : \A r \in S : ~(<<r, p>> \in OpToRel(<, Nat))
  BY WFMin, NatLessThanWellFounded, Zenon
<1>3. \A r \in S : ~(r < p)
  BY <1>1, <1>2, Zenon
<1> QED BY <1>3

LEMMA ConcatAround ==
  \A c, e, d \in Seq(Tokens) : (c \o e) \o d = c \o (e \o d)
BY ConcatAssociative

LEMMA ReadTakes ==
  ASSUME LineType, NEW also, OnReadEvent(also)
  PROVE  \E m : Taken(m) /\ (Untouched \/ RecvBadMsg \/ RecvMsg(m))
<1>1. toDaemon \in Seq(Tokens) /\ inBuf \in Seq(Tokens) /\ toDaemon # << >>
  BY DEF LineType, OnReadEvent
<1>2. Len(toDaemon) \in Nat /\ Len(toDaemon) > 0 /\ Len(inBuf) \in Nat
      /\ (inBuf # << >> => Len(inBuf) > 0)
  BY <1>1, LenProperties, EmptySeq
<1> DEFINE Buf(n) == inBuf \o SubSeq(toDaemon, 1, n)
           Hits(n) == Returning(Buf(n))
           Used(n) == IF Hits(n) = {} THEN Len(Buf(n))
                      ELSE CHOOSE i \in Hits(n) : \A j \in Hits(n) : i <= j
<1>3. PICK n \in IF inBuf = << >> THEN 1 .. Len(toDaemon) ELSE {0} :
        /\ toDaemon' = SubSeq(toDaemon, n + 1, Len(toDaemon))
        /\ inBuf' = SubSeq(Buf(n), Used(n) + 1, Len(Buf(n)))
        /\ IF Hits(n) = {} \/ Buf(n)[Used(n)].kind = "start" THEN Untouched
           ELSE IF Buf(n)[Used(n)].kind = "damaged" THEN RecvBadMsg
           ELSE RecvMsg(Buf(n)[Used(n)])
  BY Zenon DEF OnReadEvent
<1> DEFINE x == SubSeq(toDaemon, 1, n)
           b == Buf(n)
           h == Hits(n)
           k == Used(n)
<1>4. n \in 0 .. Len(toDaemon) /\ (inBuf = << >> => n > 0)
  BY <1>2
<1>5. /\ x \in Seq(Tokens) /\ Len(x) = n
      /\ toDaemon' \in Seq(Tokens) /\ x \o toDaemon' = toDaemon
  BY <1>1, <1>3, <1>4, PrefixAndSuffix
<1>6. b = inBuf \o x
  OBVIOUS
<1>7. h \subseteq DOMAIN b
  BY DEF Returning
<1>8. k = IF h = {} THEN Len(b) ELSE CHOOSE i \in h : \A j \in h : i <= j
  OBVIOUS
<1>9. /\ inBuf' = SubSeq(b, k + 1, Len(b))
      /\ Untouched \/ RecvBadMsg \/ RecvMsg(b[k])
  BY <1>3
<1> HIDE DEF x, b, h, k
<1>10. /\ b \in Seq(Tokens) /\ Len(b) = Len(inBuf) + n /\ DOMAIN b = 1 .. Len(b)
       /\ Len(b) \in Nat /\ Len(b) > 0
  <2>1. b \in Seq(Tokens) /\ Len(b) = Len(inBuf) + n
    BY <1>1, <1>5, <1>6, ConcatProperties
  <2> QED BY <1>2, <1>4, <2>1, LenProperties
<1>11. k \in 1 .. Len(b)
  <2>1. CASE h = {}
    BY <1>8, <1>10, <2>1
  <2>2. CASE h # {}
    <3>1. h \in SUBSET Nat
      BY <1>7, <1>10
    <3>2. \E i \in h : \A j \in h : i <= j
      BY <2>2, <3>1, LeastIsIn
    <3>3. k \in h
      BY <1>8, <2>2, <3>2
    <3> QED BY <1>7, <1>10, <3>3
  <2> QED BY <2>1, <2>2
<1>12. inBuf' \in Seq(Tokens)
  BY <1>9, <1>10, <1>11, PrefixAndSuffix
<1>13. b \o toDaemon' = Received
  BY <1>1, <1>5, <1>6, ConcatAround DEF Received
<1>14. Received' = SubSeq(Received, k + 1, Len(Received))
  <2>1. k \in 0 .. Len(b)
    BY <1>10, <1>11
  <2>2. SubSeq(b, k + 1, Len(b)) \o toDaemon' = SubSeq(b \o toDaemon', k + 1, Len(b \o toDaemon'))
    BY <1>5, <1>10, <2>1, SuffixConcat
  <2> QED BY <1>9, <1>13, <2>2 DEF Received
<1>15. k \in 1 .. Len(Received) /\ Received[k] = b[k]
  <2>1. \A d \in Seq(Tokens) :
          /\ Len(b \o d) = Len(b) + Len(d) /\ Len(d) \in Nat
          /\ \A i \in 1 .. Len(b) + Len(d) :
               (b \o d)[i] = IF i <= Len(b) THEN b[i] ELSE d[i - Len(b)]
    BY <1>10, ConcatProperties, LenProperties
  <2>2. /\ Len(Received) = Len(b) + Len(toDaemon') /\ Len(toDaemon') \in Nat
        /\ \A i \in 1 .. Len(b) + Len(toDaemon') :
             Received[i] = IF i <= Len(b) THEN b[i] ELSE toDaemon'[i - Len(b)]
    BY <1>5, <1>13, <2>1
  <2> QED BY <1>10, <1>11, <2>2
<1>16. Taken(b[k])
  BY <1>5, <1>12, <1>14, <1>15 DEF Taken
<1> QED BY <1>9, <1>16

(* Nothing comes in but what was there, and what is taken is not there any *)
(* more.                                                                   *)
LEMMA TakenHolds ==
  ASSUME OneUnderway, NEW m, Taken(m)
  PROVE  /\ AllFit(inBuf', req, page, givenUp) /\ AllFit(toDaemon', req, page, givenUp)
         /\ m \in Tokens /\ Fits(m, req, page, givenUp)
         /\ Has(inBuf', req, page) \/ Has(toDaemon', req, page) \/ Mine(m, req, page)
              => Has(inBuf, req, page) \/ Has(toDaemon, req, page)
         /\ req \notin givenUp =>
              /\ Once(inBuf', req, page) /\ Once(toDaemon', req, page)
              /\ ~(Has(inBuf', req, page) /\ Has(toDaemon', req, page))
              /\ Mine(m, req, page) => ~Has(inBuf', req, page) /\ ~Has(toDaemon', req, page)
<1> DEFINE z == Received
           y == Received'
<1>1. /\ inBuf \in Seq(Tokens) /\ toDaemon \in Seq(Tokens)
      /\ inBuf' \in Seq(Tokens) /\ toDaemon' \in Seq(Tokens)
      /\ AllFit(inBuf, req, page, givenUp) /\ AllFit(toDaemon, req, page, givenUp)
  BY DEF Taken, OneUnderway, LineType
<1>2. /\ z \in Seq(Tokens)
      /\ Has(z, req, page) <=> Has(inBuf, req, page) \/ Has(toDaemon, req, page)
      /\ AllFit(z, req, page, givenUp)
      /\ Once(inBuf, req, page) /\ Once(toDaemon, req, page)
         /\ ~(Has(inBuf, req, page) /\ Has(toDaemon, req, page)) => Once(z, req, page)
  BY <1>1, ConcatHolds DEF Received
<1>3. /\ y \in Seq(Tokens)
      /\ Has(y, req, page) <=> Has(inBuf', req, page) \/ Has(toDaemon', req, page)
      /\ AllFit(y, req, page, givenUp)
           <=> AllFit(inBuf', req, page, givenUp) /\ AllFit(toDaemon', req, page, givenUp)
  BY <1>1, ConcatHolds DEF Received
<1>4. Once(y, req, page) =>
        /\ Once(inBuf', req, page) /\ Once(toDaemon', req, page)
        /\ ~(Has(inBuf', req, page) /\ Has(toDaemon', req, page))
  BY <1>1, ConcatSplits DEF Received
<1>5. PICK k \in 1 .. Len(z) : m = z[k] /\ y = SubSeq(z, k + 1, Len(z))
  BY DEF Taken
<1> HIDE DEF z, y
<1>6. Len(z) \in Nat /\ k \in 0 .. Len(z) /\ DOMAIN z = 1 .. Len(z) /\ m \in Tokens
  BY <1>2, <1>5, LenProperties, ElementOfSeq
<1>7. /\ Len(y) = Len(z) - k /\ \A i \in 1 .. Len(z) - k : y[i] = z[k + i]
      /\ Thinned(y, z)
  BY <1>2, <1>5, <1>6, PrefixAndSuffix
<1>8. DOMAIN y = 1 .. Len(z) - k
  BY <1>3, <1>7, LenProperties
<1>9. /\ Has(y, req, page) => Has(z, req, page)
      /\ Once(z, req, page) => Once(y, req, page)
      /\ AllFit(y, req, page, givenUp)
  BY <1>2, <1>7, ThinnedKeeps
<1>10. Fits(m, req, page, givenUp) /\ (Mine(m, req, page) => Has(z, req, page))
  BY <1>2, <1>5, <1>6 DEF AllFit, Has
<1>11. Once(z, req, page) /\ Mine(m, req, page) => ~Has(y, req, page)
  <2> SUFFICES ASSUME Once(z, req, page), Mine(z[k], req, page),
                      NEW i \in 1 .. Len(z) - k, Mine(z[k + i], req, page)
               PROVE  FALSE
    BY <1>5, <1>7, <1>8 DEF Has
  <2>1. k + i \in DOMAIN z /\ k + i # k
    BY <1>5, <1>6
  <2> QED BY <1>5, <1>6, <2>1 DEF Once
<1>12. ASSUME req \notin givenUp PROVE Once(z, req, page)
  BY <1>2, <1>12 DEF OneUnderway, Single
<1> QED BY <1>2, <1>3, <1>4, <1>6, <1>9, <1>10, <1>11, <1>12


(* The answer of the current request was taken: nothing of it is left.     *)
LEMMA TakenGone ==
  ASSUME OneUnderway, NEW m, Taken(m), UNCHANGED <<outBuf, toCtrl>>,
         NEW own, own => Mine(m, req, page)
  PROVE  AllGone(IF own THEN givenUp ELSE givenUp \cup {req},
                 Unwritten', toCtrl', InWork, toDaemon', inBuf')
<1> DEFINE g == IF own THEN givenUp ELSE givenUp \cup {req}
<1>1. /\ AllFit(inBuf', req, page, givenUp) /\ AllFit(toDaemon', req, page, givenUp)
      /\ Mine(m, req, page) => Has(inBuf, req, page) \/ Has(toDaemon, req, page)
      /\ req \notin givenUp /\ Mine(m, req, page)
           => ~Has(inBuf', req, page) /\ ~Has(toDaemon', req, page)
  BY TakenHolds
<1>2. Unwritten' = Unwritten /\ toCtrl' = toCtrl
  BY DEF Unwritten
<1>3. /\ AllFit(Unwritten, req, page, givenUp) /\ AllFit(toCtrl, req, page, givenUp)
      /\ AllFit(InWork, req, page, givenUp)
  BY DEF OneUnderway
<1>4. CASE ~own \/ req \in givenUp
  <2>1. g = givenUp \cup {req}
    BY <1>4
  <2>2. \A s : AllFit(s, req, page, givenUp) => Gone(s, g)
    BY <2>1, GoneHolds
  <2> HIDE DEF g
  <2>3. AllGone(g, Unwritten', toCtrl', InWork, toDaemon', inBuf')
    BY <1>1, <1>2, <1>3, <2>2 DEF AllGone
  <2> QED BY <2>3 DEF g
<1>5. CASE own /\ req \notin givenUp
  <2>1. Single(req, page, Unwritten, toCtrl, InWork, toDaemon, inBuf)
    BY <1>5 DEF OneUnderway
  <2>2. /\ ~Has(Unwritten, req, page) /\ ~Has(toCtrl, req, page) /\ ~Has(InWork, req, page)
        /\ ~Has(inBuf', req, page) /\ ~Has(toDaemon', req, page)
    BY <1>1, <1>5, <2>1 DEF Single
  <2>3. \A s : AllFit(s, req, page, givenUp) /\ ~Has(s, req, page) => Gone(s, givenUp)
    BY GoneHolds
  <2>4. AllGone(givenUp, Unwritten', toCtrl', InWork, toDaemon', inBuf')
    BY <1>1, <1>2, <1>3, <2>2, <2>3 DEF AllGone
  <2> QED BY <1>5, <2>4
<1> QED BY <1>4, <1>5

(* A part of an answer is taken, or the answer of no request.              *)
LEMMA UntouchedUnderway ==
  ASSUME OneUnderway, NEW m, Taken(m), Untouched, UNCHANGED <<outBuf, toCtrl>>,
         events' => write
  PROVE  OneUnderway'
<1>1. /\ UNCHANGED <<req, page, givenUp, write, outBuf, toCtrl, ctrl>>
      /\ inBuf' \in Seq(Tokens) /\ toDaemon' \in Seq(Tokens)
  BY DEF Untouched, Taken
<1>2. Unwritten' = Unwritten /\ InWork' = InWork
  BY <1>1 DEF Unwritten, InWork
<1>3. /\ AllFit(inBuf', req, page, givenUp) /\ AllFit(toDaemon', req, page, givenUp)
      /\ Has(inBuf', req, page) \/ Has(toDaemon', req, page)
           => Has(inBuf, req, page) \/ Has(toDaemon, req, page)
      /\ req \notin givenUp =>
           /\ Once(inBuf', req, page) /\ Once(toDaemon', req, page)
           /\ ~(Has(inBuf', req, page) /\ Has(toDaemon', req, page))
  BY TakenHolds
<1>4. LineType' /\ (events' => write')
  BY <1>1 DEF OneUnderway, LineType
<1>5. /\ AllFit(Unwritten', req, page, givenUp) /\ AllFit(toCtrl', req, page, givenUp)
      /\ AllFit(InWork', req, page, givenUp)
  BY <1>1, <1>2 DEF OneUnderway
<1>6. ASSUME req \notin givenUp
      PROVE  Single(req, page, Unwritten', toCtrl', InWork', toDaemon', inBuf')
  <2>1. Single(req, page, Unwritten, toCtrl, InWork, toDaemon, inBuf)
    BY <1>6 DEF OneUnderway
  <2> QED BY <1>1, <1>2, <1>3, <1>6, <2>1 DEF Single
<1>7. ASSUME req \notin givenUp, outBuf'.left = 0, write'
      PROVE  None(req, page, Unwritten', toCtrl', InWork', toDaemon', inBuf')
  <2>1. None(req, page, Unwritten, toCtrl, InWork, toDaemon, inBuf)
    BY <1>1, <1>7 DEF OneUnderway
  <2> QED BY <1>1, <1>2, <1>3, <2>1 DEF None
<1> QED BY <1>1, <1>3, <1>4, <1>5, <1>6, <1>7, KeptUnderway

LEMMA ReadUnderway ==
  ASSUME OneUnderway, NEW also, OnReadEvent(also)
  PROVE  OneUnderway'
<1>1. LineType
  BY DEF OneUnderway
<1>2. PICK m : Taken(m) /\ (Untouched \/ RecvBadMsg \/ RecvMsg(m))
  BY <1>1, ReadTakes
<1>3. UNCHANGED <<outBuf, toCtrl>> /\ (events' => write)
  BY DEF OnReadEvent
<1>4. /\ outBuf' \in [msg : Tokens, left : Nat] /\ toCtrl' \in Seq(Tokens)
      /\ toDaemon' \in Seq(Tokens) /\ inBuf' \in Seq(Tokens)
      /\ m \in Tokens
  BY <1>1, <1>2, <1>3, TakenHolds DEF LineType, Taken
<1>5. CASE Untouched
  BY <1>2, <1>3, <1>5, UntouchedUnderway
<1>6. ASSUME NEW own, own => Mine(m, req, page), NEW result,
             CompleteRequest(req, result, own, write)
      PROVE  OneUnderway'
  <2>1. AllGone(IF own THEN givenUp ELSE givenUp \cup {req},
                Unwritten', toCtrl', InWork, toDaemon', inBuf')
    BY <1>2, <1>3, <1>6, TakenGone
  <2> QED BY <1>1, <1>3, <1>4, <1>6, <2>1, CompleteUnderway
<1>7. ASSUME req # NULL, NextPage(m)
      PROVE  OneUnderway'
  <2>1. /\ page' = m.page + 1 /\ write' = TRUE /\ ctrl' = ctrl
        /\ givenUp' = IF IsOwn(m) THEN givenUp ELSE givenUp \cup {req}
    BY <1>7 DEF NextPage
  <2>2. IsOwn(m) => Mine(m, req, page)
    BY <1>7 DEF IsOwn, Mine
  <2>3. AllGone(IF IsOwn(m) THEN givenUp ELSE givenUp \cup {req},
                Unwritten', toCtrl', InWork, toDaemon', inBuf')
    BY <1>2, <1>3, <2>2, TakenGone
  <2>4. InWork' = InWork
    BY <2>1 DEF InWork
  <2>5. AllGone(givenUp', Unwritten', toCtrl', InWork', toDaemon', inBuf')
    BY <2>1, <2>3, <2>4
  <2>6. page' \in Nat
    BY <1>4, <2>1, TokenTypes
  <2>7. LineType' /\ (events' => write')
    BY <1>1, <1>4, <2>1, <2>6 DEF LineType
  <2> QED BY <2>5, <2>7, GoneUnderway
<1>8. CASE RecvBadMsg
  <2>1. CASE req = NULL
    BY <1>5, <1>8, <2>1 DEF RecvBadMsg
  <2>2. CASE req # NULL
    BY <1>6, <1>8, <2>2 DEF RecvBadMsg
  <2> QED BY <2>1, <2>2
<1>9. CASE RecvMsg(m)
  <2>1. CASE req = NULL
    BY <1>5, <1>9, <2>1 DEF RecvMsg
  <2>2. CASE req # NULL /\ (m.kind # "ok" \/ TooShort(m))
    <3>1. CompleteRequest(req, "failed", IsOwn(m) /\ m.kind # "started", write)
      BY <1>9, <2>2, Zenon DEF RecvMsg
    <3>2. IsOwn(m) /\ m.kind # "started" => Mine(m, req, page)
      BY <2>2 DEF IsOwn, Mine
    <3> QED BY <1>6, <3>1, <3>2
  <2>3. CASE req # NULL /\ m.kind = "ok" /\ ~TooShort(m)
    <3>1. IF req \in Lists /\ m.page < LastPage
          THEN NextPage(m) ELSE CompleteRequest(req, "ok", IsOwn(m), write)
      BY <1>9, <2>3, Zenon DEF RecvMsg
    <3>2. IsOwn(m) => Mine(m, req, page)
      BY <2>3 DEF IsOwn, Mine
    <3> QED BY <1>6, <1>7, <2>3, <3>1, <3>2
  <2> QED BY <2>1, <2>2, <2>3
<1> QED BY <1>2, <1>5, <1>8, <1>9

-----------------------------------------------------------------------------
LEMMA InitOneUnderway == Init => OneUnderway
<1> SUFFICES ASSUME Init PROVE OneUnderway
  OBVIOUS
<1>1. /\ page = 0 /\ outBuf = [msg |-> NoQuery, left |-> 0] /\ events = FALSE /\ req = NULL
      /\ toCtrl = << >> /\ toDaemon = << >> /\ inBuf = << >>
      /\ ctrl = [mode |-> "idle", query |-> NoQuery]
  BY DEF Init
<1>2. Unwritten = << >> /\ InWork = << >>
  BY <1>1 DEF Unwritten, InWork
<1>3. LineType
  BY <1>1, TokenTypes, EmptySeq DEF LineType
<1>4. /\ ~Has(<< >>, req, page) /\ Once(<< >>, req, page)
      /\ AllFit(<< >>, req, page, givenUp)
  BY EmptyHolds
<1>5. /\ Single(req, page, Unwritten, toCtrl, InWork, toDaemon, inBuf)
      /\ None(req, page, Unwritten, toCtrl, InWork, toDaemon, inBuf)
  BY <1>1, <1>2, <1>4 DEF Single, None
<1> QED BY <1>1, <1>2, <1>3, <1>4, <1>5 DEF OneUnderway

LEMMA NextOneUnderway == IInv /\ OneUnderway /\ [Next]_vars => OneUnderway'
<1> SUFFICES ASSUME IInv, OneUnderway, [Next]_vars PROVE OneUnderway'
  OBVIOUS
<1>1. ASSUME NEW r \in Requests, MethodCall(r) PROVE OneUnderway'
  BY <1>1, MethodCallUnderway DEF MethodCall, Calls
<1>2. ASSUME NEW r \in Requests \cup {PING}, OnRequestTimeout(r) PROVE OneUnderway'
  BY <1>2, TimeoutUnderway
<1>3. CASE OnPingTimeout
  BY <1>3, MethodCallUnderway DEF OnPingTimeout, Calls
<1>4. ASSUME NEW also \in BOOLEAN, OnReadEvent(also) PROVE OneUnderway'
  BY <1>4, ReadUnderway
<1>5. CASE OnWriteEvent
  BY <1>5, NothingToWriteUnderway, SentUnderway, PartlySentUnderway, SendFailsUnderway
     DEF OnWriteEvent
<1>6. CASE UNCHANGED vars
  BY <1>6 DEF vars, daemonVars, lineVars, OneUnderway, LineType, Unwritten, InWork
<1> QED BY <1>1, <1>2, <1>3, <1>4, <1>5, <1>6, ArriveUnderway, AnswerUnderway,
           BootUnderway, HangUnderway, LineFailsUnderway DEF Next

(* The five buffers, one behind the other.                                 *)
LEMMA OneUnderwayInStep == OneUnderway => InStep
<1> SUFFICES ASSUME OneUnderway PROVE InStep
  OBVIOUS
<1> DEFINE c == toDaemon \o inBuf
           b == InWork \o c
           a == toCtrl \o b
<1>1. /\ Unwritten \in Seq(Tokens) /\ InWork \in Seq(Tokens) /\ toCtrl \in Seq(Tokens)
      /\ toDaemon \in Seq(Tokens) /\ inBuf \in Seq(Tokens)
  BY BufferTypes DEF OneUnderway, LineType
<1>2. ASSUME NEW s \in Seq(Tokens), NEW t \in Seq(Tokens)
      PROVE  /\ s \o t \in Seq(Tokens)
             /\ Has(s \o t, req, page) <=> Has(s, req, page) \/ Has(t, req, page)
             /\ Once(s, req, page) /\ Once(t, req, page)
                /\ ~(Has(s, req, page) /\ Has(t, req, page)) => Once(s \o t, req, page)
             /\ AllFit(s, req, page, givenUp) /\ AllFit(t, req, page, givenUp)
                  => AllFit(s \o t, req, page, givenUp)
  BY ConcatHolds
<1>3. /\ c \in Seq(Tokens) /\ AllFit(c, req, page, givenUp)
      /\ Has(c, req, page) <=> Has(toDaemon, req, page) \/ Has(inBuf, req, page)
      /\ req \notin givenUp => Once(c, req, page)
  BY <1>1, <1>2 DEF OneUnderway, Single
<1> HIDE DEF c
<1>4. /\ b \in Seq(Tokens) /\ AllFit(b, req, page, givenUp)
      /\ Has(b, req, page) <=> Has(InWork, req, page) \/ Has(c, req, page)
      /\ req \notin givenUp => Once(b, req, page)
  BY <1>1, <1>2, <1>3 DEF OneUnderway, Single
<1> HIDE DEF b
<1>5. /\ a \in Seq(Tokens) /\ AllFit(a, req, page, givenUp)
      /\ Has(a, req, page) <=> Has(toCtrl, req, page) \/ Has(b, req, page)
      /\ req \notin givenUp => Once(a, req, page)
  BY <1>1, <1>2, <1>3, <1>4 DEF OneUnderway, Single
<1> HIDE DEF a
<1>6. OnTheWay = Unwritten \o a
  BY DEF OnTheWay, a, b, c
<1>7. /\ AllFit(OnTheWay, req, page, givenUp)
      /\ req \notin givenUp => Once(OnTheWay, req, page)
  BY <1>1, <1>2, <1>3, <1>4, <1>5, <1>6 DEF OneUnderway, Single
<1>8. \A i \in Underway : OnTheWay[i].of \in givenUp \/ IsOwn(OnTheWay[i])
  BY <1>7 DEF Underway, AllFit, Fits, Mine, IsOwn
<1>9. ASSUME req \notin givenUp, NEW i \in Underway, NEW j \in Underway,
             IsOwn(OnTheWay[i]), IsOwn(OnTheWay[j])
      PROVE  i = j
  BY <1>7, <1>9 DEF Underway, Once, Mine, IsOwn
<1> QED BY <1>8, <1>9 DEF InStep

(* The messages carry no identification; still, what is under way belongs  *)
(* to the current request, once, or to a request that was given up         *)
(* (avr_door_ctrl_on_transport_event, uart_ctrl_transport_send and         *)
(* avr_door_ctrl_recv_msg).                                                *)
THEOREM AnswersInStep == Spec => []InStep
<1>1. Init => IInv /\ OneUnderway
  BY InitIInv, InitOneUnderway
<1>2. (IInv /\ OneUnderway) /\ [Next]_vars => (IInv /\ OneUnderway)'
  BY NextIInv, NextOneUnderway
<1>3. Spec => [](IInv /\ OneUnderway)
  BY <1>1, <1>2, PTL DEF Spec
<1>4. IInv /\ OneUnderway => InStep
  BY OneUnderwayInStep
<1> QED BY <1>3, <1>4, PTL

=============================================================================
