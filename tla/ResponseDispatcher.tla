------------------------- MODULE ResponseDispatcher -------------------------
(***************************************************************************)
(* transport/dispatcher.py: threads that send a request and wait for its   *)
(* response, the one reader thread that routes every frame, callbacks for  *)
(* unsolicited frames, and close().                                        *)
(*                                                                         *)
(* A step is one section under the dispatcher's condition, or one blocking *)
(* call outside it.  Waiting on the condition is a guard: whoever changes  *)
(* what a waiter looks at notifies, and both deadlines bound the wait.     *)
(* A frame is the number of the request it answers, or 0 (unsolicited).    *)
(* The transport, the device and the callbacks are the environment.        *)
(***************************************************************************)
EXTENDS Naturals, Sequences, FiniteSets

CONSTANTS Threads,              \* threads that call exchange(), by number
          Callbacks,            \* callbacks that may be registered
          MAX_EXCHANGE_FRAMES,  \* _MAX_EXCHANGE_FRAMES
          MaxRequests,          \* bound: calls of exchange()
          MaxFrames             \* bound: frames the device sends

ASSUME DispatcherAssumption ==
    /\ MAX_EXCHANGE_FRAMES \in Nat \ {0}
    /\ MaxRequests \in Nat
    /\ MaxFrames \in Nat
    /\ Threads \subseteq Nat \ {0}

VARIABLES
    closed,      \* _closed
    failed,      \* _failure is set
    callbacks,   \* _event_callbacks and _failure_callbacks
    pending,     \* the threads whose exchange is in _pending
    reader,      \* where _reader_thread is; "none": no such thread is alive
    frame,       \* the frame the reader holds
    \* one _PendingExchange, and the caller's position, per thread
    pc, request, frames, matched, listens, result,
    expired,     \* the deadline it now waits for has passed
    closer,      \* where close() is
    \* environment
    wire,        \* frames sent by the device and not read yet
    broken,      \* the peer is gone
    requests,    \* exchanges begun
    sent,        \* requests that reached the device
    frameCount,  \* frames the device has sent
    \* history
    answered,    \* requests whose response was routed while the caller waited
    abandoned    \* close() gave up waiting for the reader

readerVars == <<reader, frame>>
exchangeVars == <<pc, request, frames, matched, listens, result, expired>>
deviceVars == <<wire, broken, requests, sent, frameCount>>
vars == <<closed, failed, callbacks, pending, readerVars, exchangeVars, closer,
          deviceVars, answered, abandoned>>

Init ==
    /\ closed = FALSE
    /\ failed = FALSE
    /\ callbacks = {}
    /\ pending = {}
    /\ reader = "none"
    /\ frame = 0
    /\ pc = [t \in Threads |-> "idle"]
    /\ request = [t \in Threads |-> 0]
    /\ frames = [t \in Threads |-> <<>>]
    /\ matched = [t \in Threads |-> FALSE]
    /\ listens = [t \in Threads |-> FALSE]
    /\ result = [t \in Threads |-> "none"]
    /\ expired = [t \in Threads |-> FALSE]
    /\ closer = "idle"
    /\ wire = <<>>
    /\ broken = FALSE
    /\ requests = 0
    /\ sent = {}
    /\ frameCount = 0
    /\ answered = {}
    /\ abandoned = FALSE

-----------------------------------------------------------------------------
(* exchange().                                                             *)

(***************************************************************************)
(* The request is registered before it is sent.  A closed or failed        *)
(* dispatcher raises instead, and nothing changes.  Idle threads are alike *)
(* (Remove forgets what they did), so the first of them makes the call.    *)
(***************************************************************************)
Begin(t) ==
    /\ pc[t] = "idle"
    /\ \A u \in Threads : pc[u] = "idle" => t <= u
    /\ ~closed /\ ~failed
    /\ requests < MaxRequests
    /\ requests' = requests + 1
    /\ request' = [request EXCEPT ![t] = requests']
    /\ \E b \in BOOLEAN : listens' = [listens EXCEPT ![t] = b]
    /\ result' = [result EXCEPT ![t] = "none"]
    /\ pending' = pending \cup {t}
    /\ pc' = [pc EXCEPT ![t] = "send"]
    /\ UNCHANGED <<closed, failed, callbacks, readerVars, frames, matched, expired,
                   closer, wire, broken, sent, frameCount, answered, abandoned>>

GoTo(t, label) == pc' = [pc EXCEPT ![t] = label]

Leave(t, what) ==
    /\ result' = [result EXCEPT ![t] = what]
    /\ GoTo(t, "remove")

TransportClosed == closer \in {"joining", "done"}

Send(t) ==
    /\ pc[t] = "send"
    /\ \/ /\ ~TransportClosed
          /\ sent' = IF broken THEN sent ELSE sent \cup {request[t]}
          /\ GoTo(t, "start")
          /\ UNCHANGED result
       \/ /\ TransportClosed \/ broken
          /\ Leave(t, "error")
          /\ UNCHANGED sent
    /\ UNCHANGED <<closed, failed, callbacks, pending, readerVars, request, frames,
                   matched, listens, expired, closer, wire, broken,
                   requests, frameCount, answered, abandoned>>

(***************************************************************************)
(* start(): a reader thread that is still alive is taken for a reader.     *)
(***************************************************************************)
StartRefusedOnFailure == failed \* fault: start() does not look at _closed
StartRefused == closed \/ failed

Start(t) ==
    /\ pc[t] = "start"
    /\ IF StartRefused
         THEN Leave(t, "error") /\ UNCHANGED reader
         ELSE /\ reader' = IF reader = "none" THEN "check" ELSE reader
              /\ GoTo(t, "wait")
              /\ UNCHANGED result
    /\ UNCHANGED <<closed, failed, callbacks, pending, frame, request, frames, matched,
                   listens, expired, closer, deviceVars, answered,
                   abandoned>>

(***************************************************************************)
(* What the waiting loop decides, "none" while it goes on waiting.         *)
(***************************************************************************)
OutcomeDeadlineFirst(t) ==      \* fault: the deadline is tested before the match
    IF failed \/ closed THEN "error"
    ELSE IF expired[t] THEN "timeout"
    ELSE IF matched[t] /\ (listens[t] => expired[t]) THEN "response" ELSE "none"

OutcomeDeaf(t) ==               \* fault: close() and a failure wake nobody
    IF matched[t]
      THEN IF listens[t] => expired[t] THEN "response" ELSE "none"
      ELSE IF expired[t] THEN "timeout" ELSE "none"

Outcome(t) ==
    IF failed \/ closed THEN "error"
    ELSE IF matched[t]
           THEN IF listens[t] => expired[t] THEN "response" ELSE "none"
           ELSE IF expired[t] THEN "timeout" ELSE "none"

Wake(t) ==
    /\ pc[t] = "wait"
    /\ Outcome(t) # "none"
    /\ Leave(t, Outcome(t))
    /\ UNCHANGED <<closed, failed, callbacks, pending, readerVars, request, frames,
                   matched, listens, expired, closer, deviceVars,
                   answered, abandoned>>

Idle(waiting) == waiting = {} /\ callbacks = {}

(***************************************************************************)
(* The finally clause; what the exchange came to is forgotten.  Its answer *)
(* would be a frame nobody asked for, 0, from now on.                      *)
(***************************************************************************)
Remove(t) ==
    /\ pc[t] = "remove"
    /\ pending' = pending \ {t}
    /\ GoTo(t, IF Idle(pending') /\ reader # "none" THEN "join" ELSE "idle")
    /\ frames' = [frames EXCEPT ![t] = <<>>]
    /\ matched' = [matched EXCEPT ![t] = FALSE]
    /\ listens' = [listens EXCEPT ![t] = FALSE]
    /\ expired' = [expired EXCEPT ![t] = FALSE]
    /\ request' = [request EXCEPT ![t] = 0]
    /\ result' = [result EXCEPT ![t] = "none"]
    /\ answered' = answered \ {request[t]}
    /\ sent' = sent \ {request[t]}
    /\ UNCHANGED <<closed, failed, callbacks, readerVars, closer, wire, broken,
                   requests, frameCount, abandoned>>

(***************************************************************************)
(* The reader has ended, or one second has passed.  A thread that is       *)
(* already returning ends sooner than that.                                *)
(***************************************************************************)
Join(t) ==
    /\ pc[t] = "join"
    /\ reader # "exiting"
    /\ GoTo(t, "idle")
    /\ UNCHANGED <<closed, failed, callbacks, pending, readerVars, request, frames,
                   matched, listens, result, expired, closer, deviceVars,
                   answered, abandoned>>

(***************************************************************************)
(* A deadline passes; before the wait begins nobody would look at it.      *)
(***************************************************************************)
Expire(t) ==
    /\ pc[t] = "wait"
    /\ ~expired[t] /\ (matched[t] => listens[t])
    /\ expired' = [expired EXCEPT ![t] = TRUE]
    /\ UNCHANGED <<closed, failed, callbacks, pending, readerVars, pc, request, frames,
                   matched, listens, result, closer, deviceVars, answered,
                   abandoned>>

-----------------------------------------------------------------------------
(* _reader_loop().                                                         *)

ReaderOnly == <<callbacks, pending, exchangeVars, closer, broken, requests, sent,
                frameCount, abandoned>>

Check ==
    /\ reader = "check"
    /\ reader' = IF closed THEN "exiting" ELSE "read"
    /\ UNCHANGED <<closed, failed, frame, wire, answered, ReaderOnly>>

ReadFrame ==
    /\ reader = "read"
    /\ wire # <<>> /\ ~TransportClosed
    /\ frame' = Head(wire)
    /\ wire' = Tail(wire)
    /\ reader' = "dispatch"
    /\ UNCHANGED <<closed, failed, answered, ReaderOnly>>

(***************************************************************************)
(* read_frame times out, or finds the socket detached by close().          *)
(***************************************************************************)
ReadNothing ==
    /\ reader = "read"
    /\ TransportClosed \/ (wire = <<>> /\ ~broken)
    /\ reader' = "idle"
    /\ UNCHANGED <<closed, failed, frame, wire, answered, ReaderOnly>>

(***************************************************************************)
(* read_frame raises: the peer is gone, or close() closed the socket.      *)
(***************************************************************************)
ReadRaises ==
    /\ reader = "read"
    /\ TransportClosed \/ (broken /\ wire = <<>>)
    /\ IF closed THEN reader' = "exiting" /\ UNCHANGED failed
                 ELSE reader' = "publish_failure" /\ failed' = TRUE
    /\ UNCHANGED <<closed, frame, wire, answered, ReaderOnly>>

IdleCheck ==
    /\ reader = "idle"
    /\ reader' = IF Idle(pending) THEN "exiting" ELSE "check"
    /\ UNCHANGED <<closed, failed, frame, wire, answered, ReaderOnly>>

(***************************************************************************)
(* _append_exchange_frame: the oldest frame makes room.                    *)
(***************************************************************************)
AppendedOneMore(s, f) ==        \* fault: ">" for ">="
    Append(IF Len(s) > MAX_EXCHANGE_FRAMES THEN Tail(s) ELSE s, f)

Appended(s, f) == Append(IF Len(s) >= MAX_EXCHANGE_FRAMES THEN Tail(s) ELSE s, f)

(***************************************************************************)
(* The frame answers one registered exchange that has no answer yet, or it *)
(* is unsolicited: kept beside every exchange in progress, and published.  *)
(***************************************************************************)
Dispatch ==
    /\ reader = "dispatch"
    /\ \/ \E t \in pending :
            /\ ~matched[t] /\ request[t] = frame
            /\ frames' = [frames EXCEPT ![t] = Appended(@, frame)]
            /\ matched' = [matched EXCEPT ![t] = TRUE]
            /\ expired' = [expired EXCEPT ![t] = @ /\ ~listens[t]]
            /\ reader' = "check"
       \/ /\ \A t \in pending : matched[t] \/ request[t] # frame
          /\ frames' = [t \in Threads |->
                          IF t \in pending THEN Appended(frames[t], frame) ELSE frames[t]]
          /\ reader' = "publish"
          /\ UNCHANGED <<matched, expired>>
    /\ frame' = 0
    /\ answered' = answered \cup
          {request[t] : t \in {u \in Threads : /\ request[u] = frame
                                               /\ pc[u] \in {"send", "start", "wait"}}}
    /\ UNCHANGED <<closed, failed, callbacks, pending, pc, request, listens, result,
                   closer, deviceVars, abandoned>>

(***************************************************************************)
(* _publish_event and _publish_failure call the callbacks, if any.         *)
(***************************************************************************)
Publish ==
    /\ reader \in {"publish", "publish_failure"}
    /\ reader' = IF reader = "publish" THEN "check" ELSE "exiting"
    /\ UNCHANGED <<closed, failed, frame, wire, answered, ReaderOnly>>

ReaderEnds ==
    /\ reader = "exiting"
    /\ reader' = "none"
    /\ UNCHANGED <<closed, failed, frame, wire, answered, ReaderOnly>>

-----------------------------------------------------------------------------
(* close(): set _closed, close the transport, wait for the reader.         *)

CloseOnly == <<failed, callbacks, pending, readerVars, exchangeVars, broken, requests,
               sent, frameCount, answered>>

Close ==
    /\ closer = "idle"
    /\ closed' = TRUE
    /\ closer' = "closing"
    /\ UNCHANGED <<wire, abandoned, CloseOnly>>

CloseTransport ==
    /\ closer = "closing"
    /\ wire' = <<>>
    /\ closer' = "joining"
    /\ UNCHANGED <<closed, abandoned, CloseOnly>>

(***************************************************************************)
(* join(timeout=2.0) gives up on a reader that is inside a callback.       *)
(***************************************************************************)
CloseJoins ==
    /\ closer = "joining"
    /\ reader \in {"none", "publish", "publish_failure"}
    /\ closer' = "done"
    /\ abandoned' = (reader # "none")
    /\ UNCHANGED <<closed, wire, CloseOnly>>

-----------------------------------------------------------------------------
(* The environment: owners of callbacks, the device and the peer.          *)

AddCallback(c) ==
    /\ c \notin callbacks
    /\ callbacks' = callbacks \cup {c}
    /\ UNCHANGED <<closed, failed, pending, readerVars, exchangeVars, closer, deviceVars,
                   answered, abandoned>>

RemoveCallback(c) ==
    /\ c \in callbacks
    /\ callbacks' = callbacks \ {c}
    /\ UNCHANGED <<closed, failed, pending, readerVars, exchangeVars, closer, deviceVars,
                   answered, abandoned>>

(***************************************************************************)
(* The device answers in any order, late, twice or never, and sends frames *)
(* nobody asked for.  A peer that is gone has closed the connection; one   *)
(* that only falls silent is a device that never answers.                  *)
(***************************************************************************)
DeviceSends(f) ==
    /\ f \in sent \cup {0}
    /\ ~broken /\ ~TransportClosed
    /\ frameCount < MaxFrames
    /\ frameCount' = frameCount + 1
    /\ wire' = Append(wire, f)
    /\ UNCHANGED <<closed, failed, callbacks, pending, readerVars, exchangeVars, closer,
                   broken, requests, sent, answered, abandoned>>

PeerGoes ==
    /\ ~broken
    /\ broken' = TRUE
    /\ UNCHANGED <<closed, failed, callbacks, pending, readerVars, exchangeVars, closer,
                   wire, requests, sent, frameCount, answered, abandoned>>

ThreadStep(t) == Send(t) \/ Start(t) \/ Wake(t) \/ Remove(t) \/ Join(t)

ReaderStep ==
    \/ Check \/ ReadFrame \/ ReadNothing \/ ReadRaises \/ IdleCheck
    \/ Dispatch \/ Publish \/ ReaderEnds

Next ==
    \/ \E t \in Threads : Begin(t) \/ ThreadStep(t) \/ Expire(t)
    \/ ReaderStep
    \/ Close \/ CloseTransport \/ CloseJoins
    \/ \E c \in Callbacks : AddCallback(c) \/ RemoveCallback(c)
    \/ \E f \in 0..MaxRequests : DeviceSends(f)
    \/ PeerGoes

Spec == Init /\ [][Next]_vars

(***************************************************************************)
(* Threads run, and read_frame comes back.  Nothing is asked of the        *)
(* device, the peer or the callers, nor, so that waking up does not rest   *)
(* on them, of the deadlines.                                              *)
(***************************************************************************)
Fairness ==
    /\ \A t \in Threads : WF_vars(ThreadStep(t))
    /\ WF_vars(ReaderStep)
    /\ WF_vars(CloseTransport \/ CloseJoins)

FairSpec == Spec /\ Fairness

-----------------------------------------------------------------------------
(* Properties.                                                             *)

(***************************************************************************)
(* Every variable has its type; an exchange never keeps more than its      *)
(* window of frames (_append_exchange_frame).                              *)
(***************************************************************************)
TypeOK ==
    /\ closed \in BOOLEAN /\ failed \in BOOLEAN /\ broken \in BOOLEAN
    /\ abandoned \in BOOLEAN
    /\ callbacks \subseteq Callbacks
    /\ pending \subseteq Threads
    /\ reader \in {"none", "check", "read", "idle", "dispatch", "publish",
                   "publish_failure", "exiting"}
    /\ frame \in 0..MaxRequests
    /\ pc \in [Threads -> {"idle", "send", "start", "wait", "remove", "join"}]
    /\ request \in [Threads -> 0..MaxRequests]
    /\ frames \in [Threads -> Seq(0..MaxRequests)]
    /\ \A t \in Threads : Len(frames[t]) <= MAX_EXCHANGE_FRAMES
    /\ matched \in [Threads -> BOOLEAN]
    /\ listens \in [Threads -> BOOLEAN]
    /\ result \in [Threads -> {"none", "response", "timeout", "error"}]
    /\ expired \in [Threads -> BOOLEAN]
    /\ closer \in {"idle", "closing", "joining", "done"}
    /\ wire \in Seq(0..MaxRequests)
    /\ requests \in 0..MaxRequests
    /\ sent \subseteq 1..MaxRequests
    /\ frameCount \in 0..MaxFrames
    /\ answered \subseteq 0..MaxRequests

(***************************************************************************)
(* An exchange that reports no response was not answered while it waited:  *)
(* its response is never routed past it, to another exchange or to the     *)
(* event callbacks, however the request, the reader, the deadline and the  *)
(* other exchanges interleave (exchange registers before it sends).        *)
(***************************************************************************)
TimeoutMeansUnanswered ==
    \A t \in Threads : result[t] = "timeout" => request[t] \notin answered

(***************************************************************************)
(* When close() has returned, no reader is left and none is started again, *)
(* unless it gave up on a reader stuck in a callback.                      *)
(***************************************************************************)
CloseStopsReader == closer = "done" /\ ~abandoned => reader = "none"

(***************************************************************************)
(* A close or a dead connection releases every exchange, long before its   *)
(* deadline and also when the other side stays silent.                     *)
(***************************************************************************)
TerminalUnblocks == (closed \/ failed) ~> (\A t \in Threads : pc[t] = "idle")

(***************************************************************************)
(* While an exchange waits on an open dispatcher there is a reader to read *)
(* its response ("own every read"): the reader that leaves when it is idle *)
(* leaves nobody behind.                                                   *)
(***************************************************************************)
ReaderServes ==
    \A t \in Threads :
        pc[t] = "wait" /\ Outcome(t) = "none" => reader \notin {"none", "exiting"}
=============================================================================
