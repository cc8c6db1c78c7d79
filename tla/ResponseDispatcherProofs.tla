---------------------- MODULE ResponseDispatcherProofs ----------------------
(***************************************************************************)
(* Proofs about ResponseDispatcher, for every set of threads and callbacks *)
(* and every value of the bounds.                                          *)
(***************************************************************************)
EXTENDS ResponseDispatcher, SequenceTheorems, TLAPS

-----------------------------------------------------------------------------
(* The inductive invariant.                                                *)

Registered == {"send", "start", "wait", "remove"}

(***************************************************************************)
(* Exactly the threads between registration and the finally clause are in  *)
(* _pending, each with a request of its own, given out once.               *)
(***************************************************************************)
OwnRequests ==
    /\ pending = {t \in Threads : pc[t] \in Registered}
    /\ \A t \in Threads :
          IF pc[t] \in Registered THEN request[t] \in 1..requests
                                  ELSE request[t] = 0
    /\ \A t, u \in Threads :
          request[t] = request[u] /\ pc[t] \in Registered => t = u

(***************************************************************************)
(* A response that was routed while its caller waited has set the caller's *)
(* event, and a caller that reports a timeout was never answered.          *)
(***************************************************************************)
AnswersMatched ==
    /\ answered \subseteq 1..requests
    /\ \A t \in Threads : request[t] \in answered => matched[t]
    /\ \A t \in Threads :
          result[t] = "timeout" => pc[t] = "remove" /\ request[t] \notin answered

(***************************************************************************)
(* close() sets _closed first; when it is done no reader is left, and the  *)
(* flag keeps start() from starting another.                               *)
(***************************************************************************)
ClosedForGood ==
    /\ closer # "idle" => closed
    /\ closer = "done" /\ ~abandoned => reader = "none"

DispatcherInv == TypeOK /\ OwnRequests /\ AnswersMatched /\ ClosedForGood

-----------------------------------------------------------------------------
(* Type correctness.                                                       *)

(***************************************************************************)
(* The part of TypeOK about sequences of frames, and the rest.             *)
(***************************************************************************)
FrameType ==
    /\ frames \in [Threads -> Seq(0..MaxRequests)]
    /\ \A t \in Threads : Len(frames[t]) <= MAX_EXCHANGE_FRAMES
    /\ wire \in Seq(0..MaxRequests)
    /\ frame \in 0..MaxRequests

ExchangeType ==
    /\ pending \subseteq Threads
    /\ pc \in [Threads -> {"idle", "send", "start", "wait", "remove", "join"}]
    /\ request \in [Threads -> 0..MaxRequests]
    /\ matched \in [Threads -> BOOLEAN]
    /\ listens \in [Threads -> BOOLEAN]
    /\ result \in [Threads -> {"none", "response", "timeout", "error"}]
    /\ expired \in [Threads -> BOOLEAN]
    /\ requests \in 0..MaxRequests
    /\ sent \subseteq 1..MaxRequests
    /\ answered \subseteq 0..MaxRequests

SharedType ==
    /\ closed \in BOOLEAN /\ failed \in BOOLEAN /\ broken \in BOOLEAN
    /\ abandoned \in BOOLEAN
    /\ callbacks \subseteq Callbacks
    /\ reader \in {"none", "check", "read", "idle", "dispatch", "publish",
                   "publish_failure", "exiting"}
    /\ closer \in {"idle", "closing", "joining", "done"}
    /\ frameCount \in 0..MaxFrames

LEMMA TypeParts == TypeOK <=> FrameType /\ ExchangeType /\ SharedType
  BY DEF TypeOK, FrameType, ExchangeType, SharedType

LEMMA InitInv == Init => DispatcherInv
  <1> SUFFICES ASSUME Init
               PROVE  DispatcherInv
    OBVIOUS
  <1>1. TypeOK
    <2>1. FrameType
      BY DispatcherAssumption DEF Init, FrameType
    <2>2. ExchangeType
      BY DispatcherAssumption DEF Init, ExchangeType
    <2>3. SharedType
      <3>1. 0 \in 0..MaxFrames
        BY DispatcherAssumption
      <3>2. QED
        BY <3>1 DEF Init, SharedType
    <2>4. QED
      BY <2>1, <2>2, <2>3, TypeParts
  <1>2. OwnRequests
    BY DEF Init, OwnRequests, Registered
  <1>3. AnswersMatched
    BY DEF Init, AnswersMatched
  <1>4. ClosedForGood
    BY DEF Init, ClosedForGood
  <1>5. QED
    BY <1>1, <1>2, <1>3, <1>4 DEF DispatcherInv

(***************************************************************************)
(* _append_exchange_frame keeps a window of frames within its limit.       *)
(***************************************************************************)
LEMMA AppendedType ==
  ASSUME NEW s \in Seq(0..MaxRequests), Len(s) <= MAX_EXCHANGE_FRAMES,
         NEW f \in 0..MaxRequests
  PROVE  /\ Appended(s, f) \in Seq(0..MaxRequests)
         /\ Len(Appended(s, f)) <= MAX_EXCHANGE_FRAMES
  <1>1. CASE Len(s) >= MAX_EXCHANGE_FRAMES
    <2>1. s # << >>
      BY <1>1, DispatcherAssumption
    <2>2. Tail(s) \in Seq(0..MaxRequests) /\ Len(Tail(s)) = Len(s) - 1
      BY <2>1, HeadTailProperties
    <2>3. Len(Append(Tail(s), f)) = Len(Tail(s)) + 1
      BY <2>2
    <2>4. QED
      BY <1>1, <2>2, <2>3, DispatcherAssumption DEF Appended
  <1>2. CASE ~(Len(s) >= MAX_EXCHANGE_FRAMES)
    <2>1. Len(Append(s, f)) = Len(s) + 1 /\ Append(s, f) \in Seq(0..MaxRequests)
      OBVIOUS
    <2>2. QED
      BY <1>2, <2>1, DispatcherAssumption DEF Appended
  <1>3. QED
    BY <1>1, <1>2

LEMMA ThreadType ==
  ASSUME FrameType, ExchangeType, SharedType, OwnRequests, NEW t \in Threads,
         Begin(t) \/ ThreadStep(t) \/ Expire(t)
  PROVE  FrameType' /\ ExchangeType' /\ SharedType'
  <1>1. CASE Begin(t)
    <2>1. FrameType'
      BY <1>1, DispatcherAssumption DEF Begin, readerVars, FrameType
    <2>2. ExchangeType'
      BY <1>1, DispatcherAssumption DEF Begin, readerVars, ExchangeType
    <2>3. SharedType'
      BY <1>1, DispatcherAssumption DEF Begin, readerVars, SharedType
    <2>4. QED
      BY <2>1, <2>2, <2>3
  <1>2. CASE Send(t)
    <2>1. FrameType'
      BY <1>2, DispatcherAssumption DEF Send, GoTo, Leave, OwnRequests, Registered,
         readerVars, FrameType
    <2>2. ExchangeType'
      <3>1. request[t] \in 1..MaxRequests
        BY <1>2, DispatcherAssumption DEF Send, OwnRequests, Registered, ExchangeType
      <3>2. \E label \in {"start", "remove"} : pc' = [pc EXCEPT ![t] = label]
        BY <1>2 DEF Send, GoTo, Leave
      <3>3. result' \in {result, [result EXCEPT ![t] = "error"]}
        BY <1>2 DEF Send, Leave
      <3>4. sent' \in {sent, sent \cup {request[t]}}
        BY <1>2 DEF Send
      <3>5. QED
        BY <1>2, <3>1, <3>2, <3>3, <3>4 DEF Send, readerVars, ExchangeType
    <2>3. SharedType'
      BY <1>2, DispatcherAssumption DEF Send, GoTo, Leave, OwnRequests, Registered,
         readerVars, SharedType
    <2>4. QED
      BY <2>1, <2>2, <2>3
  <1>3. CASE Start(t)
    <2>1. FrameType'
      BY <1>3 DEF Start, GoTo, Leave, deviceVars, FrameType
    <2>2. ExchangeType'
      BY <1>3 DEF Start, GoTo, Leave, deviceVars, ExchangeType
    <2>3. SharedType'
      BY <1>3 DEF Start, GoTo, Leave, deviceVars, SharedType
    <2>4. QED
      BY <2>1, <2>2, <2>3
  <1>4. CASE Wake(t)
    <2>1. FrameType'
      BY <1>4 DEF Wake, Outcome, GoTo, Leave, deviceVars, readerVars, FrameType
    <2>2. ExchangeType'
      BY <1>4 DEF Wake, Outcome, GoTo, Leave, deviceVars, readerVars, ExchangeType
    <2>3. SharedType'
      BY <1>4 DEF Wake, Outcome, GoTo, Leave, deviceVars, readerVars, SharedType
    <2>4. QED
      BY <2>1, <2>2, <2>3
  <1>5. CASE Remove(t)
    <2>1. FrameType'
      BY <1>5, DispatcherAssumption DEF Remove, GoTo, readerVars, FrameType
    <2>2. ExchangeType'
      <3>1. \E label \in {"join", "idle"} : pc' = [pc EXCEPT ![t] = label]
        BY <1>5 DEF Remove, GoTo
      <3>2. 0 \in 0..MaxRequests
        BY DispatcherAssumption
      <3>3. QED
        BY <1>5, <3>1, <3>2 DEF Remove, ExchangeType
    <2>3. SharedType'
      BY <1>5, DispatcherAssumption DEF Remove, GoTo, readerVars, SharedType
    <2>4. QED
      BY <2>1, <2>2, <2>3
  <1>6. CASE Join(t)
    <2>1. FrameType'
      BY <1>6 DEF Join, GoTo, deviceVars, readerVars, FrameType
    <2>2. ExchangeType'
      BY <1>6 DEF Join, GoTo, deviceVars, readerVars, ExchangeType
    <2>3. SharedType'
      BY <1>6 DEF Join, GoTo, deviceVars, readerVars, SharedType
    <2>4. QED
      BY <2>1, <2>2, <2>3
  <1>7. CASE Expire(t)
    <2>1. FrameType'
      BY <1>7 DEF Expire, deviceVars, readerVars, FrameType
    <2>2. ExchangeType'
      BY <1>7 DEF Expire, deviceVars, readerVars, ExchangeType
    <2>3. SharedType'
      BY <1>7 DEF Expire, deviceVars, readerVars, SharedType
    <2>4. QED
      BY <2>1, <2>2, <2>3
  <1>8. QED
    BY <1>1, <1>2, <1>3, <1>4, <1>5, <1>6, <1>7 DEF ThreadStep

LEMMA ReaderType ==
  ASSUME FrameType, ExchangeType, SharedType, ReaderStep
  PROVE  FrameType' /\ ExchangeType' /\ SharedType'
  <1>1. CASE Check
    <2>1. FrameType'
      BY <1>1 DEF Check, ReaderOnly, exchangeVars, FrameType
    <2>2. ExchangeType'
      BY <1>1 DEF Check, ReaderOnly, exchangeVars, ExchangeType
    <2>3. SharedType'
      BY <1>1 DEF Check, ReaderOnly, exchangeVars, SharedType
    <2>4. QED
      BY <2>1, <2>2, <2>3
  <1>2. CASE ReadFrame
    <2>1. FrameType'
      <3>1. Head(wire) \in 0..MaxRequests /\ Tail(wire) \in Seq(0..MaxRequests)
        BY <1>2, HeadTailProperties DEF ReadFrame, FrameType
      <3>2. QED
        BY <1>2, <3>1 DEF ReadFrame, ReaderOnly, exchangeVars, FrameType
    <2>2. ExchangeType'
      BY <1>2 DEF ReadFrame, ReaderOnly, exchangeVars, ExchangeType
    <2>3. SharedType'
      BY <1>2 DEF ReadFrame, ReaderOnly, exchangeVars, SharedType
    <2>4. QED
      BY <2>1, <2>2, <2>3
  <1>3. CASE ReadNothing
    <2>1. FrameType'
      BY <1>3 DEF ReadNothing, ReaderOnly, exchangeVars, FrameType
    <2>2. ExchangeType'
      BY <1>3 DEF ReadNothing, ReaderOnly, exchangeVars, ExchangeType
    <2>3. SharedType'
      BY <1>3 DEF ReadNothing, ReaderOnly, exchangeVars, SharedType
    <2>4. QED
      BY <2>1, <2>2, <2>3
  <1>4. CASE ReadRaises
    <2>1. FrameType'
      BY <1>4 DEF ReadRaises, ReaderOnly, exchangeVars, FrameType
    <2>2. ExchangeType'
      BY <1>4 DEF ReadRaises, ReaderOnly, exchangeVars, ExchangeType
    <2>3. SharedType'
      BY <1>4 DEF ReadRaises, ReaderOnly, exchangeVars, SharedType
    <2>4. QED
      BY <2>1, <2>2, <2>3
  <1>5. CASE IdleCheck
    <2>1. FrameType'
      BY <1>5 DEF IdleCheck, ReaderOnly, exchangeVars, FrameType
    <2>2. ExchangeType'
      BY <1>5 DEF IdleCheck, ReaderOnly, exchangeVars, ExchangeType
    <2>3. SharedType'
      BY <1>5 DEF IdleCheck, ReaderOnly, exchangeVars, SharedType
    <2>4. QED
      BY <2>1, <2>2, <2>3
  <1>6. CASE Dispatch
    <2>1. FrameType'
      <3>1. \A t \in Threads :
               /\ Appended(frames[t], frame) \in Seq(0..MaxRequests)
               /\ Len(Appended(frames[t], frame)) <= MAX_EXCHANGE_FRAMES
        BY AppendedType DEF FrameType
      <3>2. /\ frames' \in [Threads -> Seq(0..MaxRequests)]
            /\ \A t \in Threads : Len(frames'[t]) <= MAX_EXCHANGE_FRAMES
        <4>1. \A t \in Threads : frames'[t] \in {frames[t], Appended(frames[t], frame)}
          BY <1>6 DEF Dispatch, FrameType
        <4>2. DOMAIN frames' = Threads /\ frames' = [t \in Threads |-> frames'[t]]
          BY <1>6 DEF Dispatch, FrameType
        <4>3. QED
          BY <3>1, <4>1, <4>2 DEF FrameType
      <3>3. QED
        BY <1>6, <3>2, DispatcherAssumption DEF Dispatch, deviceVars, FrameType
    <2>2. ExchangeType'
      <3>1. matched' \in [Threads -> BOOLEAN]
        BY <1>6 DEF Dispatch, ExchangeType
      <3>2. expired' \in [Threads -> BOOLEAN]
        <4>1. \/ expired' = expired
              \/ \E t \in Threads : \E b \in BOOLEAN : expired' = [expired EXCEPT ![t] = b]
          <5>1. \A t \in Threads : (expired[t] /\ ~listens[t]) \in BOOLEAN
            OBVIOUS
          <5>2. QED
            BY <1>6, <5>1, Zenon DEF Dispatch, ExchangeType
        <4>2. QED
          BY <4>1 DEF ExchangeType
      <3>3. answered' \subseteq 0..MaxRequests
        <4>1. \A r \in answered' \ answered : \E u \in Threads : r = request[u]
          BY <1>6 DEF Dispatch
        <4>2. answered \subseteq 0..MaxRequests /\ \A u \in Threads : request[u] \in 0..MaxRequests
          BY DEF ExchangeType
        <4>3. QED
          BY <4>1, <4>2
      <3>4. UNCHANGED <<pending, pc, request, listens, result, requests, sent>>
        BY <1>6 DEF Dispatch, deviceVars
      <3>5. QED
        BY <3>1, <3>2, <3>3, <3>4 DEF ExchangeType
    <2>3. SharedType'
      BY <1>6 DEF Dispatch, deviceVars, SharedType
    <2>4. QED
      BY <2>1, <2>2, <2>3
  <1>7. CASE Publish
    <2>1. FrameType'
      BY <1>7 DEF Publish, ReaderOnly, exchangeVars, FrameType
    <2>2. ExchangeType'
      BY <1>7 DEF Publish, ReaderOnly, exchangeVars, ExchangeType
    <2>3. SharedType'
      BY <1>7 DEF Publish, ReaderOnly, exchangeVars, SharedType
    <2>4. QED
      BY <2>1, <2>2, <2>3
  <1>8. CASE ReaderEnds
    <2>1. FrameType'
      BY <1>8 DEF ReaderEnds, ReaderOnly, exchangeVars, FrameType
    <2>2. ExchangeType'
      BY <1>8 DEF ReaderEnds, ReaderOnly, exchangeVars, ExchangeType
    <2>3. SharedType'
      BY <1>8 DEF ReaderEnds, ReaderOnly, exchangeVars, SharedType
    <2>4. QED
      BY <2>1, <2>2, <2>3
  <1>9. QED
    BY <1>1, <1>2, <1>3, <1>4, <1>5, <1>6, <1>7, <1>8 DEF ReaderStep

LEMMA OutsideType ==
  ASSUME FrameType, ExchangeType, SharedType,
         \/ Close \/ CloseTransport \/ CloseJoins \/ PeerGoes
         \/ \E c \in Callbacks : AddCallback(c) \/ RemoveCallback(c)
         \/ \E f \in 0..MaxRequests : DeviceSends(f)
  PROVE  FrameType' /\ ExchangeType' /\ SharedType'
  <1>1. CASE Close
    <2>1. FrameType'
      BY <1>1 DEF Close, CloseOnly, readerVars, exchangeVars, FrameType
    <2>2. ExchangeType'
      BY <1>1 DEF Close, CloseOnly, readerVars, exchangeVars, ExchangeType
    <2>3. SharedType'
      BY <1>1 DEF Close, CloseOnly, readerVars, exchangeVars, SharedType
    <2>4. QED
      BY <2>1, <2>2, <2>3
  <1>2. CASE CloseTransport
    <2>1. FrameType'
      BY <1>2 DEF CloseTransport, CloseOnly, readerVars, exchangeVars, FrameType
    <2>2. ExchangeType'
      BY <1>2 DEF CloseTransport, CloseOnly, readerVars, exchangeVars, ExchangeType
    <2>3. SharedType'
      BY <1>2 DEF CloseTransport, CloseOnly, readerVars, exchangeVars, SharedType
    <2>4. QED
      BY <2>1, <2>2, <2>3
  <1>3. CASE CloseJoins
    <2>1. FrameType'
      BY <1>3 DEF CloseJoins, CloseOnly, readerVars, exchangeVars, FrameType
    <2>2. ExchangeType'
      BY <1>3 DEF CloseJoins, CloseOnly, readerVars, exchangeVars, ExchangeType
    <2>3. SharedType'
      BY <1>3 DEF CloseJoins, CloseOnly, readerVars, exchangeVars, SharedType
    <2>4. QED
      BY <2>1, <2>2, <2>3
  <1>4. CASE PeerGoes
    <2>1. FrameType'
      BY <1>4 DEF PeerGoes, readerVars, exchangeVars, FrameType
    <2>2. ExchangeType'
      BY <1>4 DEF PeerGoes, readerVars, exchangeVars, ExchangeType
    <2>3. SharedType'
      BY <1>4 DEF PeerGoes, readerVars, exchangeVars, SharedType
    <2>4. QED
      BY <2>1, <2>2, <2>3
  <1>5. CASE \E c \in Callbacks : AddCallback(c) \/ RemoveCallback(c)
    <2>1. FrameType'
      BY <1>5 DEF AddCallback, RemoveCallback, readerVars, exchangeVars, deviceVars,
         FrameType
    <2>2. ExchangeType'
      BY <1>5 DEF AddCallback, RemoveCallback, readerVars, exchangeVars, deviceVars,
         ExchangeType
    <2>3. SharedType'
      BY <1>5 DEF AddCallback, RemoveCallback, readerVars, exchangeVars, deviceVars,
         SharedType
    <2>4. QED
      BY <2>1, <2>2, <2>3
  <1>6. CASE \E f \in 0..MaxRequests : DeviceSends(f)
    <2>1. FrameType'
      BY <1>6, DispatcherAssumption DEF DeviceSends, readerVars, exchangeVars, FrameType
    <2>2. ExchangeType'
      BY <1>6, DispatcherAssumption DEF DeviceSends, readerVars, exchangeVars, ExchangeType
    <2>3. SharedType'
      BY <1>6, DispatcherAssumption DEF DeviceSends, readerVars, exchangeVars, SharedType
    <2>4. QED
      BY <2>1, <2>2, <2>3
  <1>7. QED
    BY <1>1, <1>2, <1>3, <1>4, <1>5, <1>6

LEMMA NextType ==
  ASSUME TypeOK, OwnRequests, [Next]_vars
  PROVE  TypeOK'
  <1> USE TypeParts
  <1>1. FrameType /\ ExchangeType /\ SharedType
    OBVIOUS
  <1>2. FrameType' /\ ExchangeType' /\ SharedType'
    <2>1. CASE UNCHANGED vars
      BY <1>1, <2>1 DEF vars, readerVars, exchangeVars, deviceVars, FrameType,
         ExchangeType, SharedType
    <2>2. CASE Next
      BY <1>1, <2>2, ThreadType, ReaderType, OutsideType DEF Next
    <2>3. QED
      BY <2>1, <2>2
  <1>3. QED
    BY <1>2 DEF TypeOK, FrameType, ExchangeType, SharedType
-----------------------------------------------------------------------------
(* The requests and their answers.                                         *)

(***************************************************************************)
(* What the steps that concern no exchange leave alone.                    *)
(***************************************************************************)
Elsewhere == UNCHANGED <<pending, pc, request, matched, result, requests, answered>>

LEMMA ElsewhereSteps ==
  ASSUME [Next]_vars
  PROVE  \/ \E t \in Threads :
               Begin(t) \/ Send(t) \/ Start(t) \/ Wake(t) \/ Remove(t) \/ Join(t)
         \/ Dispatch
         \/ Elsewhere
  <1>1. ASSUME NEW t \in Threads, Expire(t) PROVE Elsewhere
    BY <1>1 DEF Expire, deviceVars, Elsewhere
  <1>2. ASSUME ReaderStep, ~Dispatch PROVE Elsewhere
    BY <1>2 DEF ReaderStep, Check, ReadFrame, ReadNothing, ReadRaises, IdleCheck, Publish,
       ReaderEnds, ReaderOnly, exchangeVars, Elsewhere
  <1>3. ASSUME Close \/ CloseTransport \/ CloseJoins \/ PeerGoes PROVE Elsewhere
    BY <1>3 DEF Close, CloseTransport, CloseJoins, PeerGoes, CloseOnly, exchangeVars,
       Elsewhere
  <1>4. ASSUME NEW c \in Callbacks, AddCallback(c) \/ RemoveCallback(c) PROVE Elsewhere
    BY <1>4 DEF AddCallback, RemoveCallback, exchangeVars, deviceVars, Elsewhere
  <1>5. ASSUME NEW f \in 0..MaxRequests, DeviceSends(f) PROVE Elsewhere
    BY <1>5 DEF DeviceSends, exchangeVars, Elsewhere
  <1>6. ASSUME UNCHANGED vars PROVE Elsewhere
    BY <1>6 DEF vars, exchangeVars, deviceVars, Elsewhere
  <1>7. QED
    BY <1>1, <1>2, <1>3, <1>4, <1>5, <1>6 DEF Next, ThreadStep

LEMMA NextOwnRequests ==
  ASSUME TypeOK, OwnRequests, [Next]_vars
  PROVE  OwnRequests'
  <1> USE DEF Registered
  <1>0. ExchangeType /\ TypeOK'
    BY TypeParts, NextType
  <1>1. ASSUME NEW t \in Threads, Begin(t) PROVE OwnRequests'
    <2>1. pending' = {u \in Threads : pc'[u] \in Registered}
      BY <1>0, <1>1 DEF Begin, OwnRequests, ExchangeType
    <2>2. requests' = requests + 1 /\ requests \in Nat /\ request'[t] = requests + 1
      BY <1>0, <1>1, DispatcherAssumption DEF Begin, ExchangeType
    <2>3. \A u \in Threads \ {t} : pc'[u] = pc[u] /\ request'[u] = request[u]
      BY <1>0, <1>1 DEF Begin, ExchangeType
    <2>4. pc[t] = "idle" /\ pc'[t] = "send"
      BY <1>0, <1>1 DEF Begin, ExchangeType
    <2>5. \A u \in Threads : IF pc'[u] \in Registered THEN request'[u] \in 1..requests'
                                                       ELSE request'[u] = 0
      BY <2>2, <2>3, <2>4 DEF OwnRequests
    <2>6. \A u \in Threads \ {t} : request[u] # requests + 1
      BY <2>2, <2>3 DEF OwnRequests
    <2>7. \A u, v \in Threads :
             request'[u] = request'[v] /\ pc'[u] \in Registered => u = v
      BY <2>2, <2>3, <2>4, <2>6 DEF OwnRequests
    <2>8. QED
      BY <2>1, <2>5, <2>7 DEF OwnRequests
  <1>2. ASSUME NEW t \in Threads, Send(t) \/ Start(t) \/ Wake(t) PROVE OwnRequests'
    <2>1. pc[t] \in Registered /\ UNCHANGED <<pending, request, requests>>
      BY <1>2 DEF Send, Start, Wake, deviceVars
    <2>2. \E label \in Registered : pc' = [pc EXCEPT ![t] = label]
      BY <1>2 DEF Send, Start, Wake, GoTo, Leave
    <2>3. QED
      BY <1>0, <2>1, <2>2 DEF OwnRequests, ExchangeType
  <1>3. ASSUME NEW t \in Threads, Remove(t) PROVE OwnRequests'
    <2>1. \E label \in {"join", "idle"} : pc' = [pc EXCEPT ![t] = label]
      BY <1>3 DEF Remove, GoTo
    <2>2. /\ pending' = pending \ {t} /\ requests' = requests
          /\ request' = [request EXCEPT ![t] = 0]
      BY <1>3 DEF Remove
    <2>3. QED
      BY <1>0, <2>1, <2>2 DEF OwnRequests, ExchangeType
  <1>4. ASSUME NEW t \in Threads, Join(t) PROVE OwnRequests'
    BY <1>0, <1>4 DEF Join, GoTo, OwnRequests, ExchangeType, deviceVars
  <1>5. ASSUME Dispatch \/ Elsewhere PROVE OwnRequests'
    BY <1>5 DEF Dispatch, Elsewhere, OwnRequests, deviceVars
  <1>6. QED
    BY <1>1, <1>2, <1>3, <1>4, <1>5, ElsewhereSteps

LEMMA NextAnswersMatched ==
  ASSUME TypeOK, OwnRequests, AnswersMatched, [Next]_vars
  PROVE  AnswersMatched'
  <1> USE DEF Registered
  <1>0. ExchangeType /\ OwnRequests'
    BY TypeParts, NextOwnRequests
  <1>1. ASSUME NEW t \in Threads, Begin(t) PROVE AnswersMatched'
    <2>1. /\ requests' = requests + 1 /\ requests \in Nat /\ request'[t] = requests + 1
          /\ UNCHANGED <<answered, matched>>
          /\ result'[t] = "none"
          /\ \A u \in Threads \ {t} : /\ request'[u] = request[u] /\ pc'[u] = pc[u]
                                      /\ result'[u] = result[u]
      BY <1>0, <1>1, DispatcherAssumption DEF Begin, ExchangeType
    <2>2. requests + 1 \notin answered /\ answered \subseteq 1..requests'
      BY <2>1 DEF AnswersMatched
    <2>3. QED
      BY <2>1, <2>2 DEF AnswersMatched
  <1>2. ASSUME NEW t \in Threads, Send(t) \/ Start(t) \/ Join(t) PROVE AnswersMatched'
    <2>1. UNCHANGED <<request, requests, answered, matched>>
      BY <1>2 DEF Send, Start, Join, deviceVars
    <2>2. \A u \in Threads :
             result'[u] = "timeout" => result[u] = "timeout" /\ pc'[u] = pc[u]
      BY <1>0, <1>2 DEF Send, Start, Join, GoTo, Leave, ExchangeType, AnswersMatched
    <2>3. QED
      BY <2>1, <2>2 DEF AnswersMatched
  <1>3. ASSUME NEW t \in Threads, Wake(t) PROVE AnswersMatched'
    <2>1. UNCHANGED <<request, requests, answered, matched>>
      BY <1>3 DEF Wake, deviceVars
    <2>2. /\ result'[t] = "timeout" => ~matched[t]
          /\ pc'[t] = "remove"
          /\ \A u \in Threads \ {t} : result'[u] = result[u] /\ pc'[u] = pc[u]
      BY <1>0, <1>3 DEF Wake, Outcome, GoTo, Leave, ExchangeType
    <2>3. QED
      BY <2>1, <2>2 DEF AnswersMatched
  <1>4. ASSUME NEW t \in Threads, Remove(t) PROVE AnswersMatched'
    <2>1. /\ requests' = requests
          /\ answered' = answered \ {request[t]}
          /\ request'[t] = 0 /\ result'[t] = "none"
          /\ \A u \in Threads \ {t} : /\ request'[u] = request[u] /\ pc'[u] = pc[u]
                                      /\ result'[u] = result[u] /\ matched'[u] = matched[u]
      BY <1>0, <1>4 DEF Remove, GoTo, ExchangeType
    <2>2. 0 \notin answered'
      BY <2>1 DEF AnswersMatched
    <2>3. QED
      BY <2>1, <2>2 DEF AnswersMatched
  <1>5. ASSUME Dispatch PROVE AnswersMatched'
    <2>1. UNCHANGED <<pending, pc, request, requests, result>>
      BY <1>5 DEF Dispatch, deviceVars
    <2>2. \A r \in answered' \ answered :
             /\ r = frame
             /\ \E u \in Threads : request[u] = frame /\ pc[u] \in {"send", "start", "wait"}
      BY <1>5 DEF Dispatch
    <2>3. answered' \subseteq 1..requests'
      BY <2>1, <2>2 DEF AnswersMatched, OwnRequests
    <2>4. \A t \in Threads : matched[t] => matched'[t]
      BY <1>0, <1>5 DEF Dispatch, ExchangeType
    <2>5. \A t \in pending : request[t] = frame => matched'[t]
      <3>1. CASE \A t \in pending : matched[t] \/ request[t] # frame
        BY <3>1, <2>4, <1>0 DEF ExchangeType
      <3>2. CASE \E t \in pending : ~matched[t] /\ request[t] = frame
        <4>1. PICK t \in pending : request[t] = frame
                                 /\ matched' = [matched EXCEPT ![t] = TRUE]
          BY <1>5, <3>2 DEF Dispatch
        <4>2. \A u \in pending : request[u] = frame => u = t
          BY <4>1 DEF OwnRequests
        <4>3. QED
          BY <4>1, <4>2, <1>0 DEF ExchangeType
      <3>3. QED
        BY <3>1, <3>2
    <2>6. \A t \in Threads : request'[t] \in answered' => matched'[t]
      <3> SUFFICES ASSUME NEW t \in Threads,
                          request[t] \in answered', request[t] \notin answered
                   PROVE  matched'[t]
        BY <2>1, <2>4 DEF AnswersMatched
      <3>1. request[t] = frame /\ request[t] \in 1..requests
        BY <2>1, <2>2, <2>3
      <3>2. t \in pending
        BY <3>1 DEF OwnRequests
      <3>3. QED
        BY <3>1, <3>2, <2>5
    <2>7. \A t \in Threads :
             result'[t] = "timeout" => pc'[t] = "remove" /\ request'[t] \notin answered'
      <3> SUFFICES ASSUME NEW t \in Threads, result[t] = "timeout", request[t] \in answered'
                   PROVE  FALSE
        BY <2>1 DEF AnswersMatched
      <3>1. pc[t] = "remove" /\ request[t] \notin answered
        BY DEF AnswersMatched
      <3>2. PICK u \in Threads : request[u] = request[t] /\ pc[u] \in {"send", "start", "wait"}
        BY <3>1, <2>2
      <3>3. u = t
        BY <3>2 DEF OwnRequests
      <3>4. QED
        BY <3>1, <3>2, <3>3
    <2>8. QED
      BY <2>3, <2>6, <2>7 DEF AnswersMatched
  <1>6. ASSUME Elsewhere PROVE AnswersMatched'
    BY <1>6 DEF Elsewhere, AnswersMatched
  <1>7. QED
    BY <1>1, <1>2, <1>3, <1>4, <1>5, <1>6, ElsewhereSteps
-----------------------------------------------------------------------------
(* close().                                                                *)

LEMMA NextClosedForGood ==
  ASSUME TypeOK, ClosedForGood, [Next]_vars
  PROVE  ClosedForGood'
  <1>1. closed => closed'
    BY DEF Next, vars, Begin, ThreadStep, Send, Start, Wake, Remove, Join, Expire,
       ReaderStep,
       Check, ReadFrame, ReadNothing, ReadRaises, IdleCheck, Dispatch, Publish, ReaderEnds,
       Close, CloseTransport, CloseJoins, AddCallback, RemoveCallback, DeviceSends, PeerGoes
  <1>2. closed /\ reader = "none" => reader' = "none"
    <2>1. ASSUME closed, reader = "none", NEW t \in Threads,
                 Begin(t) \/ ThreadStep(t) \/ Expire(t)
          PROVE  reader' = "none"
      BY <2>1 DEF Begin, ThreadStep, Send, Start, StartRefused, Wake, Remove, Join, Expire,
         readerVars
    <2>2. ASSUME reader = "none", ReaderStep
          PROVE  FALSE
      BY <2>2 DEF ReaderStep, Check, ReadFrame, ReadNothing, ReadRaises, IdleCheck,
         Dispatch,
         Publish, ReaderEnds
    <2>3. QED
      BY <2>1, <2>2 DEF Next, vars, Close, CloseTransport, CloseJoins, CloseOnly,
         AddCallback,
         RemoveCallback, DeviceSends, PeerGoes, readerVars
  <1>3. CASE Close \/ CloseTransport \/ CloseJoins
    BY <1>3, <1>1, <1>2 DEF Close, CloseTransport, CloseJoins, CloseOnly, readerVars,
       ClosedForGood
  <1>4. CASE UNCHANGED <<closer, abandoned>>
    BY <1>4, <1>1, <1>2 DEF ClosedForGood
  <1>5. Close \/ CloseTransport \/ CloseJoins \/ UNCHANGED <<closer, abandoned>>
    BY DEF Next, vars, Begin, ThreadStep, Send, Start, Wake, Remove, Join, Expire,
       ReaderStep,
       Check, ReadFrame, ReadNothing, ReadRaises, IdleCheck, Dispatch, Publish, ReaderEnds,
       ReaderOnly, AddCallback, RemoveCallback, DeviceSends, PeerGoes
  <1>6. QED
    BY <1>3, <1>4, <1>5

-----------------------------------------------------------------------------
(* The theorems.                                                           *)

(***************************************************************************)
(* Requests, answers and the close stay as described, whatever the number  *)
(* of threads, callbacks, requests and frames.                             *)
(***************************************************************************)
THEOREM DispatcherInvariant == Spec => []DispatcherInv
  <1>1. DispatcherInv /\ [Next]_vars => DispatcherInv'
    BY NextType, NextOwnRequests, NextAnswersMatched, NextClosedForGood DEF DispatcherInv
  <1>2. QED
    BY InitInv, <1>1, PTL DEF Spec

(***************************************************************************)
(* Every variable keeps its type, and the frames of an exchange their      *)
(* window (_append_exchange_frame).                                        *)
(***************************************************************************)
THEOREM TypeCorrect == Spec => []TypeOK
  <1>1. DispatcherInv => TypeOK
    BY DEF DispatcherInv
  <1>2. QED
    BY DispatcherInvariant, <1>1, PTL

(***************************************************************************)
(* exchange() never reports a timeout for a request whose response the     *)
(* reader routed while it waited (_dispatch, exchange).                    *)
(***************************************************************************)
THEOREM TimeoutIsHonest == Spec => []TimeoutMeansUnanswered
  <1>1. DispatcherInv => TimeoutMeansUnanswered
    BY DEF DispatcherInv, AnswersMatched, TimeoutMeansUnanswered
  <1>2. QED
    BY DispatcherInvariant, <1>1, PTL

(***************************************************************************)
(* After close() no reader is left and none is started again, unless the   *)
(* join gave up on a reader inside a callback (close, start).              *)
(***************************************************************************)
THEOREM CloseIsFinal == Spec => []CloseStopsReader
  <1>1. DispatcherInv => CloseStopsReader
    BY DEF DispatcherInv, ClosedForGood, CloseStopsReader
  <1>2. QED
    BY DispatcherInvariant, <1>1, PTL
=============================================================================
