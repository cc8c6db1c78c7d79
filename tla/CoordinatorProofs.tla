-------------------------- MODULE CoordinatorProofs --------------------------
(***************************************************************************)
(* Proofs about what one coordinator shows and sends.  StatusStream, for   *)
(* any travel, times and numbers of moves, frames and commands: a held     *)
(* stop is not undone by an answer or a frame, and after a poll a gate at  *)
(* an end is shown at that end or nowhere.  DeviceControls, for any        *)
(* controllers, services and faults: an excluded action is not sent, and a *)
(* name reported as verified is on the device.                             *)
(***************************************************************************)
EXTENDS StatusStream, SequenceTheorems, TLAPS

-----------------------------------------------------------------------------
(* The inductive invariant. *)

StatusFields == {"state", "position", "raw", "encoder", "confirmed"}

\* What a gate that stands at an end answers: that end, or no position.
SeenAt(end, value) == value \in {Unknown, EndOf(end)}
AnswerSound(status) ==
  /\ StatusFields \subseteq DOMAIN status
  /\ status.confirmed = FALSE
  /\ \A end \in {"open", "closed"} :
        status.state = end => SeenAt(end, status.position) /\ SeenAt(end, status.raw)

\* A position is shown, held or estimated only where positions are reported.
KnownInv ==
  (\/ data.position # Unknown \/ lastKnown # Unknown
   \/ sim.action # "none" \/ command.shown # Unknown) => observed

StreamInv ==
  /\ kind \in Kinds /\ gate \in GateStates
  /\ StatusFields \subseteq DOMAIN data
  /\ poll.pc = "read" => AnswerSound(poll.status)
  /\ KnownInv
-----------------------------------------------------------------------------
(* The scale of a raw position: the bounds lie in the travel, so that an end *)
(* of the travel is an end of the scale. *)

LEMMA BetweenIs ==
  ASSUME NEW x \in Int
  PROVE  /\ x >= Full => Between(0, x, Full) = Full
         /\ x <= 0 => Between(0, x, Full) = 0
  <1>1. Full \in Nat /\ Full > 0
    BY StreamAssumption
  <1>2. Min({x, Full}) = IF x <= Full THEN x ELSE Full
    <2> DEFINE m == IF x <= Full THEN x ELSE Full
    <2>1. m \in {x, Full} /\ \A y \in {x, Full} : m <= y
      BY <1>1
    <2>2. \A z \in {x, Full} : (\A y \in {x, Full} : z <= y) => z = m
      BY <1>1
    <2> HIDE DEF m
    <2>3. Min({x, Full}) = m
      BY <2>1, <2>2 DEF Min
    <2> QED BY <2>3 DEF m
  <1>3. ASSUME NEW w \in Int
        PROVE  Max({0, w}) = IF w >= 0 THEN w ELSE 0
    <2> DEFINE m == IF w >= 0 THEN w ELSE 0
    <2>1. m \in {0, w} /\ \A y \in {0, w} : m >= y
      OBVIOUS
    <2>2. \A z \in {0, w} : (\A y \in {0, w} : z >= y) => z = m
      OBVIOUS
    <2> HIDE DEF m
    <2>3. Max({0, w}) = m
      BY <2>1, <2>2 DEF Max
    <2> QED BY <2>3 DEF m
  <1>4. CASE x >= Full
    <2>1. Min({x, Full}) = Full
      BY <1>1, <1>2, <1>4
    <2> QED BY <1>1, <1>3, <1>4, <2>1 DEF Between
  <1>5. CASE x <= 0
    <2>1. Min({x, Full}) = x
      BY <1>1, <1>2, <1>5
    <2> QED BY <1>1, <1>3, <1>5, <2>1 DEF Between
  <1> QED BY <1>1, <1>4, <1>5

LEMMA ScaleEnds ==
  ASSUME ScalarClosed < ScalarOpen
  PROVE  /\ Between(0, ((Full - ScalarClosed) * Full) \div (ScalarOpen - ScalarClosed), Full)
              = Full
         /\ Between(0, ((0 - ScalarClosed) * Full) \div (ScalarOpen - ScalarClosed), Full)
              = 0
  <1> DEFINE d == ScalarOpen - ScalarClosed
             top == (Full - ScalarClosed) * Full
             bottom == (0 - ScalarClosed) * Full
  <1>1. Full \in Nat /\ Full > 0 /\ ScalarClosed \in 0..Full /\ ScalarOpen \in 0..Full
    BY StreamAssumption
  <1>2. d \in Int /\ d > 0 /\ d <= Full - ScalarClosed
    BY <1>1
  <1>3. top \in Int /\ bottom \in Int
    BY <1>1
  <1>4. top >= d * Full
    <2>1. \A a, b, c \in Nat : a <= b => a * c <= b * c
      OBVIOUS
    <2>2. d \in Nat /\ Full - ScalarClosed \in Nat
      BY <1>1, <1>2
    <2> QED BY <1>1, <1>2, <2>1, <2>2
  <1>5. bottom <= 0
    <2>1. \A a, c \in Nat : (0 - a) * c <= 0
      OBVIOUS
    <2> QED BY <1>1, <2>1
  <1>6. \A n, e \in Int :
           e > 0 => n \div e \in Int /\ e * (n \div e) <= n /\ n < e * (n \div e) + e
    BY SMT
  <1>7. top \div d \in Int /\ bottom \div d \in Int
    BY <1>2, <1>3, <1>6
  <1>8. top \div d >= Full
    <2>1. \A e, f, q \in Int : e > 0 /\ q < f => e * q + e <= e * f
      <3> TAKE e, f, q \in Int
      <3> HAVE e > 0 /\ q < f
      <3>1. f - q - 1 \in Nat
        OBVIOUS
      <3>2. e * (f - q - 1) >= 0
        BY <3>1
      <3> QED BY <3>2
    <2>2. top < d * (top \div d) + d
      BY <1>2, <1>3, <1>6
    <2>3. d * (top \div d) \in Int /\ d * Full \in Int
      BY <1>1, <1>2, <1>7
    <2> HIDE DEF d, top, bottom
    <2> QED BY <1>1, <1>2, <1>3, <1>4, <1>7, <2>1, <2>2, <2>3
  <1>9. bottom \div d <= 0
    <2>1. \A e, q \in Int : e > 0 /\ q > 0 => e * q > 0
      OBVIOUS
    <2>2. d * (bottom \div d) <= bottom
      BY <1>2, <1>3, <1>6
    <2>3. d * (bottom \div d) \in Int
      BY <1>2, <1>7
    <2> HIDE DEF d, top, bottom
    <2> QED BY <1>2, <1>3, <1>5, <1>7, <2>1, <2>2, <2>3
  <1> HIDE DEF d, top, bottom
  <1>10. Between(0, top \div d, Full) = Full /\ Between(0, bottom \div d, Full) = 0
    BY <1>7, <1>8, <1>9, BetweenIs
  <1> QED BY <1>10 DEF d, top, bottom
-----------------------------------------------------------------------------
(* What is stored. *)

LEMMA HintKeepsFields ==
  ASSUME NEW status, StatusFields \subseteq DOMAIN status
  PROVE  /\ StatusFields \subseteq DOMAIN Hinted(status)
         /\ (InHold /\ stop.motion) =>
               Hinted(status).state \notin {"open", "closed"} \cup MovingStates
         /\ Hinted(status).state \in {"open", "closed"} => Hinted(status) = status
  <1>1. CASE /\ InHold /\ stop.motion
             /\ status.state \in {"open", "closed"} \cup MovingStates
    <2> DEFINE h == [status EXCEPT !.state = "stopped", !.position = Unknown]
    <2>1. Hinted(status) = h
      BY <1>1 DEF Hinted
    <2>2. DOMAIN h = DOMAIN status /\ h.state = "stopped"
      BY DEF StatusFields
    <2> HIDE DEF h
    <2> QED BY <2>1, <2>2 DEF MovingStates
  <1>2. CASE ~(/\ InHold /\ stop.motion
               /\ status.state \in {"open", "closed"} \cup MovingStates)
    <2>1. Hinted(status) = status
      BY <1>2 DEF Hinted
    <2> QED BY <1>2, <2>1
  <1> QED BY <1>1, <1>2

LEMMA ScaleKeepsFields ==
  ASSUME NEW status, StatusFields \subseteq DOMAIN status
  PROVE  /\ StatusFields \subseteq DOMAIN Scaled(status)
         /\ Scaled(status).state = status.state
         /\ Scaled(status).confirmed = status.confirmed
  <1>1. ASSUME NEW p
        PROVE  LET s == [status EXCEPT !.position = p]
               IN  /\ StatusFields \subseteq DOMAIN s
                   /\ s.state = status.state /\ s.confirmed = status.confirmed
    BY DEF StatusFields
  <1> QED BY <1>1 DEF Scaled

LEMMA ConfirmKeepsFields ==
  ASSUME NEW status, StatusFields \subseteq DOMAIN status
  PROVE  /\ StatusFields \subseteq DOMAIN Confirmed(status)
         /\ Confirmed(status).state = status.state
  <1>1. ASSUME NEW p
        PROVE  LET s == [status EXCEPT !.position = p, !.confirmed = TRUE]
               IN  StatusFields \subseteq DOMAIN s /\ s.state = status.state
    BY DEF StatusFields
  <1> QED BY <1>1 DEF Confirmed

\* What a report becomes.
Kept(reported) == Confirmed(Scaled(Hinted(reported)))

LEMMA KeptFields ==
  ASSUME NEW reported, StatusFields \subseteq DOMAIN reported
  PROVE  /\ StatusFields \subseteq DOMAIN Kept(reported)
         /\ Kept(reported).state = Hinted(reported).state
         /\ (InHold /\ stop.motion) =>
               Kept(reported).state \notin {"open", "closed"} \cup MovingStates
  BY HintKeepsFields, ScaleKeepsFields, ConfirmKeepsFields DEF Kept

LEMMA StoreKeeps ==
  ASSUME NEW reported, Store(reported)
  PROVE  /\ data' = Kept(reported)
         /\ observed' = (observed \/ data'.position # Unknown)
         /\ \E last \in {Unknown, lastKnown} :
               lastKnown' = Held(data', IF data'.position # Unknown
                                        THEN data'.position ELSE last)
         /\ sim' = Synced(data')
  BY DEF Store, Kept

\* No estimate begins, and none is made the last known position, where no
\* position was reported.
LEMMA StoreKnows ==
  ASSUME NEW reported, KnownInv, Store(reported), UNCHANGED command
  PROVE  KnownInv'
  <1>1. CASE observed
    BY <1>1, StoreKeeps DEF KnownInv
  <1>2. CASE data'.position # Unknown
    BY <1>2, StoreKeeps DEF KnownInv
  <1>3. CASE ~observed /\ data'.position = Unknown
    <2>1. /\ data.position = Unknown /\ lastKnown = Unknown
          /\ sim.action = "none" /\ command.shown = Unknown
      BY <1>3 DEF KnownInv
    <2>2. Simulated(sim) = Unknown
      BY <2>1 DEF Simulated
    <2>3. lastKnown' = Unknown
      BY <1>3, <2>1, <2>2, StoreKeeps DEF Held
    <2>4. ~Observed
      BY <1>3, <2>1 DEF Observed
    <2>5. sim' \in {NoSimulation, sim}
      <3> DEFINE real == MotionAction(data'.state)
      <3>1. Started(real, Unknown) = sim
        BY <2>4 DEF Started
      <3>2. sim' = Synced(data')
        BY StoreKeeps
      <3>3. real # "none" => sim.action # real
        BY <2>1
      <3> QED
        BY <1>3, <2>1, <3>1, <3>2, <3>3 DEF Synced
    <2>6. sim'.action = "none"
      BY <2>1, <2>5 DEF NoSimulation
    <2> QED
      BY <1>3, <2>1, <2>3, <2>6 DEF KnownInv
  <1> QED BY <1>1, <1>2, <1>3
-----------------------------------------------------------------------------
(* The steps keep the invariant. *)

LEMMA NoStatusFields == StatusFields \subseteq DOMAIN NoStatus
  BY DEF NoStatus, StatusFields

LEMMA MergedFields ==
  ASSUME NEW f, StatusFields \subseteq DOMAIN data
  PROVE  StatusFields \subseteq DOMAIN Merged(f)
  <1> DEFINE base == IF data.state = "none" THEN [NoStatus EXCEPT !.state = "unknown"]
                     ELSE data
  <1>1. StatusFields \subseteq DOMAIN base
    BY NoStatusFields
  <1> HIDE DEF base
  <1>2. ASSUME NEW s, NEW p, NEW r
        PROVE  DOMAIN [base EXCEPT !.state = s, !.position = p, !.raw = r] = DOMAIN base
    OBVIOUS
  <1>3. DOMAIN Merged(f) = DOMAIN base
    BY <1>2 DEF Merged, base
  <1> QED BY <1>1, <1>3

\* What a handled frame does to what is known: the status as it was, an empty one,
\* or what the frame says, stored like an answer.
FrameKeeps ==
  \/ UNCHANGED <<data, lastKnown, observed, stop, sim>>
  \/ /\ data' = IF data.state = "none" THEN [NoStatus EXCEPT !.state = "unknown"] ELSE data
     /\ UNCHANGED <<lastKnown, observed, stop, sim>>
  \/ Store(Merged(Head(frames)))

\* Asking for the next poll neither makes nor takes an answer.
LEMMA ScheduledKeeps ==
  ASSUME poll' \in {poll, Scheduled}
  PROVE  /\ poll'.pc = "read" => poll' = poll
         /\ poll.pc = "read" => poll' = poll
  BY DEF Scheduled, NoPoll

LEMMA FrameSteps ==
  ASSUME HandleFrame
  PROVE  /\ FrameKeeps
         /\ UNCHANGED <<kind, gate, command>> /\ poll' \in {poll, Scheduled}
  <1>1. UNCHANGED <<kind, gate, command>> /\ poll' \in {poll, Scheduled}
    BY DEF HandleFrame, HandleEvent, HandleFailure, Ignore
  <1> DEFINE f == Head(frames)
  <1>2. HandleEvent(f) \/ HandleFailure(f) \/ Ignore(f)
    BY DEF HandleFrame
  <1>3. CASE HandleEvent(f)
    <2>1. CASE f.what = "diagnostic"
      BY <1>1, <1>3, <2>1 DEF HandleEvent, FrameKeeps
    <2>2. CASE f.what # "diagnostic"
      BY <1>1, <1>3, <2>2 DEF HandleEvent, FrameKeeps
    <2> QED BY <2>1, <2>2
  <1>4. CASE HandleFailure(f)
    <2>1. UNCHANGED <<data, lastKnown, observed, stop, sim>>
      BY <1>4 DEF HandleFailure
    <2> QED BY <1>1, <2>1 DEF FrameKeeps
  <1>5. CASE Ignore(f)
    <2>1. UNCHANGED <<data, lastKnown, observed, stop, sim>>
      BY <1>5 DEF Ignore
    <2> QED BY <1>1, <2>1 DEF FrameKeeps
  <1> QED BY <1>1, <1>2, <1>3, <1>4, <1>5

LEMMA EmptyStatusKnowsNothing ==
  /\ [NoStatus EXCEPT !.state = "unknown"].position = Unknown
  /\ [NoStatus EXCEPT !.state = "unknown"].state = "unknown"
  /\ StatusFields \subseteq DOMAIN [NoStatus EXCEPT !.state = "unknown"]
  BY NoStatusFields DEF NoStatus

LEMMA AnswersAreSound ==
  ASSUME kind \in Kinds, gate \in GateStates, NEW s \in Answers
  PROVE  AnswerSound(s)
  <1>1. Full \in Nat /\ kind \in {"door", "live", "scalar", "encoder"}
    BY StreamAssumption
  <1>2. \A end \in {"open", "closed"} : gate.state = end => gate.place = EndOf(end)
    BY <1>1 DEF GateStates, EndOf
  <1>3. ASSUME NEW p, NEW r,
               p \in {Unknown, gate.place}, r \in {Unknown, gate.place}
        PROVE  AnswerSound(Status(gate.state, p, r))
    <2> DEFINE a == Status(gate.state, p, r)
    <2>1. /\ StatusFields \subseteq DOMAIN a /\ a.confirmed = FALSE
          /\ a.state = gate.state /\ a.position = p /\ a.raw = r
      BY DEF Status, NoStatus, StatusFields
    <2> HIDE DEF a
    <2>2. AnswerSound(a)
      BY <1>2, <1>3, <2>1 DEF AnswerSound, SeenAt
    <2> QED BY <2>2 DEF a
  <1>4. CASE kind = "door"
    BY <1>3, <1>4 DEF Answers
  <1>5. CASE kind = "encoder"
    <2> DEFINE a == Status(gate.state, gate.place, Unknown)
               b == [a EXCEPT !.encoder = TRUE]
    <2>1. s = b
      BY <1>5 DEF Answers
    <2>2. AnswerSound(a)
      BY <1>3
    <2> HIDE DEF a
    <2>3. /\ DOMAIN b = DOMAIN a /\ b.state = a.state /\ b.position = a.position
          /\ b.raw = a.raw /\ b.confirmed = a.confirmed
      BY <2>2 DEF AnswerSound, StatusFields
    <2> HIDE DEF b
    <2> QED BY <2>1, <2>2, <2>3 DEF AnswerSound
  <1>6. CASE kind \in {"live", "scalar"}
    <2>1. PICK p \in {gate.place, Unknown} : s = Status(gate.state, p, p)
      BY <1>6 DEF Answers
    <2> QED BY <1>3, <2>1
  <1> QED BY <1>1, <1>4, <1>5, <1>6

LEMMA InitSound == Init => StreamInv
  <1> SUFFICES ASSUME Init PROVE StreamInv
    OBVIOUS
  <1>1. kind \in Kinds /\ gate \in GateStates
    BY DEF Init
  <1>2. StatusFields \subseteq DOMAIN data
    BY NoStatusFields DEF Init
  <1>3. poll.pc # "read"
    BY DEF Init, NoPoll
  <1>4. KnownInv
    BY DEF Init, KnownInv, NoStatus, NoSimulation, NoCommand
  <1> QED BY <1>1, <1>2, <1>3, <1>4 DEF StreamInv

\* The steps that leave the status and what is known of positions alone.
LEMMA QuietSteps ==
  ASSUME StreamInv, gate' \in GateStates,
         UNCHANGED <<kind, data, lastKnown, observed>>,
         sim'.action # "none" => observed,
         command'.shown # Unknown => observed,
         poll'.pc = "read" => AnswerSound(poll'.status)
  PROVE  StreamInv'
  <1>1. KnownInv'
    BY DEF StreamInv, KnownInv
  <1>2. StatusFields \subseteq DOMAIN data' /\ kind' \in Kinds
    BY DEF StreamInv
  <1>3. (poll.pc = "read" => AnswerSound(poll.status))'
    BY DEF AnswerSound, SeenAt
  <1> QED BY <1>1, <1>2, <1>3 DEF StreamInv

LEMMA FrameSound ==
  ASSUME StreamInv, HandleFrame
  PROVE  StreamInv'
  <1>1. /\ FrameKeeps
        /\ UNCHANGED <<kind, gate, command>> /\ poll' \in {poll, Scheduled}
    BY FrameSteps
  <1>2. (poll.pc = "read" => AnswerSound(poll.status))'
    BY <1>1, ScheduledKeeps DEF StreamInv, AnswerSound, SeenAt
  <1>3. kind' \in Kinds /\ (gate \in GateStates)'
    BY <1>1 DEF StreamInv, GateStates
  <1>4. CASE UNCHANGED <<data, lastKnown, observed, stop, sim>>
    <2>1. KnownInv'
      BY <1>1, <1>4 DEF StreamInv, KnownInv
    <2> QED BY <1>2, <1>3, <1>4, <2>1 DEF StreamInv
  <1>5. CASE /\ data' = IF data.state = "none"
                        THEN [NoStatus EXCEPT !.state = "unknown"] ELSE data
             /\ UNCHANGED <<lastKnown, observed, stop, sim>>
    <2>1. data' = data \/ data' = [NoStatus EXCEPT !.state = "unknown"]
      BY <1>5
    <2>2. (data'.position = Unknown \/ data' = data) /\ StatusFields \subseteq DOMAIN data'
      BY <2>1, EmptyStatusKnowsNothing DEF StreamInv
    <2>3. KnownInv'
      BY <1>1, <1>5, <2>2 DEF StreamInv, KnownInv
    <2> QED BY <1>2, <1>3, <2>2, <2>3 DEF StreamInv
  <1>6. CASE Store(Merged(Head(frames)))
    <2> DEFINE merged == Merged(Head(frames))
    <2>1. StatusFields \subseteq DOMAIN merged
      BY MergedFields DEF StreamInv
    <2>2. data' = Kept(merged)
      BY <1>6, StoreKeeps
    <2>3. StatusFields \subseteq DOMAIN data'
      BY <2>1, <2>2, KeptFields
    <2>4. KnownInv'
      BY <1>1, <1>6, StoreKnows DEF StreamInv
    <2> QED BY <1>2, <1>3, <2>3, <2>4 DEF StreamInv
  <1> QED BY <1>1, <1>4, <1>5, <1>6 DEF FrameKeeps

LEMMA PollSound ==
  ASSUME StreamInv, PollApply
  PROVE  StreamInv'
  <1>1. /\ poll.pc = "read" /\ poll' = NoPoll /\ Store(poll.status)
        /\ UNCHANGED <<kind, gate, command>>
    BY DEF PollApply
  <1>2. StatusFields \subseteq DOMAIN poll.status
    BY <1>1 DEF StreamInv, AnswerSound
  <1>3. data' = Kept(poll.status)
    BY <1>1, StoreKeeps
  <1>4. StatusFields \subseteq DOMAIN data'
    BY <1>2, <1>3, KeptFields
  <1>5. KnownInv'
    BY <1>1, StoreKnows DEF StreamInv
  <1>6. poll'.pc # "read"
    BY <1>1 DEF NoPoll
  <1>7. kind' \in Kinds /\ (gate \in GateStates)'
    BY <1>1 DEF StreamInv, GateStates
  <1> QED BY <1>4, <1>5, <1>6, <1>7 DEF StreamInv

\* A position is shown only where one was reported.
LEMMA ShownIsKnown ==
  ASSUME KnownInv, Shown.value # Unknown
  PROVE  observed
  <1>1. CASE Simulated(sim) # Unknown
    BY <1>1 DEF Simulated, KnownInv
  <1>2. CASE Simulated(sim) = Unknown
    <2>1. data.position # Unknown \/ lastKnown # Unknown
      BY <1>2 DEF Shown, Resolved
    <2> QED BY <2>1 DEF KnownInv
  <1> QED BY <1>1, <1>2

LEMMA CommandSound ==
  ASSUME StreamInv, CommandAccepted
  PROVE  StreamInv'
  <1>1. /\ UNCHANGED <<kind, gate, data, observed>> /\ command' = NoCommand
        /\ poll' \in {poll, Scheduled}
    BY DEF CommandAccepted
  <1>2. (poll.pc = "read" => AnswerSound(poll.status))'
    BY <1>1, ScheduledKeeps DEF StreamInv, AnswerSound, SeenAt
  <1>3. kind' \in Kinds /\ (gate \in GateStates)' /\ StatusFields \subseteq DOMAIN data'
    BY <1>1 DEF StreamInv, GateStates
  <1>4. lastKnown' = lastKnown \/ (lastKnown' = command.shown /\ command.shown # Unknown)
    BY DEF CommandAccepted
  <1>5. sim' = NoSimulation \/ \E action, target : sim' = Started(action, target)
    <2>1. CASE command.action \in {"stop", "step"}
      BY <2>1 DEF CommandAccepted
    <2>2. CASE command.action \notin {"stop", "step"}
      <3>1. \E t \in Targets(command.action) :
               sim' = Started(IF command.action = "close" THEN "close" ELSE "open", t)
        BY <2>2 DEF CommandAccepted
      <3> QED BY <3>1
    <2> QED BY <2>1, <2>2
  <1>6. sim'.action # "none" => observed
    <2>1. \A action, target : Started(action, target) = sim \/ Observed
      BY DEF Started
    <2>2. Observed => observed
      BY DEF Observed, StreamInv, KnownInv
    <2>3. sim.action # "none" => observed
      BY DEF StreamInv, KnownInv
    <2> QED BY <1>5, <2>1, <2>2, <2>3 DEF NoSimulation
  <1>7. command'.shown = Unknown
    BY <1>1 DEF NoCommand
  <1>8. KnownInv'
    <2>1. (data.position # Unknown \/ lastKnown # Unknown \/ command.shown # Unknown)
            => observed
      BY DEF StreamInv, KnownInv
    <2> QED BY <1>1, <1>4, <1>6, <1>7, <2>1 DEF KnownInv
  <1> QED BY <1>2, <1>3, <1>8 DEF StreamInv

LEMMA StepSound == StreamInv /\ [Next]_vars => StreamInv'
  <1> SUFFICES ASSUME StreamInv, [Next]_vars PROVE StreamInv'
    OBVIOUS
  <1>1. /\ sim.action # "none" => observed
        /\ command.shown # Unknown => observed
        /\ poll.pc = "read" => AnswerSound(poll.status)
        /\ gate \in GateStates /\ kind \in Kinds
    BY DEF StreamInv, KnownInv
  <1>2. NoSimulation.action = "none" /\ NoCommand.shown = Unknown /\ NoPoll.pc = "none"
    BY DEF NoSimulation, NoCommand, NoPoll
  <1>3. CASE Move
    <2>1. /\ gate' \in GateStates
          /\ UNCHANGED <<kind, data, lastKnown, observed, sim, command, poll>>
      BY <1>3 DEF Move
    <2> QED BY <1>1, <2>1, QuietSteps
  <1>4. CASE SendFrame
    <2>1. UNCHANGED <<gate, kind, data, lastKnown, observed, sim, command, poll>>
      BY <1>4 DEF SendFrame
    <2> QED BY <1>1, <2>1, QuietSteps
  <1>5. CASE HandleFrame
    BY <1>5, FrameSound
  <1>6. CASE PollBegin
    <2>1. UNCHANGED <<gate, kind, data, lastKnown, observed, sim, command>>
      BY <1>6 DEF PollBegin
    <2>2. poll'.pc # "read"
      BY <1>6 DEF PollBegin, NoPoll
    <2> QED BY <1>1, <2>1, <2>2, QuietSteps
  <1>7. CASE PollRead
    <2>1. UNCHANGED <<gate, kind, data, lastKnown, observed, sim, command>>
      BY <1>7 DEF PollRead
    <2>2. PICK s \in Answers : poll' = [pc |-> "read", status |-> s]
      BY <1>7 DEF PollRead
    <2>3. AnswerSound(poll'.status)
      BY <1>1, <2>2, AnswersAreSound
    <2> QED BY <1>1, <2>1, <2>3, QuietSteps
  <1>8. CASE PollApply
    BY <1>8, PollSound
  <1>9. CASE PollFails \/ PollRefused
    <2>1. UNCHANGED <<gate, kind, data, lastKnown, observed, command>>
          /\ sim' = NoSimulation /\ poll' \in {NoPoll, Refused}
      BY <1>9 DEF PollFails, PollRefused, ReadFails
    <2>2. poll'.pc # "read"
      BY <2>1 DEF NoPoll, Refused
    <2> QED BY <1>1, <1>2, <2>1, <2>2, QuietSteps
  <1>10. ASSUME NEW a, CommandBegin(a) PROVE StreamInv'
    <2>1. UNCHANGED <<gate, kind, data, lastKnown, observed, sim, poll>>
      BY <1>10 DEF CommandBegin
    <2>2. command'.shown \in {Shown.value, Unknown}
      BY <1>10 DEF CommandBegin
    <2>3. command'.shown # Unknown => observed
      BY <2>2, ShownIsKnown DEF StreamInv
    <2> QED BY <1>1, <2>1, <2>3, QuietSteps
  <1>11. CASE CommandAccepted
    BY <1>11, CommandSound
  <1>12. CASE CommandFails
    <2>1. UNCHANGED <<gate, kind, data, lastKnown, observed, poll>>
          /\ sim' = NoSimulation /\ command' = NoCommand
      BY <1>12 DEF CommandFails
    <2> QED BY <1>1, <1>2, <2>1, QuietSteps
  <1>13. CASE Calibrate \/ Reconnect \/ Shutdown
    <2>1. UNCHANGED <<gate, kind, data, lastKnown, observed, command>>
          /\ sim' \in {sim, NoSimulation} /\ poll' \in {poll, Scheduled}
      BY <1>13 DEF Calibrate, Reconnect, Shutdown
    <2>2. poll'.pc = "read" => AnswerSound(poll'.status)
      BY <1>1, <2>1, ScheduledKeeps
    <2> QED BY <1>1, <1>2, <2>1, <2>2, QuietSteps
  <1>14. CASE Tick
    <2>1. UNCHANGED <<gate, kind, data, lastKnown, observed, command, poll>>
      BY <1>14 DEF Tick
    <2>2. sim' = NoSimulation \/ sim.action # "none"
      BY <1>14 DEF Tick
    <2> QED BY <1>1, <1>2, <2>1, <2>2, QuietSteps
  <1>15. CASE UNCHANGED vars
    <2>1. UNCHANGED <<gate, kind, data, lastKnown, observed, sim, command, poll>>
      BY <1>15 DEF vars
    <2> QED BY <1>1, <2>1, QuietSteps
  <1> QED BY <1>3, <1>4, <1>5, <1>6, <1>7, <1>8, <1>9, <1>10, <1>11, <1>12, <1>13,
             <1>14, <1>15 DEF Next

\* Every reachable state: an answer read from a gate at an end has that end's
\* position or none, and no position is shown, held or estimated before the
\* controller reported one (coordinator.py's _position_reporting_observed).
THEOREM StreamInvariant == Spec => []StreamInv
  BY InitSound, StepSound, PTL DEF Spec

-----------------------------------------------------------------------------
(* A held stop. *)

\* While a local stop is held, neither a poll's answer nor a frame, in whatever
\* order they were read and arrive, makes the gate shown as moving or at an end
\* (position.py's recent stop hint).
THEOREM HeldStop == Spec => StopIsHeld
  <1> DEFINE Masked == InHold /\ stop.motion /\ stop' = stop /\ data' # data
                        => data'.state \notin {"open", "closed"} \cup MovingStates
  <1>1. ASSUME StreamInv, [Next]_vars PROVE Masked
    <2> SUFFICES ASSUME InHold, stop.motion, data' # data
                 PROVE  data'.state \notin {"open", "closed"} \cup MovingStates
      OBVIOUS
    <2>1. CASE PollApply
      <3>1. Store(poll.status) /\ StatusFields \subseteq DOMAIN poll.status
        BY <1>1, <2>1 DEF PollApply, StreamInv, AnswerSound
      <3> QED BY <3>1, StoreKeeps, KeptFields
    <2>2. CASE HandleFrame
      <3>1. CASE Store(Merged(Head(frames)))
        <4>1. StatusFields \subseteq DOMAIN Merged(Head(frames))
          BY <1>1, MergedFields DEF StreamInv
        <4> QED BY <3>1, <4>1, StoreKeeps, KeptFields
      <3>2. CASE data' = IF data.state = "none"
                         THEN [NoStatus EXCEPT !.state = "unknown"] ELSE data
        <4>1. data'.state = "unknown"
          BY <3>2, EmptyStatusKnowsNothing
        <4> QED BY <4>1 DEF MovingStates
      <3>3. FrameKeeps
        BY <2>2, FrameSteps
      <3> QED BY <3>1, <3>2, <3>3 DEF FrameKeeps
    <2>3. CASE ~PollApply /\ ~HandleFrame
      <3>1. data' = data
        BY <1>1, <2>3 DEF Next, vars, Move, SendFrame, PollBegin, PollRead, PollFails,
           PollRefused, ReadFails, CommandBegin, CommandAccepted, CommandFails, Calibrate, Tick, Reconnect, Shutdown
      <3> QED BY <3>1
    <2> QED BY <2>1, <2>2, <2>3
  <1>2. ASSUME StreamInv, [Next]_vars PROVE [Masked]_vars
    BY <1>1, <1>2
  <1> QED BY <1>2, StreamInvariant, PTL DEF Spec, StopIsHeld

-----------------------------------------------------------------------------
(* What a poll shows of a gate at an end. *)

\* The scale takes a raw position at an end of the travel to that end.
LEMMA ScaledAnswer ==
  ASSUME ScalarClosed <= ScalarOpen, NEW status, AnswerSound(status),
         NEW end \in {"open", "closed"}, status.state = end
  PROVE  SeenAt(end, Scaled(status).position)
  <1>1. /\ StatusFields \subseteq DOMAIN status
        /\ SeenAt(end, status.position) /\ SeenAt(end, status.raw)
    BY DEF AnswerSound
  <1>2. Full \in Nat /\ Full > 1 /\ ScalarClosed \in 0..Full /\ ScalarOpen \in 0..Full
    BY StreamAssumption
  <1>3. CASE kind # "scalar" \/ status.raw = Unknown \/ ScalarOpen = ScalarClosed
    BY <1>1, <1>3 DEF Scaled
  <1>4. CASE ~(kind # "scalar" \/ status.raw = Unknown \/ ScalarOpen = ScalarClosed)
    <2> DEFINE place == Between(0, ((status.raw - ScalarClosed) * Full)
                                      \div (ScalarOpen - ScalarClosed), Full)
    <2>1. ScalarClosed < ScalarOpen
      BY <1>2, <1>4
    <2>2. status.raw = EndOf(end)
      BY <1>1, <1>4 DEF SeenAt
    <2>3. place = EndOf(end)
      <3>1. CASE end = "open"
        <4>1. status.raw = Full
          BY <2>2, <3>1 DEF EndOf
        <4>2. place = Full
          BY <2>1, <4>1, ScaleEnds
        <4> QED BY <3>1, <4>2 DEF EndOf
      <3>2. CASE end = "closed"
        <4>1. status.raw = 0
          BY <2>2, <3>2 DEF EndOf
        <4>2. place = 0
          BY <2>1, <4>1, ScaleEnds
        <4> QED BY <3>2, <4>2 DEF EndOf
      <3> QED BY <3>1, <3>2
    <2>4. Scaled(status) = [status EXCEPT !.position = place]
      BY <1>4 DEF Scaled
    <2> HIDE DEF place
    <2>5. Scaled(status).position = place
      BY <1>1, <2>4 DEF StatusFields
    <2> QED BY <2>3, <2>5 DEF SeenAt
  <1> QED BY <1>3, <1>4

\* An answer that is kept as open or closed is kept at that end, or nowhere while
\* no position was ever reported.
LEMMA KeptEnd ==
  ASSUME ScalarClosed <= ScalarOpen, NEW status, AnswerSound(status),
         NEW end \in {"open", "closed"}, Kept(status).state = end
  PROVE  /\ SeenAt(end, Kept(status).position)
         /\ Observed => Kept(status).position # Unknown
  <1> DEFINE scaled == Scaled(status)
  <1>1. StatusFields \subseteq DOMAIN status
    BY DEF AnswerSound
  <1>2. Hinted(status) = status /\ status.state = end
    BY <1>1, KeptFields, HintKeepsFields
  <1>3. SeenAt(end, scaled.position)
    BY <1>2, ScaledAnswer
  <1>4. StatusFields \subseteq DOMAIN scaled /\ scaled.state = end
    BY <1>1, <1>2, ScaleKeepsFields
  <1>5. Kept(status) = Confirmed(scaled)
    BY <1>2 DEF Kept
  <1> HIDE DEF scaled
  <1>6. CASE scaled.position = Unknown /\ Observed
    <2> DEFINE c == [scaled EXCEPT !.position = EndOf(scaled.state), !.confirmed = TRUE]
    <2>1. Confirmed(scaled) = c
      BY <1>4, <1>6 DEF Confirmed
    <2>2. c.position = EndOf(end)
      BY <1>4 DEF StatusFields
    <2>3. EndOf(end) # Unknown
      BY StreamAssumption DEF EndOf, Unknown
    <2> HIDE DEF c
    <2> QED BY <1>5, <2>1, <2>2, <2>3 DEF SeenAt
  <1>7. CASE ~(scaled.position = Unknown /\ Observed)
    <2>1. Confirmed(scaled) = scaled
      BY <1>7 DEF Confirmed
    <2> QED BY <1>3, <1>5, <1>7, <2>1
  <1> QED BY <1>6, <1>7

\* With a status at an end and no estimate, what is shown is the position, or the
\* last known one where there is none.
LEMMA ShownOfEnd ==
  ASSUME NEW status, status.state \in {"open", "closed"}, NEW s, s.action = "none", NEW last
  PROVE  Resolved(status, s, last).value
           = IF status.position # Unknown THEN status.position ELSE last
  <1>1. Simulated(s) = Unknown
    BY DEF Simulated
  <1> QED BY <1>1 DEF Resolved

\* After a poll, a gate shown as open or closed with no estimate running is shown
\* at that end or nowhere, when the raw bounds of a live_scalar profile lie in the
\* order in which the raw position grows (position.py's
\* _normalize_status_for_display and resolve_position).
THEOREM PolledEnd ==
  ASSUME ScalarClosed <= ScalarOpen
  PROVE  Spec => PolledEndAgrees
  <1> DEFINE Agrees == poll.pc = "read" /\ poll'.pc = "none"
                         /\ data'.state \in {"open", "closed"} /\ sim'.action = "none"
                         => Shown'.value \in {Unknown, EndOf(data'.state)}
  <1>1. ASSUME StreamInv, [Next]_vars PROVE Agrees
    <2> SUFFICES ASSUME poll.pc = "read", poll'.pc = "none",
                        data'.state \in {"open", "closed"}, sim'.action = "none"
                 PROVE  Shown'.value \in {Unknown, EndOf(data'.state)}
      OBVIOUS
    <2>1. PollApply
      <3>1. poll' \notin {poll, Scheduled}
        BY ScheduledKeeps
      <3>2. /\ ~Move /\ ~SendFrame /\ ~HandleFrame /\ ~PollBegin /\ ~PollRead
            /\ ~PollFails /\ ~PollRefused
        BY <3>1, FrameSteps DEF Move, SendFrame, PollBegin, PollRead, PollFails,
           PollRefused, ReadFails
      <3>3. /\ ~(\E a \in {"open", "close", "stop", "partial", "step"} : CommandBegin(a))
            /\ ~CommandAccepted /\ ~CommandFails
        BY <3>1 DEF CommandBegin, CommandAccepted, CommandFails
      <3>4. ~Calibrate /\ ~Tick /\ ~Reconnect /\ ~Shutdown /\ ~(UNCHANGED vars)
        BY <3>1 DEF Calibrate, Tick, Reconnect, Shutdown, vars
      <3> QED BY <1>1, <3>2, <3>3, <3>4 DEF Next
    <2>2. Store(poll.status) /\ AnswerSound(poll.status)
      BY <1>1, <2>1 DEF PollApply, StreamInv
    <2>3. data' = Kept(poll.status)
      BY <2>2, StoreKeeps
    <2>4. /\ SeenAt(data'.state, data'.position)
          /\ Observed => data'.position # Unknown
      BY <2>2, <2>3, KeptEnd
    <2>5. Shown'.value = IF data'.position # Unknown THEN data'.position ELSE lastKnown'
      <3>1. kind' = kind
        BY <2>1 DEF PollApply
      <3>2. Shown' = Resolved(data', sim', lastKnown')
        BY <3>1 DEF Shown, Resolved
      <3> QED BY <3>2, ShownOfEnd
    <2>6. data'.position = Unknown => lastKnown' = Unknown
      <3> SUFFICES ASSUME data'.position = Unknown PROVE lastKnown' = Unknown
        OBVIOUS
      <3>1. lastKnown = Unknown
        BY <1>1, <2>4 DEF Observed, StreamInv, KnownInv
      <3>2. \E last \in {Unknown, lastKnown} : lastKnown' = Held(data', last)
        BY <2>2, StoreKeeps
      <3> QED BY <3>1, <3>2 DEF Held
    <2> QED BY <2>4, <2>5, <2>6 DEF SeenAt
  <1>2. ASSUME StreamInv, [Next]_vars PROVE [Agrees]_vars
    BY <1>1, <1>2
  <1> QED BY <1>2, StreamInvariant, PTL DEF Spec, PolledEndAgrees

-----------------------------------------------------------------------------
(* The controls of the same coordinator: DeviceControls, with variables of its *)
(* own.  "nobody" is its mark for a name that no service wrote.                *)

CONSTANTS Callers, Wanted, Families, MaxCalls, MaxStarts, MaxFaults
VARIABLES family, device, shown, up, info, known, cache, due, scan, offered, run,
          call, spent
D == INSTANCE DeviceControls
       WITH Kinds <- Families, MaxMoves <- MaxStarts, kind <- family, data <- shown,
            poll <- scan


CallFields == {"at", "control", "arg", "read", "ok"}

\* A call that will report a change of name as verified has read it back; only
\* another change of name can undo it.
NameInv ==
  /\ {"name", "writer", "moving"} \subseteq DOMAIN device
  /\ DOMAIN call = Callers
  /\ \A c \in Callers :
       /\ CallFields \subseteq DOMAIN call[c]
       /\ (call[c].at = "answered" /\ call[c].ok /\ call[c].control = "name") =>
             /\ call[c].read = call[c].arg
             /\ device.writer \in {c, "nobody"} => device.name = call[c].arg

LEMMA IdleFields == CallFields \subseteq DOMAIN D!Idle /\ D!Idle.at = "idle"
  BY DEF D!Idle, CallFields

\* What a step leaves of the device that a name is compared with.
SameName == /\ {"name", "writer", "moving"} \subseteq DOMAIN device'
            /\ device'.name = device.name /\ device'.writer = device.writer

LEMMA MovesKeepName ==
  ASSUME {"name", "writer", "moving"} \subseteq DOMAIN device, NEW m,
         device' = [device EXCEPT !.moving = m]
  PROVE  SameName
  BY DEF SameName

\* A step of one call that is not yet answered, or gives it up.
LEMMA CallStep ==
  ASSUME NameInv, NEW c \in Callers, NEW next, SameName,
         call' = [call EXCEPT ![c] = next],
         CallFields \subseteq DOMAIN next,
         next.at = "answered" /\ next.ok /\ next.control = "name" =>
            next.read = next.arg /\ (device.writer \in {c, "nobody"} => device.name = next.arg)
  PROVE  NameInv'
  <1>1. DOMAIN call' = Callers /\ call'[c] = next
    BY DEF NameInv
  <1>2. \A d \in Callers : d # c => call'[d] = call[d]
    BY DEF NameInv
  <1>3. ASSUME NEW d \in Callers
        PROVE  /\ CallFields \subseteq DOMAIN call'[d]
               /\ (call'[d].at = "answered" /\ call'[d].ok /\ call'[d].control = "name") =>
                    /\ call'[d].read = call'[d].arg
                    /\ device'.writer \in {d, "nobody"} => device'.name = call'[d].arg
    <2>1. CASE d = c
      BY <1>1, <2>1 DEF SameName
    <2>2. CASE d # c
      BY <1>2, <2>2 DEF SameName, NameInv
    <2> QED BY <2>1, <2>2
  <1> QED BY <1>1, <1>3 DEF NameInv, SameName

LEMMA UntouchedSteps ==
  ASSUME NameInv, SameName, UNCHANGED call
  PROVE  NameInv'
  BY DEF NameInv, SameName


\* A handler's first steps leave no answer behind, and hand no excluded action on.
Began(c, next) ==
  /\ call' = [call EXCEPT ![c] = next]
  /\ CallFields \subseteq DOMAIN next /\ next.at # "answered"
  /\ (next.at = "queued" /\ next.control \in D!Actions) => D!Supported(next.control)

LEMMA HandedBegins ==
  ASSUME NEW c, NEW this, CallFields \subseteq DOMAIN this, D!Handed(c, this)
  PROVE  \E next : Began(c, next)
  <1> DEFINE given == [this EXCEPT !.at = "queued"]
             next == IF this.control \in D!Actions /\ ~D!Supported(this.control)
                     THEN D!Idle ELSE given
  <1>1. call' = [call EXCEPT ![c] = next]
    BY DEF D!Handed, D!Goes
  <1>2. CallFields \subseteq DOMAIN given /\ given.at = "queued" /\ given.control = this.control
    BY DEF CallFields
  <1> HIDE DEF given
  <1>3. /\ CallFields \subseteq DOMAIN next /\ next.at # "answered"
        /\ (next.at = "queued" /\ next.control \in D!Actions) => D!Supported(next.control)
    BY <1>2, IdleFields
  <1> HIDE DEF next
  <1>4. Began(c, next)
    BY <1>1, <1>3 DEF Began
  <1> QED BY <1>4

LEMMA BegunBegins ==
  ASSUME NEW c, NEW this, CallFields \subseteq DOMAIN this, D!Begun(c, this)
  PROVE  \E next : Began(c, next)
  <1>1. CASE D!Refused(this.control)
    <2>1. call' = [call EXCEPT ![c] = D!Idle]
      BY <1>1 DEF D!Begun, D!Goes
    <2>2. Began(c, D!Idle)
      BY <2>1, IdleFields DEF Began
    <2> QED BY <2>2
  <1>2. CASE ~D!Refused(this.control) /\ (run = "none" \/ this.control = "logs")
    <2>1. D!Handed(c, this)
      BY <1>2 DEF D!Begun
    <2> QED BY <2>1, HandedBegins
  <1>3. CASE ~D!Refused(this.control) /\ ~(run = "none" \/ this.control = "logs")
    <2> DEFINE next == [this EXCEPT !.at = "waiting"]
    <2>1. call' = [call EXCEPT ![c] = next]
      BY <1>3 DEF D!Begun, D!Goes
    <2>2. CallFields \subseteq DOMAIN next /\ next.at = "waiting"
      BY DEF CallFields
    <2> HIDE DEF next
    <2>3. Began(c, next)
      BY <2>1, <2>2 DEF Began
    <2> QED BY <2>3
  <1> QED BY <1>1, <1>2, <1>3

\* The steps of a call up to the executor.
LEMMA ServiceBegins ==
  ASSUME NameInv, NEW c \in Callers, D!Called(c) \/ D!Begins(c) \/ D!Resumes(c)
  PROVE  SameName /\ \E next : Began(c, next)
  <1>1. CASE D!Called(c)
    <2>1. SameName
      BY <1>1 DEF D!Called, SameName, NameInv
    <2>2. PICK k \in offered :
             LET this == [D!Idle EXCEPT !.at = "called", !.control = k, !.arg = Wanted[c]]
             IN  IF k \in D!Buttons /\ D!LaneTaken THEN D!Goes(c, this) ELSE D!Begun(c, this)
      BY <1>1 DEF D!Called
    <2> DEFINE this == [D!Idle EXCEPT !.at = "called", !.control = k, !.arg = Wanted[c]]
    <2>3. CallFields \subseteq DOMAIN this /\ this.at = "called"
      BY IdleFields DEF CallFields, D!Idle
    <2>4. D!Goes(c, this) \/ D!Begun(c, this)
      BY <2>2
    <2> HIDE DEF this
    <2>5. D!Goes(c, this) => Began(c, this)
      BY <2>3 DEF D!Goes, Began
    <2> QED BY <2>1, <2>3, <2>4, <2>5, BegunBegins
  <1>2. CASE D!Begins(c)
    <2>1. SameName
      BY <1>2 DEF D!Begins, SameName, NameInv
    <2>2. D!Begun(c, call[c]) /\ CallFields \subseteq DOMAIN call[c]
      BY <1>2 DEF D!Begins, NameInv
    <2> QED BY <2>1, <2>2, BegunBegins
  <1>3. CASE D!Resumes(c)
    <2>1. PICK still \in {FALSE, device.moving} : device' = [device EXCEPT !.moving = still]
      BY <1>3 DEF D!Resumes
    <2>2. SameName
      BY <2>1, MovesKeepName DEF NameInv
    <2>3. D!Handed(c, call[c]) /\ CallFields \subseteq DOMAIN call[c]
      BY <1>3 DEF D!Resumes, NameInv
    <2> QED BY <2>2, <2>3, HandedBegins
  <1> QED BY <1>1, <1>2, <1>3

LEMMA AnswerFields ==
  ASSUME NEW c \in Callers, NEW ok, CallFields \subseteq DOMAIN call[c]
  PROVE  /\ CallFields \subseteq DOMAIN D!Answers(c, ok)
         /\ D!Answers(c, ok).at = "answered" /\ D!Answers(c, ok).ok = ok
         /\ D!Answers(c, ok).control = call[c].control /\ D!Answers(c, ok).arg = call[c].arg
  BY DEF D!Answers, CallFields

\* The request reaches the device: its writer is the caller, who has no answer yet.
LEMMA ExecutesSound ==
  ASSUME "nobody" \notin Callers, NameInv, NEW c \in Callers, D!Executes(c)
  PROVE  /\ NameInv'
         /\ \E next : call' = [call EXCEPT ![c] = next] /\ next.at # "queued"
  <1>1. CallFields \subseteq DOMAIN call[c] /\ call[c].at = "queued"
    BY DEF NameInv, D!Executes
  <1>2. PICK done, ok \in BOOLEAN :
          /\ device' = IF done THEN D!Done(c) ELSE device
          /\ D!Goes(c, IF ok /\ call[c].control \in {"name", "clock"}
                       THEN [call[c] EXCEPT !.at = "written"] ELSE D!Answers(c, ok))
    BY DEF D!Executes
  <1> DEFINE written == [call[c] EXCEPT !.at = "written"]
             next == IF ok /\ call[c].control \in {"name", "clock"} THEN written
                     ELSE D!Answers(c, ok)
  <1>3. CallFields \subseteq DOMAIN written /\ written.at = "written"
    BY <1>1 DEF CallFields
  <1> HIDE DEF written
  <1>4. /\ CallFields \subseteq DOMAIN next /\ next.at \in {"written", "answered"}
        /\ ~(next.at = "answered" /\ next.ok /\ next.control = "name")
    BY <1>1, <1>3, AnswerFields
  <1>5. call' = [call EXCEPT ![c] = next]
    BY <1>2 DEF D!Goes, written
  <1> HIDE DEF next
  <1>6. /\ {"name", "writer", "moving"} \subseteq DOMAIN device'
        /\ \/ device'.name = device.name /\ device'.writer = device.writer
           \/ device'.writer = c
    <2>1. CASE device' = device
      BY <2>1 DEF NameInv
    <2>2. CASE device' = D!Done(c)
      <3>1. CASE call[c].control = "setting"
        BY <2>2, <3>1 DEF D!Done, NameInv
      <3>2. CASE call[c].control = "name"
        BY <2>2, <3>2 DEF D!Done, NameInv
      <3>3. CASE call[c].control \in D!Actions
        BY <2>2, <3>3 DEF D!Done, NameInv, D!Actions
      <3>4. CASE call[c].control \notin D!Actions \cup {"setting", "name"}
        <4>1. D!Done(c) = device
          BY <3>4 DEF D!Done
        <4> QED BY <2>2, <4>1 DEF NameInv
      <3> QED BY <3>1, <3>2, <3>3, <3>4
    <2> QED BY <1>2, <2>1, <2>2
  <1>7. /\ DOMAIN call' = Callers /\ call'[c] = next
        /\ \A d \in Callers : d # c => call'[d] = call[d]
    BY <1>5 DEF NameInv
  <1>8. ASSUME NEW d \in Callers
        PROVE  /\ CallFields \subseteq DOMAIN call'[d]
               /\ (call'[d].at = "answered" /\ call'[d].ok /\ call'[d].control = "name") =>
                    /\ call'[d].read = call'[d].arg
                    /\ device'.writer \in {d, "nobody"} => device'.name = call'[d].arg
    <2>1. CASE d = c
      BY <1>4, <1>7, <2>1
    <2>2. CASE d # c
      BY <1>6, <1>7, <2>2 DEF NameInv
    <2> QED BY <2>1, <2>2
  <1>9. NameInv'
    BY <1>6, <1>7, <1>8 DEF NameInv
  <1> QED BY <1>4, <1>5, <1>9

\* The name is verified on what INFO returned, with the name as it then is.
LEMMA ReadsBackSound ==
  ASSUME NameInv, NEW c \in Callers, D!ReadsBack(c)
  PROVE  /\ NameInv'
         /\ \E next : call' = [call EXCEPT ![c] = next] /\ next.at # "queued"
  <1>1. CallFields \subseteq DOMAIN call[c] /\ SameName
    BY DEF NameInv, D!ReadsBack, SameName
  <1>2. CASE D!Goes(c, [D!Answers(c, D!Verified(c)) EXCEPT !.read = device.name])
    <2> DEFINE answer == D!Answers(c, D!Verified(c))
               next == [answer EXCEPT !.read = device.name]
    <2>1. /\ CallFields \subseteq DOMAIN answer /\ answer.at = "answered"
          /\ answer.ok = D!Verified(c) /\ answer.control = call[c].control
          /\ answer.arg = call[c].arg
      BY <1>1, AnswerFields
    <2>2. call' = [call EXCEPT ![c] = next]
      BY <1>2 DEF D!Goes
    <2> HIDE DEF answer
    <2>3. /\ CallFields \subseteq DOMAIN next /\ next.at = "answered"
          /\ next.ok = D!Verified(c) /\ next.control = call[c].control
          /\ next.arg = call[c].arg /\ next.read = device.name
      BY <2>1 DEF CallFields
    <2> HIDE DEF next
    <2>4. next.ok /\ next.control = "name" => device.name = next.arg
      BY <2>3 DEF D!Verified
    <2>5. NameInv'
      BY <1>1, <2>2, <2>3, <2>4, CallStep
    <2> QED BY <2>2, <2>3, <2>5
  <1>3. CASE D!Goes(c, D!Answers(c, FALSE))
    <2> DEFINE next == D!Answers(c, FALSE)
    <2>1. CallFields \subseteq DOMAIN next /\ next.at = "answered" /\ next.ok = FALSE
      BY <1>1, AnswerFields
    <2>2. call' = [call EXCEPT ![c] = next]
      BY <1>3 DEF D!Goes
    <2> HIDE DEF next
    <2>3. NameInv'
      BY <1>1, <2>1, <2>2, CallStep
    <2> QED BY <2>1, <2>2, <2>3
  <1> QED BY <1>2, <1>3 DEF D!ReadsBack

LEMMA FinishesSound ==
  ASSUME NameInv, NEW c \in Callers, D!Finishes(c)
  PROVE  NameInv' /\ call' = [call EXCEPT ![c] = D!Idle]
  <1>1. call' = [call EXCEPT ![c] = D!Idle] /\ SameName
    BY DEF D!Finishes, D!Goes, NameInv, SameName
  <1>2. NameInv'
    BY <1>1, IdleFields, CallStep
  <1> QED BY <1>1, <1>2

\* What a step does to the calls.
LEMMA ControlSteps ==
  ASSUME "nobody" \notin Callers, NameInv, [D!Next]_(D!vars)
  PROVE  /\ NameInv'
         /\ \/ UNCHANGED call
            \/ \E c \in Callers :
                  \/ \E next : Began(c, next)
                  \/ \E next : call' = [call EXCEPT ![c] = next] /\ next.at # "queued"
  <1>1. ASSUME NEW c \in Callers, D!Called(c) \/ D!Begins(c) \/ D!Resumes(c)
        PROVE  NameInv' /\ \E next : Began(c, next)
    <2>1. SameName
      BY <1>1, ServiceBegins
    <2>2. PICK next : Began(c, next)
      BY <1>1, ServiceBegins
    <2>3. NameInv'
      BY <2>1, <2>2, CallStep DEF Began
    <2> QED BY <2>2, <2>3
  <1>2. ASSUME NEW c \in Callers, D!Executes(c) \/ D!ReadsBack(c)
        PROVE  NameInv' /\ \E next : call' = [call EXCEPT ![c] = next] /\ next.at # "queued"
    BY <1>2, ExecutesSound, ReadsBackSound
  <1>3. ASSUME NEW c \in Callers, D!Finishes(c)
        PROVE  NameInv' /\ \E next : call' = [call EXCEPT ![c] = next] /\ next.at # "queued"
    <2>1. NameInv' /\ call' = [call EXCEPT ![c] = D!Idle]
      BY <1>3, FinishesSound
    <2> QED BY <2>1, IdleFields
  <1>4. CASE D!GateStarts \/ D!GateRests
    <2>1. \E m \in BOOLEAN : device' = [device EXCEPT !.moving = m]
      BY <1>4 DEF D!GateStarts, D!GateRests
    <2>2. SameName /\ UNCHANGED call
      BY <1>4, <2>1, MovesKeepName DEF D!GateStarts, D!GateRests, NameInv
    <2> QED BY <2>2, UntouchedSteps
  <1>5. CASE \/ D!PollStarts \/ D!PollReads \/ D!PollFails \/ D!PollMerges
             \/ D!PollReadsInfo \/ D!PollStoresCapabilities \/ D!PollPublishes
             \/ D!ScanAges \/ D!EventArrives \/ D!SetUp \/ D!RunEnds
             \/ UNCHANGED D!vars
    <2>1. UNCHANGED <<device, call>>
      BY <1>5 DEF D!PollStarts, D!PollReads, D!PollFails, D!PollMerges, D!PollReadsInfo,
         D!PollStoresCapabilities, D!PollPublishes, D!ScanAges, D!EventArrives, D!SetUp,
         D!RunEnds, D!vars
    <2>2. SameName
      BY <2>1 DEF SameName, NameInv
    <2> QED BY <2>1, <2>2, UntouchedSteps
  <1> QED BY <1>1, <1>2, <1>3, <1>4, <1>5 DEF D!Next

\* Every reachable state: a change of name that will be reported as verified was
\* read back, and is on the device unless another service changed it since.
THEOREM NameInvariant ==
  ASSUME "nobody" \notin Callers
  PROVE  D!Spec => []NameInv
  <1>1. D!Init => NameInv
    BY IdleFields DEF D!Init, NameInv
  <1>2. NameInv /\ [D!Next]_(D!vars) => NameInv'
    BY ControlSteps
  <1> QED BY <1>1, <1>2, PTL DEF D!Spec

\* Whatever was learned of the device since a T4 action was pressed, and however
\* long its service waited, it is handed to the executor only if the device does
\* not exclude it (coordinator.py's _async_send_dep_action).
THEOREM ExcludedIsNotSent ==
  ASSUME "nobody" \notin Callers
  PROVE  D!Spec => D!UnadvertisedNeverSent
  <1> DEFINE Sent(c) == call[c].at # "queued" /\ call'[c].at = "queued"
                          /\ call'[c].control \in D!Actions => D!Supported(call'[c].control)
  <1>1. ASSUME NameInv, [D!Next]_(D!vars), NEW c \in Callers PROVE Sent(c)
    <2> SUFFICES ASSUME call[c].at # "queued", call'[c].at = "queued",
                        call'[c].control \in D!Actions
                 PROVE  D!Supported(call'[c].control)
      OBVIOUS
    <2>1. \A d \in Callers : \A next : call' = [call EXCEPT ![d] = next] =>
             call'[c] = IF c = d THEN next ELSE call[c]
      BY <1>1 DEF NameInv
    <2>2. PICK d \in Callers :
             \/ \E next : Began(d, next)
             \/ \E next : call' = [call EXCEPT ![d] = next] /\ next.at # "queued"
      BY <1>1, ControlSteps
    <2>3. d = c
      BY <2>1, <2>2 DEF Began
    <2>4. PICK next : Began(c, next)
      BY <2>1, <2>2, <2>3
    <2> QED BY <2>1, <2>4 DEF Began
  <1>2. ASSUME NameInv, [D!Next]_(D!vars) PROVE [\A c \in Callers : Sent(c)]_(D!vars)
    BY <1>1, <1>2
  <1> QED BY <1>2, NameInvariant, PTL DEF D!Spec, D!UnadvertisedNeverSent

\* A change of name reported as verified is on the device and stored, unless another
\* change reached the device meanwhile (administration.py's update_and_verify).
THEOREM VerifiedIsThere ==
  ASSUME "nobody" \notin Callers
  PROVE  D!Spec => D!VerifiedNameIsOnDevice
  <1> DEFINE There(c) ==
        call[c].at = "answered" /\ call'[c].at = "idle" /\ call[c].ok
          /\ call[c].control = "name" /\ device.writer \in {c, "nobody"}
        => device.name = call[c].arg /\ info' = call[c].arg
  <1>1. ASSUME NameInv, [D!Next]_(D!vars), NEW c \in Callers PROVE There(c)
    <2> SUFFICES ASSUME call[c].at = "answered", call'[c].at = "idle", call[c].ok,
                        call[c].control = "name", device.writer \in {c, "nobody"}
                 PROVE  device.name = call[c].arg /\ info' = call[c].arg
      OBVIOUS
    <2>1. device.name = call[c].arg /\ call[c].read = call[c].arg
      BY <1>1 DEF NameInv
    <2>2. D!Finishes(c)
      <3>1. \A d \in Callers : \A next : call' = [call EXCEPT ![d] = next] => d = c
        BY <1>1 DEF NameInv
      <3>2. call' # call
        OBVIOUS
      <3>3. PICK d \in Callers : D!Called(d) \/ D!Begins(d) \/ D!Resumes(d) \/ D!Executes(d)
                                   \/ D!ReadsBack(d) \/ D!Finishes(d)
        BY <1>1, <3>2 DEF D!Next, D!vars, D!PollStarts, D!PollReads, D!PollFails,
           D!PollMerges, D!PollReadsInfo, D!PollStoresCapabilities, D!PollPublishes,
           D!ScanAges, D!EventArrives, D!SetUp, D!GateStarts, D!GateRests, D!RunEnds
      <3>4. CASE D!Called(d) \/ D!Begins(d) \/ D!Resumes(d)
        <4>1. d = c
          BY <1>1, <3>1, <3>4, ServiceBegins DEF Began
        <4>2. call[d].at \in {"idle", "called", "waiting"}
          BY <3>4 DEF D!Called, D!Begins, D!Resumes
        <4> QED BY <4>1, <4>2
      <3>5. CASE D!Executes(d) \/ D!ReadsBack(d)
        <4>1. d = c
          BY <1>1, <3>1, <3>5, ExecutesSound, ReadsBackSound
        <4>2. call[d].at \in {"queued", "written"}
          BY <3>5 DEF D!Executes, D!ReadsBack
        <4> QED BY <4>1, <4>2
      <3>6. CASE D!Finishes(d)
        BY <1>1, <3>1, <3>6, FinishesSound
      <3> QED BY <3>3, <3>4, <3>5, <3>6
    <2>3. info' = call[c].read
      BY <2>2 DEF D!Finishes, D!InfoAfter
    <2> QED BY <2>1, <2>3
  <1>2. ASSUME NameInv, [D!Next]_(D!vars) PROVE [\A c \in Callers : There(c)]_(D!vars)
    BY <1>1, <1>2
  <1> QED BY <1>2, NameInvariant, PTL DEF D!Spec, D!VerifiedNameIsOnDevice
=============================================================================
