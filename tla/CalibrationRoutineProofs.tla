----------------------- MODULE CalibrationRoutineProofs -----------------------
(***************************************************************************)
(* Proofs about CalibrationRoutine, for any gate, targets and times: a run *)
(* that finishes leaves the gate closed, and a refused stop is passed over *)
(* only when the gate stands.                                              *)
(***************************************************************************)
EXTENDS CalibrationRoutine, WellFoundedInduction, SequenceTheorems, TLAPS

-----------------------------------------------------------------------------
(* The inductive invariant. *)

GateFields == {"pos", "motion", "runOn", "lag"}

\* A gate that moves is not at the end it moves to.
SoundGate(g) ==
  /\ GateFields \subseteq DOMAIN g
  /\ g.pos \in 0 .. Full /\ g.motion \in {"idle", "opening", "closing"}
  /\ g.motion = "opening" => g.pos # Full
  /\ g.motion = "closing" => g.pos # 0

Legs == [kind : {"end", "travel", "decide", "approach", "learn"},
         action : Actions \cup {"none"}, target : 0 .. Full, number : Nat]

\* The last leg of a run: to the closed end, or a decision that adds others.
LastLegs ==
  {leg \in Legs : leg.kind = "decide" \/ (leg.kind = "end" /\ leg.action = "close")}
ClosedLast(legs) == legs \in Seq(Legs) /\ (legs # <<>> => legs[Len(legs)] \in LastLegs)

\* Without a leg left, the gate stands at the closed end.
Closed(g) == g.motion = "idle" /\ g.pos <= EndTolerance
RunInv ==
  /\ builder \in {"none", "encoder", "source"}
  /\ ClosedLast(todo)
  /\ builder = "none" => todo = <<>> /\ phase = "begin"
  /\ (todo = <<>> /\ builder # "none") => Closed(gate)
  /\ result = "finished" => todo = <<>> /\ builder # "none"

\* How long the mask of a stop lasts, and what the last read said, while a gate
\* moves or is to be stopped.
Free == hint = 0 /\ (gate.motion # "idle" => gate.runOn = Driven)
MaskInv ==
  /\ hint \in Nat
  /\ "late" \in DOMAIN learning /\ ~learning.late
  /\ phase = "moving" => Free
  /\ phase = "stopping" => Free /\ (gate.motion # "idle" => moving)
  /\ phase = "settling" =>
        /\ "since" \in DOMAIN watch
        /\ watch.since \in Nat /\ watch.since < SettleDelay + SettleTimeout
        /\ gate.motion # "idle" => hint + watch.since >= HintPolls

RoutineInv == SoundGate(gate) /\ RunInv /\ (result = "running" => MaskInv)
-----------------------------------------------------------------------------
(* Induction over a set of numbers, and what FlattenSeq returns. *)

Below == {p \in Nat \X Nat : p[1] < p[2]}

LEMMA BelowIsWellFounded == IsWellFoundedOn(Below, Nat)
  <1>1. OpToRel(<, Nat) = Below
    BY DEF OpToRel, Below
  <1>2. QED
    BY <1>1, NatLessThanWellFounded

LEMMA SetInduction ==
  ASSUME NEW T, T \subseteq Nat, 0 \in T, \A n \in T : n + 1 \in T
  PROVE  T = Nat
  <1>1. SUFFICES ASSUME Nat \ T # {} PROVE FALSE
    OBVIOUS
  <1>2. PICK x \in Nat \ T : \A y \in Nat \ T : <<y, x>> \notin Below
    BY <1>1, BelowIsWellFounded, WFMin
  <1>3. x - 1 \in Nat /\ <<x - 1, x>> \in Below
    BY <1>2 DEF Below
  <1>4. QED
    BY <1>2, <1>3

\* The concatenations of the first sequences of a list, defined by recursion.
Joined(f, n, g) == g = [i \in 1 .. n |-> IF i = 1 THEN f[i] ELSE g[i - 1] \o f[i]]

LEMMA JoinedExists ==
  ASSUME NEW S, NEW n \in Nat, NEW f \in [1 .. n -> Seq(S)]
  PROVE  \E g \in [1 .. n -> Seq(S)] : Joined(f, n, g)
  <1> DEFINE T == {m \in Nat : m <= n => \E g \in [1 .. m -> Seq(S)] : Joined(f, m, g)}
  <1>1. 0 \in T
    <2>1. [i \in 1 .. 0 |-> <<>>] \in [1 .. 0 -> Seq(S)]
      OBVIOUS
    <2>2. Joined(f, 0, [i \in 1 .. 0 |-> <<>>])
      BY DEF Joined
    <2>3. QED
      BY <2>1, <2>2
  <1>2. ASSUME NEW m \in T PROVE m + 1 \in T
    <2>1. SUFFICES ASSUME m + 1 <= n
                   PROVE  \E h \in [1 .. m + 1 -> Seq(S)] : Joined(f, m + 1, h)
      OBVIOUS
    <2>2. PICK g \in [1 .. m -> Seq(S)] : Joined(f, m, g)
      BY <2>1
    <2> DEFINE last == IF m = 0 THEN f[1] ELSE g[m] \o f[m + 1]
               h == [i \in 1 .. m + 1 |-> IF i = m + 1 THEN last ELSE g[i]]
    <2>3. last \in Seq(S)
      <3>1. CASE m = 0
        BY <2>1, <3>1
      <3>2. CASE m # 0
        <4>1. g[m] \in Seq(S) /\ f[m + 1] \in Seq(S)
          BY <2>1, <3>2
        <4>2. QED
          BY <3>2, <4>1, ConcatProperties
      <3>3. QED
        BY <3>1, <3>2
    <2>4. h \in [1 .. m + 1 -> Seq(S)]
      BY <2>3
    <2>5. ASSUME NEW i \in 1 .. m + 1
          PROVE  h[i] = IF i = 1 THEN f[i] ELSE h[i - 1] \o f[i]
      <3>1. CASE i = m + 1
        BY <3>1
      <3>2. CASE i # m + 1
        <4>1. i \in 1 .. m /\ (i # 1 => i - 1 \in 1 .. m)
          BY <3>2
        <4> HIDE DEF last
        <4>2. g[i] = IF i = 1 THEN f[i] ELSE g[i - 1] \o f[i]
          BY <2>2, <4>1 DEF Joined
        <4>3. \A k \in 1 .. m : h[k] = g[k]
          OBVIOUS
        <4> HIDE DEF h
        <4>4. h[i] = g[i] /\ (i # 1 => h[i - 1] = g[i - 1])
          BY <4>1, <4>3
        <4>5. QED
          BY <4>2, <4>4
      <3>3. QED
        BY <3>1, <3>2
    <2>6. Joined(f, m + 1, h)
      BY <2>5 DEF Joined
    <2>7. QED
      BY <2>4, <2>6
  <1>3. T = Nat
    <2> HIDE DEF T
    <2>1. T \subseteq Nat
      BY DEF T
    <2>2. QED
      BY <1>1, <1>2, <2>1, SetInduction
  <1>4. QED
    BY <1>3

\* The concatenation of sequences is a sequence.
LEMMA FlattenIsSeq ==
  ASSUME NEW S, NEW n \in Nat, NEW f \in [1 .. n -> Seq(S)]
  PROVE  FlattenSeq(f) \in Seq(S)
  <1>1. Len(f) = n
    BY LenProperties
  <1>2. CASE n = 0
    BY <1>1, <1>2 DEF FlattenSeq
  <1>3. CASE n # 0
    <2> DEFINE G == CHOOSE g : Joined(f, n, g)
    <2>1. Joined(f, n, G)
      BY JoinedExists
    <2>2. G = [i \in 1 .. n |-> IF i = 1 THEN f[i] ELSE G[i - 1] \o f[i]]
      BY <2>1 DEF Joined
    <2>3. FlattenSeq(f) = G[n]
      BY <1>1, <1>3 DEF FlattenSeq, Joined
    <2> HIDE DEF G
    <2> DEFINE T == {m \in Nat : m \in 1 .. n => G[m] \in Seq(S)}
    <2>4. 0 \in T
      OBVIOUS
    <2>5. ASSUME NEW m \in T PROVE m + 1 \in T
      <3>1. SUFFICES ASSUME m + 1 \in 1 .. n PROVE G[m + 1] \in Seq(S)
        OBVIOUS
      <3>2. f[m + 1] \in Seq(S)
        BY <3>1
      <3>3. CASE m = 0
        BY <2>2, <3>1, <3>2, <3>3
      <3>4. CASE m # 0
        <4>1. m \in 1 .. n /\ m + 1 # 1 /\ (m + 1) - 1 = m
          BY <3>1, <3>4
        <4>2. G[m + 1] = G[m] \o f[m + 1]
          BY <2>2, <3>1, <4>1
        <4>3. QED
          BY <3>2, <4>1, <4>2, ConcatProperties
      <3>5. QED
        BY <3>3, <3>4
    <2>6. T = Nat
      <3> HIDE DEF T
      <3>1. T \subseteq Nat
        BY DEF T
      <3>2. QED
        BY <2>4, <2>5, <3>1, SetInduction
    <2>7. n \in T /\ n \in 1 .. n
      BY <1>3, <2>6
    <2>8. QED
      BY <2>3, <2>7
  <1>4. QED
    BY <1>2, <1>3

-----------------------------------------------------------------------------
(* The legs. *)

LEMMA LegIsLeg ==
  ASSUME NEW kind \in {"end", "travel", "decide", "approach", "learn"},
         NEW action \in Actions \cup {"none"}, NEW target \in 0 .. Full, NEW number \in Nat
  PROVE  Leg(kind, action, target, number) \in Legs
  BY DEF Leg, Legs

LEMMA OneLeg ==
  ASSUME NEW S, NEW leg \in S
  PROVE  <<leg>> \in Seq(S) /\ Len(<<leg>>) = 1 /\ <<leg>>[1] = leg /\ <<leg>> # <<>>
  OBVIOUS

LEMMA ZeroIsTarget == 0 \in 0 .. Full /\ 0 \in Nat /\ Full \in Nat
  BY EstimatorAssumption

LEMMA ToEndLegs ==
  ASSUME NEW action \in Actions
  PROVE  ToEnd(action) \in Seq(Legs)
  <1>1. Leg("end", action, 0, 0) \in Legs
    BY LegIsLeg, ZeroIsTarget
  <1>2. QED
    BY <1>1, OneLeg DEF ToEnd

LEMMA ToClosedEnd == ToEnd("close") # <<>> /\ ClosedLast(ToEnd("close"))
  <1>1. Leg("end", "close", 0, 0) \in Legs
    BY LegIsLeg, ZeroIsTarget DEF Actions
  <1>2. Leg("end", "close", 0, 0) \in LastLegs
    BY <1>1 DEF LastLegs, Leg
  <1>3. QED
    BY <1>1, <1>2, OneLeg DEF ToEnd, ClosedLast

LEMMA DecideLegs ==
  ASSUME NEW number \in Nat
  PROVE  /\ <<Leg("decide", "none", 0, number)>> # <<>>
         /\ ClosedLast(<<Leg("decide", "none", 0, number)>>)
  <1>1. Leg("decide", "none", 0, number) \in Legs
    BY LegIsLeg, ZeroIsTarget
  <1>2. Leg("decide", "none", 0, number) \in LastLegs
    BY <1>1 DEF LastLegs, Leg
  <1>3. QED
    BY <1>1, <1>2, OneLeg DEF ClosedLast

\* What comes before the last legs does not matter.
LEMMA PrecededLegs ==
  ASSUME NEW s \in Seq(Legs), NEW t, t # <<>>, ClosedLast(t)
  PROVE  s \o t # <<>> /\ ClosedLast(s \o t)
  <1>1. t \in Seq(Legs) /\ t[Len(t)] \in LastLegs
    BY DEF ClosedLast
  <1>2. Len(t) \in Nat /\ Len(t) # 0 /\ Len(s) \in Nat
    BY <1>1, LenProperties, EmptySeq
  <1>3. /\ s \o t \in Seq(Legs) /\ Len(s \o t) = Len(s) + Len(t)
        /\ (s \o t)[Len(s) + Len(t)] = t[Len(t)]
    BY <1>1, <1>2, ConcatProperties
  <1>4. QED
    BY <1>1, <1>2, <1>3, EmptySeq DEF ClosedLast

LEMMA TravelLegsAreLegs ==
  ASSUME NEW number \in Nat
  PROVE  TravelLegs(number) \in Seq(Legs)
  <1>1. /\ Leg("travel", "open", 0, number) \in Legs
        /\ Leg("travel", "close", 0, number) \in Legs
    BY LegIsLeg, ZeroIsTarget DEF Actions
  <1>2. QED
    BY <1>1 DEF TravelLegs

LEMMA TargetLegsAreLegs ==
  ASSUME NEW action \in Actions, NEW target \in 0 .. Full
  PROVE  TargetLegs(action, target) \in Seq(Legs)
  <1>1. ToEnd(Opposite(action)) \in Seq(Legs)
    BY ToEndLegs DEF Opposite, Actions
  <1>2. ASSUME NEW number \in Nat
        PROVE  AttemptLegs(action, target, number) \in Seq(Legs)
    <2>1. <<Leg("approach", action, target, number)>> \in Seq(Legs)
      BY LegIsLeg, OneLeg
    <2>2. QED
      BY <1>1, <2>1, ConcatProperties DEF AttemptLegs
  <1> DEFINE f == [number \in 1 .. MaxAttempts |-> AttemptLegs(action, target, number)]
  <1>3. MaxAttempts \in Nat
    BY RoutineAssumption
  <1>4. f \in [1 .. MaxAttempts -> Seq(Legs)]
    BY <1>2, <1>3
  <1>5. FlattenSeq(f) \in Seq(Legs)
    BY <1>3, <1>4, FlattenIsSeq
  <1>6. <<Leg("learn", action, target, 0)>> \in Seq(Legs)
    BY LegIsLeg, OneLeg, ZeroIsTarget
  <1>7. QED
    BY <1>5, <1>6, ConcatProperties DEF TargetLegs

LEMMA MeasuredLegsClose == MeasuredLegs # <<>> /\ ClosedLast(MeasuredLegs)
  <1> DEFINE n == Len(Targets)
             f == [i \in DOMAIN Targets |-> TargetLegs("open", Targets[i])]
             g == [i \in DOMAIN Targets |-> TargetLegs("close", Reverse(Targets)[i])]
  <1>1. /\ n \in Nat /\ DOMAIN Targets = 1 .. n
        /\ \A i \in 1 .. n : Targets[i] \in 0 .. Full
    <2>1. Targets \in Seq(1 .. Full - 1)
      BY RoutineAssumption
    <2>2. \A i \in 1 .. Len(Targets) : Targets[i] \in 1 .. Full - 1
      BY <2>1, ElementOfSeq
    <2>3. QED
      BY <2>1, <2>2, ZeroIsTarget, LenProperties
  <1>2. \A i \in 1 .. n : Reverse(Targets)[i] \in 0 .. Full
    <2>1. ASSUME NEW i \in 1 .. n
          PROVE  /\ Reverse(Targets)[i] = Targets[(n - i) + 1]
                 /\ (n - i) + 1 \in 1 .. n
      BY <1>1 DEF Reverse
    <2>2. QED
      BY <1>1, <2>1
  <1>3. f \in [1 .. n -> Seq(Legs)] /\ g \in [1 .. n -> Seq(Legs)]
    BY <1>1, <1>2, TargetLegsAreLegs DEF Actions
  <1>4. FlattenSeq(f) \in Seq(Legs) /\ FlattenSeq(g) \in Seq(Legs)
    BY <1>1, <1>3, FlattenIsSeq
  <1>5. ToEnd("open") \in Seq(Legs)
    BY ToEndLegs DEF Actions
  <1>6. (FlattenSeq(f) \o ToEnd("open")) \o FlattenSeq(g) \in Seq(Legs)
    BY <1>4, <1>5, ConcatProperties
  <1>7. QED
    BY <1>6, ToClosedEnd, PrecededLegs DEF MeasuredLegs

LEMMA FirstLegsClose ==
  /\ EncoderLegs # <<>> /\ ClosedLast(EncoderLegs)
  /\ SourceLegs # <<>> /\ ClosedLast(SourceLegs)
  <1>1. ToEnd("close") \o TravelLegs(1) \in Seq(Legs)
    BY ToEndLegs, TravelLegsAreLegs, ConcatProperties DEF Actions
  <1>2. QED
    BY <1>1, MeasuredLegsClose, DecideLegs, PrecededLegs DEF EncoderLegs, SourceLegs

-----------------------------------------------------------------------------
(* The gate, and what a read says of it. *)

LEMMA MovedGate ==
  ASSUME NEW g, SoundGate(g)
  PROVE  /\ SoundGate(Moved(g))
         /\ g.motion = "idle" => Moved(g).motion = "idle" /\ Moved(g).pos = g.pos
         /\ Moved(g).motion # "idle" =>
               g.motion # "idle" /\ (g.runOn = Driven => Moved(g).runOn = Driven)
  <1>1. CASE g.motion = "idle"
    <2> DEFINE h == [g EXCEPT !.lag = Passed(g.lag)]
    <2>1. Moved(g) = h
      BY <1>1 DEF Moved
    <2>2. DOMAIN h = DOMAIN g /\ h.motion = "idle" /\ h.pos = g.pos
      BY <1>1 DEF SoundGate, GateFields
    <2> HIDE DEF h
    <2>3. SoundGate(h)
      BY <1>1, <2>2 DEF SoundGate
    <2>4. QED
      BY <1>1, <2>1, <2>2, <2>3
  <1>2. CASE g.motion # "idle"
    <2> DEFINE pos == IF g.motion = "opening" THEN g.pos + 1 ELSE g.pos - 1
               left == IF g.runOn = Driven THEN Driven ELSE g.runOn - 1
               ends == pos \in {0, Full}
               motion == IF ends \/ left = 0 THEN "idle" ELSE g.motion
               runOn == IF ends \/ left = 0 THEN Driven ELSE left
               lag == IF ends THEN habits.lag ELSE 0
               h == [pos |-> pos, motion |-> motion, runOn |-> runOn, lag |-> lag]
    <2>1. Moved(g) = h
      BY <1>2 DEF Moved
    <2>2. pos \in 0 .. Full
      BY <1>2, ZeroIsTarget DEF SoundGate
    <2>3. /\ motion \in {"idle", "opening", "closing"}
          /\ motion # "idle" => pos \notin {0, Full}
          /\ (motion # "idle" /\ g.runOn = Driven) => runOn = Driven
      BY <1>2 DEF SoundGate
    <2>4. h.pos = pos /\ h.motion = motion /\ h.runOn = runOn /\ GateFields \subseteq DOMAIN h
      BY DEF GateFields
    <2> HIDE DEF h, pos, motion, runOn
    <2>5. SoundGate(h)
      BY <2>2, <2>3, <2>4 DEF SoundGate
    <2>6. QED
      BY <1>2, <2>1, <2>3, <2>4, <2>5
  <1>3. QED
    BY <1>1, <1>2

LEMMA DrivingGate ==
  ASSUME NEW g, SoundGate(g), NEW action
  PROVE  SoundGate(Driving(g, action)) /\ Driving(g, action).runOn = Driven
  <1>1. CASE g.pos = EndOf(action)
    <2> DEFINE h == [g EXCEPT !.motion = "idle", !.runOn = Driven]
    <2>1. /\ Driving(g, action) = h /\ DOMAIN h = DOMAIN g
          /\ h.motion = "idle" /\ h.runOn = Driven /\ h.pos = g.pos
      BY <1>1 DEF Driving, SoundGate, GateFields
    <2> HIDE DEF h
    <2>2. QED
      BY <2>1 DEF SoundGate
  <1>2. CASE g.pos # EndOf(action)
    <2> DEFINE h == [g EXCEPT !.motion = MovingState(action), !.runOn = Driven, !.lag = 0]
    <2>1. /\ Driving(g, action) = h /\ DOMAIN h = DOMAIN g
          /\ h.motion = MovingState(action) /\ h.runOn = Driven /\ h.pos = g.pos
      BY <1>2 DEF Driving, SoundGate, GateFields
    <2> HIDE DEF h
    <2>2. SoundGate(h)
      BY <1>2, <2>1 DEF SoundGate, MovingState, EndOf
    <2>3. QED
      BY <2>1, <2>2
  <1>3. QED
    BY <1>1, <1>2

LEMMA HaltedGate ==
  ASSUME NEW g, SoundGate(g), NEW h, h = [g EXCEPT !.motion = "idle", !.runOn = Driven]
  PROVE  SoundGate(h) /\ h.motion = "idle" /\ h.pos = g.pos
  <1>1. DOMAIN h = DOMAIN g /\ h.motion = "idle" /\ h.pos = g.pos
    BY DEF SoundGate, GateFields
  <1>2. QED
    BY <1>1 DEF SoundGate

LEMMA StoppingGate ==
  ASSUME NEW g, SoundGate(g), NEW n
  PROVE  /\ SoundGate(Stopping(g, n))
         /\ Stopping(g, n).motion # "idle" =>
               g.motion # "idle" /\ Stopping(g, n).runOn = n
         /\ g.motion # "idle" =>
               Stopping(g, n).motion = "idle" \/ Stopping(g, n).runOn = n
  <1>1. CASE g.motion = "idle"
    BY <1>1 DEF Stopping
  <1>2. CASE g.motion # "idle" /\ n = 0
    BY <1>2, HaltedGate DEF Stopping
  <1>3. CASE g.motion # "idle" /\ n # 0
    <2> DEFINE h == [g EXCEPT !.runOn = n]
    <2>1. /\ Stopping(g, n) = h /\ DOMAIN h = DOMAIN g
          /\ h.motion = g.motion /\ h.runOn = n /\ h.pos = g.pos
      BY <1>3 DEF Stopping, SoundGate, GateFields
    <2> HIDE DEF h
    <2>2. SoundGate(h)
      BY <2>1 DEF SoundGate
    <2>3. QED
      BY <1>3, <2>1, <2>2
  <1>4. QED
    BY <1>1, <1>2, <1>3

\* A state that moves is of a gate that moves, whatever the mask; without a mask
\* a gate that moves is seen to.
LEMMA MovementSeen ==
  ASSUME NEW g, SoundGate(g), NEW complete, NEW masked \in BOOLEAN,
         NEW s, s = Status(g, complete, masked)
  PROVE  /\ IsMoving(s.state) => g.motion # "idle" /\ ~masked
         /\ ~masked /\ g.motion # "idle" => IsMoving(s.state)
         /\ ~masked /\ g.motion # "idle" => s.state \notin {"open", "closed", "stopped"}
  <1>1. s.state = IF masked /\ GateState(g) \in {"open", "closed", "opening", "closing"}
                  THEN "stopped" ELSE GateState(g)
    BY DEF Status
  <1>2. GateState(g) = g.motion \/ GateState(g) \in {"open", "closed", "stopped"}
    BY DEF GateState
  <1>3. /\ g.motion # "idle" => GateState(g) \in {"opening", "closing"}
        /\ g.motion = "idle" => GateState(g) \in {"open", "closed", "stopped"}
    BY DEF GateState, SoundGate
  <1>4. QED
    BY <1>1, <1>3 DEF IsMoving

\* A gate that is said to be at its closed end stands there.
LEMMA ClosedSeen ==
  ASSUME NEW g, SoundGate(g), NEW complete, NEW masked \in BOOLEAN,
         NEW s, s = Status(g, complete, masked), AtEnd(s, "close")
  PROVE  Closed(g)
  <1> DEFINE hidden == masked /\ GateState(g) \in {"open", "closed", "opening", "closing"}
  <1>1. /\ s.state = IF hidden THEN "stopped" ELSE GateState(g)
        /\ s.position = IF hidden \/ ~complete THEN Missing ELSE PositionOf(g)
    BY DEF Status
  <1>2. /\ g.motion # "idle" => GateState(g) \in {"opening", "closing"}
        /\ GateState(g) = "closed" => g.pos = 0
    BY DEF GateState, SoundGate
  <1>3. EndTolerance \in Nat /\ EndTolerance < Full \div 2
    BY RoutineAssumption, WaitsAssumption
  <1>4. CASE s.state = "closed"
    BY <1>1, <1>2, <1>3, <1>4 DEF Closed
  <1>5. CASE /\ ~IsMoving(s.state) /\ s.position # Missing
             /\ Distance(0 - s.position) <= EndTolerance
    <2>1. ~hidden /\ s.state = GateState(g) /\ s.position = PositionOf(g)
      BY <1>1, <1>5
    <2>2. g.motion = "idle"
      BY <1>2, <1>5, <2>1 DEF IsMoving
    <2>3. PositionOf(g) = g.pos \/ PositionOf(g) = Full \div 2 \/ PositionOf(g) = Missing
      BY DEF PositionOf
    <2>4. g.pos \in Nat /\ Full \div 2 \in Nat
      BY ZeroIsTarget DEF SoundGate
    <2>5. ASSUME NEW p \in Nat, Distance(0 - p) <= EndTolerance PROVE p <= EndTolerance
      BY <1>3, <2>5 DEF Distance
    <2>6. g.pos <= EndTolerance
      BY <1>3, <1>5, <2>1, <2>3, <2>4, <2>5
    <2>7. QED
      BY <2>2, <2>6 DEF Closed
  <1>6. QED
    BY <1>4, <1>5 DEF AtEnd, EndState, EndOf

-----------------------------------------------------------------------------
(* What a step may do to the run. *)

\* The run fails: nothing is asked of it any more.
LEMMA RunFails ==
  ASSUME RoutineInv, Fails, builder' = builder
  PROVE  RoutineInv'
  <1>1. result' = "failed" /\ gate' = gate /\ todo' = todo /\ phase' = phase
    BY DEF Fails
  <1>2. RunInv'
    BY <1>1 DEF RoutineInv, RunInv
  <1>3. SoundGate(gate')
    BY <1>1 DEF RoutineInv
  <1>4. QED
    BY <1>1, <1>2, <1>3 DEF RoutineInv

\* A leg goes on.
LEMMA LegGoesOn ==
  ASSUME RoutineInv, result = "running", todo # <<>>, todo' = todo,
         UNCHANGED <<builder, result>>, SoundGate(gate'), MaskInv'
  PROVE  RoutineInv'
  <1>1. RunInv'
    BY DEF RoutineInv, RunInv
  <1>2. QED
    BY <1>1 DEF RoutineInv

\* A leg ends: the last one at the closed end.
LEMMA LegEnds ==
  ASSUME RoutineInv, result = "running", todo # <<>>, NextLeg,
         UNCHANGED <<builder, result>>, SoundGate(gate'), hint' \in Nat,
         "late" \in DOMAIN learning', ~learning'.late,
         Current \in LastLegs => Closed(gate')
  PROVE  RoutineInv'
  <1>1. todo' = Tail(todo) /\ phase' = "begin"
    BY DEF NextLeg
  <1>2. todo \in Seq(Legs) /\ todo[Len(todo)] \in LastLegs
    BY DEF RoutineInv, RunInv, ClosedLast
  <1>3. Len(todo) \in Nat /\ Len(todo) # 0
    BY <1>2, LenProperties, EmptySeq
  <1> DEFINE rest == Tail(todo)
  <1>4. /\ rest \in Seq(Legs) /\ Len(rest) = Len(todo) - 1
        /\ \A i \in 1 .. Len(todo) - 1 : rest[i] = todo[i + 1]
        /\ Head(todo) = todo[1] /\ todo' = rest
    BY <1>1, <1>2, HeadTailProperties
  <1> HIDE DEF rest
  <1>5. rest = <<>> <=> Len(rest) = 0
    BY <1>4, EmptySeq
  <1>6. CASE Len(todo) = 1
    <2>1. Current = todo[Len(todo)]
      BY <1>4, <1>6 DEF Current
    <2>2. Closed(gate')
      BY <1>2, <2>1
    <2>3. rest = <<>>
      BY <1>4, <1>5, <1>6
    <2>4. RunInv'
      BY <1>4, <2>2, <2>3 DEF RoutineInv, RunInv, ClosedLast, Closed
    <2>5. QED
      BY <1>1, <2>4 DEF RoutineInv, MaskInv
  <1>7. CASE Len(todo) # 1
    <2>1. Len(todo) - 1 \in 1 .. Len(todo) - 1 /\ (Len(todo) - 1) + 1 = Len(todo)
      <3>1. \A n \in Nat \ {0, 1} : n - 1 \in 1 .. n - 1 /\ (n - 1) + 1 = n
        OBVIOUS
      <3>2. QED
        BY <1>3, <1>7, <3>1
    <2>2. rest[Len(rest)] \in LastLegs /\ rest # <<>>
      BY <1>2, <1>4, <1>5, <2>1
    <2>3. ClosedLast(todo') /\ todo' # <<>>
      BY <1>4, <2>2 DEF ClosedLast
    <2>4. RunInv'
      BY <2>3 DEF RoutineInv, RunInv
    <2>5. QED
      BY <1>1, <2>4 DEF RoutineInv, MaskInv
  <1>8. QED
    BY <1>6, <1>7

LEMMA PassedIsNat ==
  ASSUME NEW polls \in Nat
  PROVE  /\ Passed(polls) \in Nat /\ Passed(polls) <= polls /\ polls <= Passed(polls) + 1
         /\ polls = 0 => Passed(polls) = 0
  BY DEF Passed

\* A command is sent.
LEMMA CommandSent ==
  ASSUME RoutineInv, result = "running", todo # <<>>, NEW started, Sent(started),
         builder' = builder, "late" \in DOMAIN learning', ~learning'.late
  PROVE  RoutineInv'
  <1>1. /\ gate' = Driving(gate, Current.action) /\ hint' = 0 /\ phase' = "moving"
        /\ todo' = todo /\ result' = result
    BY DEF Sent, GoesOn
  <1>2. SoundGate(gate') /\ gate'.runOn = Driven
    BY <1>1, DrivingGate DEF RoutineInv
  <1>3. MaskInv'
    BY <1>1, <1>2 DEF MaskInv, Free
  <1>4. QED
    BY <1>1, <1>2, <1>3, LegGoesOn

\* A poll of a movement that goes on, or waits for the end to be confirmed.
LEMMA MovementPolled ==
  ASSUME RoutineInv, result = "running", todo # <<>>, phase \in {"moving", "confirming"},
         NEW place, place \in {"moving", "confirming"}, GoesOn(place), PollPasses,
         place = "moving" => phase = "moving", learning' = learning,
         UNCHANGED <<builder, result>>
  PROVE  RoutineInv'
  <1>1. todo' = todo /\ phase' = place /\ gate' = Moved(gate) /\ hint' = Passed(hint)
    BY DEF GoesOn, PollPasses
  <1>2. SoundGate(gate')
    BY <1>1, MovedGate DEF RoutineInv
  <1>3. MaskInv
    BY DEF RoutineInv
  <1>4. place = "moving" => Free'
    BY <1>1, <1>3, MovedGate, PassedIsNat DEF RoutineInv, MaskInv, Free
  <1>5. MaskInv'
    BY <1>1, <1>3, <1>4, PassedIsNat DEF MaskInv
  <1>6. QED
    BY <1>1, <1>2, <1>5, LegGoesOn

\* A leg ends with a read after a poll, and the pause before the next command.
LEMMA LegPolled ==
  ASSUME RoutineInv, result = "running", todo # <<>>, NextLeg, PollAndPausePass,
         UNCHANGED <<builder, result>>,
         "late" \in DOMAIN learning', ~learning'.late,
         Current \in LastLegs => Closed(Moved(gate))
  PROVE  RoutineInv'
  <1>1. gate' = Moved(Moved(gate)) /\ hint' = Passed(Passed(hint))
    BY DEF PollAndPausePass
  <1>2. SoundGate(Moved(gate))
    BY MovedGate DEF RoutineInv
  <1>3. SoundGate(gate') /\ (Closed(Moved(gate)) => Closed(gate'))
    BY <1>1, <1>2, MovedGate DEF Closed
  <1>4. hint \in Nat
    BY DEF RoutineInv, MaskInv
  <1>5. hint' \in Nat
    BY <1>1, <1>4, PassedIsNat
  <1>6. QED
    BY <1>3, <1>5, LegEnds

LEMMA ReadNow ==
  ASSUME NEW s \in StatusNow
  PROVE  \E complete, masked \in BOOLEAN :
           s = Status(gate, complete, masked) /\ (masked <=> hint > 0)
  <1>1. PICK c \in Readings : s = Status(gate, c, hint > 0)
    BY DEF StatusNow
  <1>2. c \in BOOLEAN
    BY DEF Readings
  <1>3. CASE hint > 0
    <2>1. (hint > 0) = TRUE
      BY <1>3
    <2>2. s = Status(gate, c, TRUE)
      BY <1>1, <2>1
    <2>3. QED
      BY <1>2, <1>3, <2>2
  <1>4. CASE ~(hint > 0)
    <2>1. (hint > 0) = FALSE
      BY <1>4
    <2>2. s = Status(gate, c, FALSE)
      BY <1>1, <2>1
    <2>3. QED
      BY <1>2, <1>4, <2>2
  <1>5. QED
    BY <1>3, <1>4

LEMMA ReadNext ==
  ASSUME NEW s \in StatusNext
  PROVE  \E complete, masked \in BOOLEAN :
           s = Status(Moved(gate), complete, masked) /\ (masked <=> hint > 1)
  <1>1. PICK c \in Readings : s = Status(Moved(gate), c, hint > 1)
    BY DEF StatusNext
  <1>2. c \in BOOLEAN
    BY DEF Readings
  <1>3. CASE hint > 1
    <2>1. (hint > 1) = TRUE
      BY <1>3
    <2>2. s = Status(Moved(gate), c, TRUE)
      BY <1>1, <2>1
    <2>3. QED
      BY <1>2, <1>3, <2>2
  <1>4. CASE ~(hint > 1)
    <2>1. (hint > 1) = FALSE
      BY <1>4
    <2>2. s = Status(Moved(gate), c, FALSE)
      BY <1>1, <2>1
    <2>3. QED
      BY <1>2, <1>4, <2>2
  <1>5. QED
    BY <1>3, <1>4

\* What a read that finds the gate at its end says of a last leg.
LEMMA LastIsClosed ==
  ASSUME RoutineInv, Current \in LastLegs, Current.kind # "decide", NEW s
  PROVE  /\ (s \in StatusNow /\ AtEnd(s, Current.action)) => Closed(gate)
         /\ (s \in StatusNext /\ AtEnd(s, Current.action)) => Closed(Moved(gate))
  <1>1. Current.action = "close"
    BY DEF LastLegs
  <1>2. SoundGate(gate) /\ SoundGate(Moved(gate))
    BY MovedGate DEF RoutineInv
  <1>3. ASSUME s \in StatusNow, AtEnd(s, "close") PROVE Closed(gate)
    BY <1>2, <1>3, ReadNow, ClosedSeen
  <1>4. ASSUME s \in StatusNext, AtEnd(s, "close") PROVE Closed(Moved(gate))
    BY <1>2, <1>4, ReadNext, ClosedSeen
  <1>5. QED
    BY <1>1, <1>3, <1>4

-----------------------------------------------------------------------------
(* The steps. *)

LEMMA Late == RoutineInv /\ result = "running" => "late" \in DOMAIN learning /\ ~learning.late
  BY DEF RoutineInv, MaskInv

LEMMA StartStep ==
  ASSUME RoutineInv, Start
  PROVE  RoutineInv'
  <1>1. /\ result = "running" /\ builder' \in {"encoder", "source"}
        /\ todo' \in {EncoderLegs, SourceLegs}
        /\ UNCHANGED <<gate, hint, phase, learning, result>>
    BY DEF Start
  <1>2. ClosedLast(todo') /\ todo' # <<>>
    BY <1>1, FirstLegsClose
  <1>3. phase = "begin"
    BY DEF Start, RoutineInv, RunInv
  <1>4. QED
    BY <1>1, <1>2, <1>3 DEF RoutineInv, RunInv, MaskInv

LEMMA FinishStep ==
  ASSUME RoutineInv, Finish
  PROVE  RoutineInv'
  <1>1. /\ builder # "none" /\ todo = <<>> /\ result' = "finished"
        /\ UNCHANGED <<gate, builder, todo, phase>>
    BY DEF Finish
  <1>2. QED
    BY <1>1 DEF RoutineInv, RunInv

\* BeginEnd and its twin: at the end, or on the way to it.
LEMMA BeginEndStep ==
  ASSUME RoutineInv, BeginEnd \/ BeginEndWithSource
  PROVE  RoutineInv'
  <1>1. /\ result = "running" /\ todo # <<>> /\ Current.kind = "end"
        /\ builder' = builder /\ learning' = learning
    BY DEF BeginEnd, BeginEndWithSource, At, Noted
  <1>2. PICK s \in StatusNow :
          \/ Fails
          \/ AtEnd(s, Current.action) /\ NextLeg /\ UNCHANGED <<gate, hint, result>>
          \/ Sent(Still)
    BY DEF BeginEnd, BeginEndWithSource
  <1>3. CASE Fails
    BY <1>1, <1>3, RunFails
  <1>4. CASE AtEnd(s, Current.action) /\ NextLeg /\ UNCHANGED <<gate, hint, result>>
    <2>1. Current \in LastLegs => Closed(gate')
      BY <1>1, <1>4, LastIsClosed
    <2>2. SoundGate(gate') /\ hint' \in Nat
      BY <1>1, <1>4 DEF RoutineInv, MaskInv
    <2>3. QED
      BY <1>1, <1>4, <2>1, <2>2, Late, LegEnds
  <1>5. CASE Sent(Still)
    BY <1>1, <1>5, Late, CommandSent
  <1>6. QED
    BY <1>2, <1>3, <1>4, <1>5

LEMMA PollEndStep ==
  ASSUME RoutineInv, PollEnd \/ PollEndWithSource
  PROVE  RoutineInv'
  <1>1. /\ result = "running" /\ todo # <<>> /\ Current.kind = "end" /\ phase = "moving"
        /\ UNCHANGED <<builder, result, learning>>
    BY DEF PollEnd, PollEndWithSource, At, Noted
  <1>2. PICK s \in StatusNext : EndPolled(s)
    BY DEF PollEnd, PollEndWithSource
  <1>3. CASE AtEnd(s, Current.action) /\ NextLeg /\ PollAndPausePass
    <2>1. Current \in LastLegs => Closed(Moved(gate))
      BY <1>1, <1>3, LastIsClosed
    <2>2. QED
      BY <1>1, <1>3, <2>1, Late, LegPolled
  <1>4. CASE /\ PollPasses
             /\ GoesOn(IF Halted(s, {"stopped"}) THEN "confirming" ELSE "moving")
    BY <1>1, <1>4, MovementPolled
  <1>5. QED
    BY <1>2, <1>3, <1>4 DEF EndPolled

LEMMA ConfirmEndStep ==
  ASSUME RoutineInv, ConfirmEnd
  PROVE  RoutineInv'
  <1>1. /\ result = "running" /\ todo # <<>> /\ Current.kind = "end"
        /\ phase = "confirming" /\ UNCHANGED <<builder, learning>>
    BY DEF ConfirmEnd, At, Noted
  <1>2. PICK s \in StatusNext :
          \/ Awaited(s) = "confirmed" /\ NextLeg /\ PollAndPausePass /\ UNCHANGED result
          \/ KeepsWaiting
          \/ Fails
    BY DEF ConfirmEnd
  <1>3. CASE Awaited(s) = "confirmed" /\ NextLeg /\ PollAndPausePass /\ UNCHANGED result
    <2>1. AtEnd(s, Current.action)
      BY <1>3 DEF Awaited
    <2>2. Current \in LastLegs => Closed(Moved(gate))
      BY <1>1, <2>1, LastIsClosed
    <2>3. QED
      BY <1>1, <1>3, <2>2, Late, LegPolled
  <1>4. CASE KeepsWaiting
    BY <1>1, <1>4, MovementPolled DEF KeepsWaiting
  <1>5. CASE Fails
    BY <1>1, <1>5, RunFails
  <1>6. QED
    BY <1>2, <1>3, <1>4, <1>5

\* A travel is never the last leg.
LEMMA NotLast ==
  ASSUME Current.kind \in {"travel", "approach", "learn"}
  PROVE  Current \notin LastLegs
  BY DEF LastLegs

LEMMA BeginTravelStep ==
  ASSUME RoutineInv, BeginTravel \/ BeginTravelWithSource
  PROVE  RoutineInv'
  <1>1. /\ result = "running" /\ todo # <<>> /\ UNCHANGED <<builder, learning>>
    BY DEF BeginTravel, BeginTravelWithSource, At, Noted
  <1>2. Fails \/ \E started : Sent(started)
    BY DEF BeginTravel, BeginTravelWithSource
  <1>3. QED
    BY <1>1, <1>2, RunFails, Late, CommandSent

LEMMA PollTravelStep ==
  ASSUME RoutineInv, PollTravel \/ PollTravelWithSource
  PROVE  RoutineInv'
  <1>1. /\ result = "running" /\ todo # <<>> /\ Current.kind = "travel" /\ phase = "moving"
        /\ UNCHANGED <<builder, learning>>
    BY DEF PollTravel, PollTravelWithSource, At, Noted
  <1>2. \/ NextLeg /\ PollAndPausePass /\ UNCHANGED result
        \/ Fails
        \/ \E place \in {"moving", "confirming"} :
              GoesOn(place) /\ PollPasses /\ UNCHANGED result
    BY DEF PollTravel, PollTravelWithSource, TravelMeasured
  <1>3. CASE NextLeg /\ PollAndPausePass /\ UNCHANGED result
    BY <1>1, <1>3, NotLast, Late, LegPolled
  <1>4. CASE Fails
    BY <1>1, <1>4, RunFails
  <1>5. CASE \E place \in {"moving", "confirming"} :
               GoesOn(place) /\ PollPasses /\ UNCHANGED result
    BY <1>1, <1>5, MovementPolled
  <1>6. QED
    BY <1>2, <1>3, <1>4, <1>5

LEMMA ConfirmTravelStep ==
  ASSUME RoutineInv, ConfirmTravel
  PROVE  RoutineInv'
  <1>1. /\ result = "running" /\ todo # <<>> /\ Current.kind = "travel"
        /\ phase = "confirming" /\ UNCHANGED <<builder, learning>>
    BY DEF ConfirmTravel, At, Noted
  <1>2. \/ NextLeg /\ PollAndPausePass /\ UNCHANGED result
        \/ KeepsWaiting
        \/ Fails
    BY DEF ConfirmTravel, TravelMeasured
  <1>3. CASE NextLeg /\ PollAndPausePass /\ UNCHANGED result
    BY <1>1, <1>3, NotLast, Late, LegPolled
  <1>4. CASE KeepsWaiting
    BY <1>1, <1>4, MovementPolled DEF KeepsWaiting
  <1>5. CASE Fails
    BY <1>1, <1>5, RunFails
  <1>6. QED
    BY <1>2, <1>3, <1>4, <1>5

LEMMA DecideStep ==
  ASSUME RoutineInv, Decide
  PROVE  RoutineInv'
  <1>1. /\ result = "running" /\ phase = "begin" /\ todo # <<>>
        /\ UNCHANGED <<gate, hint, builder, phase, watch, learning, moving, result>>
    BY DEF Decide, At
  <1>2. \/ todo' = MeasuredLegs
        \/ todo' = ToEnd("close")
        \/ todo' = TravelLegs(Current.number + 1)
                      \o <<Leg("decide", "none", 0, Current.number + 1)>>
    BY DEF Decide
  <1>3. Current.number + 1 \in Nat
    <2>1. todo \in Seq(Legs)
      BY DEF RoutineInv, RunInv, ClosedLast
    <2>2. Current \in Legs
      BY <1>1, <2>1, HeadTailProperties DEF Current
    <2>3. QED
      BY <2>2 DEF Legs
  <1>4. ClosedLast(todo') /\ todo' # <<>>
    <2>1. ASSUME NEW n \in Nat
          PROVE  /\ ClosedLast(TravelLegs(n) \o <<Leg("decide", "none", 0, n)>>)
                 /\ TravelLegs(n) \o <<Leg("decide", "none", 0, n)>> # <<>>
      BY TravelLegsAreLegs, DecideLegs, PrecededLegs
    <2>2. QED
      BY <1>2, <1>3, <2>1, MeasuredLegsClose, ToClosedEnd
  <1>5. RunInv'
    BY <1>1, <1>4 DEF RoutineInv, RunInv
  <1>6. QED
    BY <1>1, <1>5 DEF RoutineInv, MaskInv

\* No attempt is marked late, and a change of the rest of what is learned keeps it so.
LEMMA AttemptingIsInTime ==
  ASSUME RoutineInv, result = "running"
  PROVE  "late" \in DOMAIN Attempting /\ ~Attempting.late
  <1>1. "late" \in DOMAIN Unlearned /\ ~Unlearned.late
    BY DEF Unlearned
  <1> DEFINE first == [Unlearned EXCEPT !.threshold = Current.target]
  <1>2. "late" \in DOMAIN first /\ ~first.late
    BY <1>1
  <1>3. QED
    BY <1>2, Late DEF Attempting

LEMMA BeginApproachStep ==
  ASSUME RoutineInv, BeginApproach \/ BeginApproachWithSource
  PROVE  RoutineInv'
  <1>1. result = "running" /\ todo # <<>> /\ builder' = builder
    BY DEF BeginApproach, BeginApproachWithSource, At, Noted
  <1>2. Fails \/ (Sent(Still) /\ learning' = Attempting)
    BY DEF BeginApproach, BeginApproachWithSource
  <1>3. CASE Fails
    BY <1>1, <1>3, RunFails
  <1>4. CASE Sent(Still) /\ learning' = Attempting
    BY <1>1, <1>4, AttemptingIsInTime, CommandSent
  <1>5. QED
    BY <1>2, <1>3, <1>4

\* An approach that goes on, or comes to its stop: the gate is then known to move.
LEMMA PollApproachStep ==
  ASSUME RoutineInv, PollApproach \/ PollApproachWithSource
  PROVE  RoutineInv'
  <1>1. /\ result = "running" /\ todo # <<>> /\ phase = "moving" /\ builder' = builder
    BY DEF PollApproach, PollApproachWithSource, At, Noted
  <1>2. PICK s \in StatusNext : moving' = IsMoving(s.state) /\ \E value : Approached(s, value)
    BY DEF PollApproach, PollApproachWithSource, Noted
  <1>3. PICK value : Approached(s, value)
    BY <1>2
  <1>4. \/ /\ learning' = [learning EXCEPT !.stopAt = value]
           /\ GoesOn("stopping") /\ PollPasses /\ UNCHANGED result
        \/ Fails
        \/ GoesOn("moving") /\ PollPasses /\ UNCHANGED <<learning, result>>
    BY <1>3 DEF Approached
  <1>5. CASE /\ learning' = [learning EXCEPT !.stopAt = value]
             /\ GoesOn("stopping") /\ PollPasses /\ UNCHANGED result
    <2>1. /\ todo' = todo /\ phase' = "stopping" /\ gate' = Moved(gate) /\ hint' = Passed(hint)
      BY <1>5 DEF GoesOn, PollPasses
    <2>2. "late" \in DOMAIN learning' /\ ~learning'.late
      BY <1>1, <1>5, Late
    <2>3. hint = 0 /\ (gate.motion # "idle" => gate.runOn = Driven)
      BY <1>1 DEF RoutineInv, MaskInv, Free
    <2>4. hint' = 0
      BY <2>1, <2>3 DEF Passed
    <2>5. SoundGate(gate') /\ (gate'.motion # "idle" => gate'.runOn = Driven)
      BY <2>1, <2>3, MovedGate DEF RoutineInv
    <2>6. gate'.motion # "idle" => IsMoving(s.state)
      <3>1. PICK c, m \in BOOLEAN : s = Status(Moved(gate), c, m) /\ (m <=> hint > 1)
        BY ReadNext
      <3>2. ~m
        BY <2>3, <3>1
      <3>3. QED
        BY <2>1, <2>5, <3>1, <3>2, MovementSeen
    <2>7. gate'.motion # "idle" => moving'
      BY <1>2, <2>6
    <2>8. MaskInv'
      BY <2>1, <2>2, <2>4, <2>5, <2>7 DEF MaskInv, Free
    <2>9. QED
      BY <1>1, <1>5, <2>1, <2>5, <2>8, LegGoesOn
  <1>6. CASE Fails
    BY <1>1, <1>6, RunFails
  <1>7. CASE GoesOn("moving") /\ PollPasses /\ UNCHANGED <<learning, result>>
    BY <1>1, <1>7, MovementPolled
  <1>8. QED
    BY <1>4, <1>5, <1>6, <1>7

\* A stop that is accepted masks what a moving gate reports for longer than the
\* run waits for it; one that stops short of a change was none to begin with.
LEMMA StopAcceptedStep ==
  ASSUME RoutineInv, StopAccepted
  PROVE  RoutineInv' /\ (gate' = gate => gate.motion = "idle")
  <1>1. /\ result = "running" /\ todo # <<>> /\ phase = "stopping"
        /\ hint' = (IF moving THEN HintPolls ELSE 0) /\ GoesOn("settling")
        /\ watch' = Still /\ UNCHANGED <<builder, result>>
    BY DEF StopAccepted, At
  <1>2. PICK n \in RunOns : /\ gate' = Stopping(gate, n)
                             /\ learning' = [learning EXCEPT !.ranOn = learning.ranOn \cup {n}]
    BY DEF StopAccepted
  <1>3. "late" \in DOMAIN learning' /\ ~learning'.late
    BY <1>1, <1>2, Late
  <1>4. gate.motion # "idle" => gate.runOn = Driven /\ moving
    BY <1>1 DEF RoutineInv, MaskInv, Free
  <1>5. /\ SoundGate(gate') /\ (gate'.motion # "idle" => gate.motion # "idle")
        /\ gate.motion # "idle" => gate'.motion = "idle" \/ gate'.runOn = n
    BY <1>2, StoppingGate DEF RoutineInv
  <1>6. HintPolls \in Nat /\ 0 < SettleDelay + SettleTimeout
    BY RoutineAssumption, WaitsAssumption
  <1>7. /\ "since" \in DOMAIN watch' /\ watch'.since = 0
        /\ phase' = "settling" /\ todo' = todo
    BY <1>1 DEF Still, GoesOn
  <1>8. hint' \in Nat /\ (gate'.motion # "idle" => hint' = HintPolls)
    BY <1>1, <1>4, <1>5, <1>6
  <1>9. MaskInv'
    <2>1. gate'.motion # "idle" => hint' + watch'.since >= HintPolls
      <3>1. HintPolls + 0 >= HintPolls
        BY <1>6
      <3>2. QED
        BY <1>7, <1>8, <3>1
    <2>2. watch'.since \in Nat /\ watch'.since < SettleDelay + SettleTimeout
      BY <1>6, <1>7
    <2>3. QED
      BY <1>3, <1>7, <1>8, <2>1, <2>2 DEF MaskInv
  <1>10. RoutineInv'
    BY <1>1, <1>5, <1>7, <1>9, LegGoesOn
  <1>11. ASSUME gate' = gate PROVE gate.motion = "idle"
    <2>1. n \in Nat
      BY RoutineAssumption
    <2>2. n # Driven
      BY <2>1 DEF Driven
    <2>3. QED
      BY <1>4, <1>5, <1>11, <2>2
  <1>12. QED
    BY <1>10, <1>11

\* A stop that is refused is judged by a status without a mask.
LEMMA StopRejectedStep ==
  ASSUME RoutineInv, StopRejected
  PROVE  RoutineInv' /\ (phase' = "settling" => gate.motion = "idle")
  <1> DEFINE s == Status(gate, TRUE, hint > 0)
             place == Rejection(s.state, watch.tries)
  <1>1. /\ result = "running" /\ todo # <<>> /\ phase = "stopping" /\ builder' = builder
        /\ moving' = IsMoving(s.state)
    BY DEF StopRejected, At
  <1>2. \/ Fails
        \/ GoesOn(place) /\ place # "failed" /\ UNCHANGED <<gate, hint, learning, result>>
           /\ watch' = IF place = "stopping" THEN [watch EXCEPT !.tries = 2] ELSE Still
    BY DEF StopRejected
  <1>3. /\ MaskInv /\ SoundGate(gate) /\ hint = 0
        /\ gate.motion # "idle" => gate.runOn = Driven
    BY <1>1 DEF RoutineInv, MaskInv, Free
  <1>4. s = Status(gate, TRUE, FALSE)
    <2>1. (hint > 0) = FALSE
      BY <1>3
    <2>2. QED
      BY <2>1
  <1> HIDE DEF s
  <1>5. /\ gate.motion # "idle" => IsMoving(s.state)
        /\ s.state \in {"open", "closed", "stopped"} => gate.motion = "idle"
    BY <1>3, <1>4, MovementSeen
  <1>6. /\ place \in {"settling", "stopping", "failed"}
        /\ place = "settling" => gate.motion = "idle"
    BY <1>5 DEF Rejection
  <1> HIDE DEF place
  <1>7. CASE Fails
    <2>1. phase' = phase
      BY <1>7 DEF Fails
    <2>2. QED
      BY <1>1, <1>7, <2>1, RunFails
  <1>8. CASE /\ GoesOn(place) /\ place # "failed" /\ UNCHANGED <<gate, hint, learning, result>>
             /\ watch' = IF place = "stopping" THEN [watch EXCEPT !.tries = 2] ELSE Still
    <2>1. todo' = todo /\ phase' = place
      BY <1>8 DEF GoesOn
    <2>2. 0 < SettleDelay + SettleTimeout
      BY RoutineAssumption, WaitsAssumption
    <2>3. place = "settling" => "since" \in DOMAIN watch' /\ watch'.since = 0
      BY <1>8 DEF Still
    <2>4. MaskInv'
      <3>1. hint' \in Nat /\ "late" \in DOMAIN learning' /\ ~learning'.late
        BY <1>3, <1>8 DEF MaskInv
      <3>2. CASE place = "stopping"
        <4>1. Free' /\ (gate'.motion # "idle" => moving')
          BY <1>1, <1>3, <1>5, <1>8 DEF Free
        <4>2. QED
          BY <2>1, <3>1, <3>2, <4>1 DEF MaskInv
      <3>3. CASE place = "settling"
        BY <1>6, <1>8, <2>1, <2>2, <2>3, <3>1, <3>3 DEF MaskInv
      <3>4. QED
        BY <1>6, <1>8, <3>2, <3>3
    <2>5. QED
      BY <1>1, <1>3, <1>6, <1>8, <2>1, <2>4, LegGoesOn
  <1>9. QED
    BY <1>2, <1>7, <1>8

\* A poll of the wait for a gate to settle, within its time.
LEMMA StillSettling ==
  ASSUME RoutineInv, result = "running", todo # <<>>, phase = "settling",
         watch.since + 1 < SettleDelay + SettleTimeout,
         watch' = [watch EXCEPT !.since = watch.since + 1],
         GoesOn("settling"), PollPasses, UNCHANGED <<builder, learning, result>>
  PROVE  RoutineInv'
  <1>1. todo' = todo /\ phase' = "settling" /\ gate' = Moved(gate) /\ hint' = Passed(hint)
    BY DEF GoesOn, PollPasses
  <1>2. /\ hint \in Nat /\ "late" \in DOMAIN learning /\ ~learning.late
        /\ "since" \in DOMAIN watch /\ watch.since \in Nat
        /\ gate.motion # "idle" => hint + watch.since >= HintPolls
    BY DEF RoutineInv, MaskInv
  <1>3. SoundGate(gate') /\ (gate'.motion # "idle" => gate.motion # "idle")
    BY <1>1, MovedGate DEF RoutineInv
  <1>4. /\ "since" \in DOMAIN watch' /\ watch'.since = watch.since + 1
        /\ watch'.since \in Nat /\ watch'.since < SettleDelay + SettleTimeout
    BY <1>2
  <1>5. hint' \in Nat /\ hint <= hint' + 1
    BY <1>1, <1>2, PassedIsNat
  <1>6. HintPolls \in Nat
    BY RoutineAssumption
  <1>7. gate'.motion # "idle" => hint' + watch'.since >= HintPolls
    BY <1>2, <1>3, <1>4, <1>5, <1>6
  <1>8. MaskInv'
    BY <1>1, <1>2, <1>4, <1>5, <1>7 DEF MaskInv
  <1>9. QED
    BY <1>1, <1>3, <1>8, LegGoesOn

LEMMA SettlePauseStep ==
  ASSUME RoutineInv, SettlePause
  PROVE  RoutineInv'
  <1>1. /\ result = "running" /\ todo # <<>> /\ phase = "settling"
        /\ watch.since + 1 < SettleDelay /\ watch' = [watch EXCEPT !.since = watch.since + 1]
        /\ GoesOn("settling") /\ PollPasses /\ UNCHANGED <<builder, learning, result>>
    BY DEF SettlePause, At
  <1>2. watch.since \in Nat /\ SettleDelay \in Nat /\ SettleTimeout \in Nat
    BY <1>1, RoutineAssumption DEF RoutineInv, MaskInv
  <1>3. watch.since + 1 < SettleDelay + SettleTimeout
    BY <1>1, <1>2
  <1>4. QED
    BY <1>1, <1>3, StillSettling

\* While the run waits, the mask hides a movement for as long as it would wait.
LEMMA NeverLate ==
  ASSUME RoutineInv, result = "running", phase = "settling",
         NEW s \in StatusNext, IsMoving(s.state)
  PROVE  watch.since + 1 < SettleDelay + SettleTimeout
  <1>1. PICK c, m \in BOOLEAN : s = Status(Moved(gate), c, m) /\ (m <=> hint > 1)
    BY ReadNext
  <1>2. SoundGate(gate) /\ SoundGate(Moved(gate))
    BY MovedGate DEF RoutineInv
  <1>3. Moved(gate).motion # "idle" /\ ~(hint > 1)
    BY <1>1, <1>2, MovementSeen
  <1>4. gate.motion # "idle"
    BY <1>2, <1>3, MovedGate
  <1>5. /\ hint \in Nat /\ watch.since \in Nat
        /\ watch.since < SettleDelay + SettleTimeout /\ hint + watch.since >= HintPolls
    BY <1>4 DEF RoutineInv, MaskInv
  <1>6. /\ SettleDelay \in Nat /\ SettleTimeout \in Nat /\ HintPolls \in Nat
        /\ SettleDelay + SettleTimeout < HintPolls
    BY RoutineAssumption, WaitsAssumption
  <1>7. QED
    BY <1>3, <1>5, <1>6

LEMMA SettleStep ==
  ASSUME RoutineInv, Settle \/ SettleWithSource
  PROVE  RoutineInv'
  <1>1. /\ result = "running" /\ todo # <<>> /\ phase = "settling"
        /\ Current.kind = "approach" /\ builder' = builder
    BY DEF Settle, SettleWithSource, At, Noted
  <1>2. PICK s \in StatusNext : \E final : Settled(s, final)
    BY DEF Settle, SettleWithSource
  <1>3. PICK final : Settled(s, final)
    BY <1>2
  <1>4. \/ /\ watch.since + 1 < SettleDelay + SettleTimeout
           /\ GoesOn("settling") /\ watch' = [watch EXCEPT !.since = watch.since + 1]
           /\ PollPasses /\ UNCHANGED <<learning, result>>
        \/ IsMoving(s.state) /\ watch.since + 1 >= SettleDelay + SettleTimeout
        \/ Fails
        \/ \E attempt : AttemptMade(attempt)
    BY <1>3 DEF Settled
  <1>5. CASE /\ watch.since + 1 < SettleDelay + SettleTimeout
             /\ GoesOn("settling") /\ watch' = [watch EXCEPT !.since = watch.since + 1]
             /\ PollPasses /\ UNCHANGED <<learning, result>>
    BY <1>1, <1>5, StillSettling
  <1>6. CASE IsMoving(s.state) /\ watch.since + 1 >= SettleDelay + SettleTimeout
    <2>1. watch.since + 1 < SettleDelay + SettleTimeout
      BY <1>1, <1>6, NeverLate
    <2>2. watch.since \in Nat /\ SettleDelay \in Nat /\ SettleTimeout \in Nat
      BY <1>1, RoutineAssumption DEF RoutineInv, MaskInv
    <2>3. QED
      BY <1>6, <2>1, <2>2
  <1>7. CASE Fails
    BY <1>1, <1>7, RunFails
  <1>8. CASE \E attempt : AttemptMade(attempt)
    <2>1. PICK attempt : AttemptMade(attempt)
      BY <1>8
    <2>2. NextLeg /\ PollAndPausePass /\ UNCHANGED result
      BY <2>1 DEF AttemptMade
    <2>3. \E attempts, threshold :
            learning' = [learning EXCEPT !.attempts = attempts, !.threshold = threshold,
                                         !.stopAt = Missing, !.late = FALSE]
      BY <2>1 DEF AttemptMade
    <2>4. "late" \in DOMAIN learning' /\ ~learning'.late
      BY <1>1, <2>3, Late
    <2>5. QED
      BY <1>1, <2>2, <2>4, NotLast, LegPolled
  <1>9. QED
    BY <1>4, <1>5, <1>6, <1>7, <1>8

LEMMA LearnTargetStep ==
  ASSUME RoutineInv, LearnTarget
  PROVE  RoutineInv'
  <1>1. /\ result = "running" /\ todo # <<>> /\ Current.kind = "learn" /\ NextLeg
        /\ learning' = Unlearned /\ UNCHANGED <<gate, hint, builder, result>>
    BY DEF LearnTarget, At
  <1>2. "late" \in DOMAIN learning' /\ ~learning'.late
    BY <1>1 DEF Unlearned
  <1>3. SoundGate(gate') /\ hint' \in Nat
    BY <1>1 DEF RoutineInv, MaskInv
  <1>4. QED
    BY <1>1, <1>2, <1>3, NotLast, LegEnds

LEMMA StallStep ==
  ASSUME RoutineInv, Stall
  PROVE  RoutineInv'
  <1>1. /\ result = "running" /\ gate.motion # "idle"
        /\ gate' = [gate EXCEPT !.motion = "idle", !.runOn = Driven]
        /\ UNCHANGED <<hint, moving, builder, todo, phase, watch, learning, result>>
    BY DEF Stall
  <1>2. SoundGate(gate') /\ gate'.motion = "idle"
    BY <1>1, HaltedGate DEF RoutineInv
  <1>3. RunInv'
    BY <1>1 DEF RoutineInv, RunInv, Closed
  <1>4. MaskInv'
    BY <1>1, <1>2 DEF RoutineInv, MaskInv, Free
  <1>5. QED
    BY <1>2, <1>3, <1>4 DEF RoutineInv

-----------------------------------------------------------------------------
(* The theorems. *)

LEMMA RoutineInit == Init => RoutineInv
  <1> SUFFICES ASSUME Init PROVE RoutineInv
    OBVIOUS
  <1>1. /\ gate \in {[pos |-> p, motion |-> "idle", runOn |-> Driven, lag |-> 0] :
                        p \in {0, Full - 1, Full}}
        /\ hint = 0 /\ builder = "none" /\ todo = <<>> /\ phase = "begin"
        /\ learning = Unlearned /\ result = "running"
    BY DEF Init
  <1>2. Full \in Nat /\ Full > 0
    BY EstimatorAssumption
  <1>3. SoundGate(gate)
    BY <1>1, <1>2 DEF SoundGate, GateFields
  <1>4. RunInv
    BY <1>1 DEF RunInv, ClosedLast
  <1>5. MaskInv
    BY <1>1 DEF MaskInv, Unlearned
  <1>6. QED
    BY <1>3, <1>4, <1>5 DEF RoutineInv

LEMMA RoutineNext == RoutineInv /\ [Next]_vars => RoutineInv'
  <1> SUFFICES ASSUME RoutineInv, [Next]_vars PROVE RoutineInv'
    OBVIOUS
  <1>1. CASE Step
    <2>1. CASE MovementTimesOut
      BY <2>1, RunFails DEF MovementTimesOut
    <2>2. QED
      BY <1>1, <2>1, StartStep, FinishStep, BeginEndStep, PollEndStep, ConfirmEndStep,
         BeginTravelStep, PollTravelStep, ConfirmTravelStep, DecideStep, BeginApproachStep,
         PollApproachStep, StopAcceptedStep, StopRejectedStep, SettlePauseStep, SettleStep,
         LearnTargetStep DEF Step
  <1>2. CASE Interrupted
    BY <1>2, RunFails DEF Interrupted
  <1>3. CASE Stall
    BY <1>3, StallStep
  <1>4. CASE UNCHANGED vars
    BY <1>4 DEF vars, RoutineInv, RunInv, MaskInv, Free
  <1>5. QED
    BY <1>1, <1>2, <1>3, <1>4 DEF Next

\* Whatever the gate does and however it reports, the inductive invariant holds:
\* the legs end at the closed end, and the mask of a stop outlasts the wait for it.
THEOREM RoutineInvariant == Spec => []RoutineInv
  BY RoutineInit, RoutineNext, PTL DEF Spec

\* A run that finishes leaves the gate standing at its closed end, for any
\* targets, attempts and times (_async_build_position_calibration and its twin).
THEOREM FinishesClosed == Spec => []FinishedClosed
  <1>1. RoutineInv => FinishedClosed
    BY DEF RoutineInv, RunInv, Closed, FinishedClosed
  <1>2. QED
    BY RoutineInvariant, <1>1, PTL

\* The time to settle is never over with the gate seen moving: the mask of the
\* stop hides it for longer (_async_wait_for_settle under position.py 155-172).
THEOREM NoAttemptIsLate == Spec => [](result = "running" => ~learning.late)
  <1>1. RoutineInv => (result = "running" => ~learning.late)
    BY DEF RoutineInv, MaskInv
  <1>2. QED
    BY RoutineInvariant, <1>1, PTL

\* A stop refused as invalid is passed over only when the gate stands
\* (_async_send_calibration_stop).
THEOREM RefusalIsJudged == Spec => RefusedStopMeansStanding
  <1>1. ASSUME RoutineInv, [Next]_vars
        PROVE  [(phase = "stopping" /\ phase' = "settling" /\ gate' = gate)
                => gate.motion = "idle"]_vars
    <2>1. CASE StopAccepted
      BY <1>1, <2>1, StopAcceptedStep
    <2>2. CASE StopRejected
      BY <1>1, <2>2, StopRejectedStep
    <2>3. CASE Next /\ ~StopAccepted /\ ~StopRejected
      <3>1. phase = "stopping" /\ phase' # phase => FALSE
        BY <2>3 DEF Next, Step, Start, Finish, BeginEnd, BeginEndWithSource, PollEnd,
           PollEndWithSource, ConfirmEnd, BeginTravel, BeginTravelWithSource, PollTravel,
           PollTravelWithSource, ConfirmTravel, Decide, BeginApproach,
           BeginApproachWithSource, PollApproach, PollApproachWithSource, SettlePause,
           Settle, SettleWithSource, LearnTarget, MovementTimesOut, Interrupted, Stall,
           At, Fails
      <3>2. QED
        BY <3>1
    <2>4. QED
      BY <1>1, <2>1, <2>2, <2>3
  <1>2. QED
    BY RoutineInvariant, <1>1, PTL DEF Spec, RefusedStopMeansStanding
=============================================================================
