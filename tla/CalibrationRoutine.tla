------------------------- MODULE CalibrationRoutine -------------------------
(***************************************************************************)
(* What a calibration run does with the gate: calibration.py 310-573 and   *)
(* 841-2139, with the position sources of 2245-2440.                       *)
(*                                                                         *)
(* The run is a list of legs: to an end, a timed full travel, an approach  *)
(* to a target.  One step is what the coroutine does between two sleeps:   *)
(* the gate moves by a unit, the status is read and handled.  Times are    *)
(* counted in polls of half a second; the gate runs on for some units      *)
(* after a stop.  `hint' is the mask that position.py 155-172 lays over    *)
(* the statuses after a stop.                                              *)
(*                                                                         *)
(* External: the gate and how it reports (encoder registers, live percent, *)
(* a live raw scale, states only).                                         *)
(***************************************************************************)
EXTENDS CalibrationEstimator, FiniteSetsExt, SequencesExt

CONSTANTS
    Targets,        \* CALIBRATION_TARGETS, ascending
    MaxAttempts,    \* CALIBRATION_MAX_ATTEMPTS
    MaxTravels,     \* CALIBRATION_TIME_FULL_TRAVEL_ATTEMPTS
    EndTolerance,   \* CALIBRATION_ENDPOINT_TOLERANCE
    StartGrace,     \* POSITION_SIMULATION_START_GRACE_SECONDS, in polls
    MoveTimeout,    \* CALIBRATION_MOVEMENT_TIMEOUT_SECONDS
    EndGrace,       \* CALIBRATION_STOPPED_ENDPOINT_GRACE_SECONDS
    SettleDelay,    \* CALIBRATION_SETTLE_SECONDS
    SettleTimeout,  \* CALIBRATION_SETTLE_TIMEOUT_SECONDS
    HintPolls,      \* RECENT_STOP_STATUS_OVERRIDE_SECONDS
    MinUnique, MinRising, MinSpan, MaxGap,  \* CALIBRATION_LIVE_*
    Reports,        \* how the gate reports its position
    RunOns,         \* how far it runs on after a stop
    EndLags,        \* polls at an end before it reports open or closed
    MaxFaults       \* bound: stalls, refused stops and incomplete reads

ASSUME RoutineAssumption ==
    /\ {MaxAttempts, MaxTravels, EndTolerance, StartGrace, MoveTimeout, EndGrace,
        SettleDelay, SettleTimeout, HintPolls, MinUnique, MinRising, MinSpan,
        MaxGap, MaxFaults} \subseteq Nat
    /\ Targets \in Seq(1 .. Full - 1)
    /\ Reports \subseteq {"encoder", "percent", "coarse", "scalar",
                          "scalar_inverted", "scalar_moving", "state"}
    /\ RunOns \cup EndLags \subseteq Nat

\* 1 percent of travel, 2 and 8 of 20 seconds (calibration_constants.py 5-9,
\* position.py 37): a gate in the middle is not at its end, and the mask of a
\* stop outlasts the wait for it.
ASSUME WaitsAssumption ==
    /\ EndTolerance < Full \div 2
    /\ 0 < SettleDelay /\ SettleDelay + SettleTimeout < HintPolls

VARIABLES
    gate,      \* external: where the gate is and what it does
    habits,    \* external: how this gate reports
    faults,
    hint,      \* polls the recent-stop mask still lasts
    moving,    \* data.is_moving of the last status read
    builder,   \* "encoder" or "source", by the first status
    todo,      \* the legs left
    phase,     \* where the coroutine is in the first of them
    watch,     \* its movement: polls since the command, since it was seen moving
    source,    \* _CalibrationPositionSource
    learning,  \* the attempts at one target
    samples,   \* the samples kept, by direction
    travel,    \* the durations measured, by direction
    result

environment == <<habits, faults>>
vars == <<gate, habits, faults, hint, moving, builder, todo, phase, watch,
          source, learning, samples, travel, result>>

-----------------------------------------------------------------------------
(* The gate, external. *)

Actions == {"open", "close"}
MovingState(action) == IF action = "open" THEN "opening" ELSE "closing"
EndState(action) == IF action = "open" THEN "open" ELSE "closed"
EndOf(action) == IF action = "open" THEN Full ELSE 0
Opposite(action) == IF action = "open" THEN "close" ELSE "open"
Driven == -1  \* no stop is pending

Passed(polls) == IF polls = 0 THEN 0 ELSE polls - 1

\* Half a second of the gate's life.
Moved(g) ==
    IF g.motion = "idle"
    THEN [g EXCEPT !.lag = Passed(@)]
    ELSE LET pos == IF g.motion = "opening" THEN g.pos + 1 ELSE g.pos - 1
             left == IF g.runOn = Driven THEN Driven ELSE g.runOn - 1
             ends == pos \in {0, Full}
         IN  [pos |-> pos,
              motion |-> IF ends \/ left = 0 THEN "idle" ELSE g.motion,
              runOn |-> IF ends \/ left = 0 THEN Driven ELSE left,
              lag |-> IF ends THEN habits.lag ELSE 0]

Driving(g, action) ==
    IF g.pos = EndOf(action)
    THEN [g EXCEPT !.motion = "idle", !.runOn = Driven]
    ELSE [g EXCEPT !.motion = MovingState(action), !.runOn = Driven, !.lag = 0]

Stopping(g, runOn) ==
    IF g.motion = "idle" THEN g
    ELSE IF runOn = 0 THEN [g EXCEPT !.motion = "idle", !.runOn = Driven]
    ELSE [g EXCEPT !.runOn = runOn]

GateState(g) ==
    IF g.motion # "idle" THEN g.motion
    ELSE IF g.pos = Full /\ g.lag = 0 THEN "open"
    ELSE IF g.pos = 0 /\ g.lag = 0 THEN "closed"
    ELSE "stopped"

RawOf(g) ==
    CASE habits.reports = "encoder" -> g.pos
      [] habits.reports = "scalar" -> g.pos
      [] habits.reports = "scalar_inverted" -> Full - g.pos
      [] habits.reports = "scalar_moving" /\ g.motion # "idle" -> g.pos
      [] OTHER -> Missing

PositionOf(g) ==
    CASE habits.reports \in {"encoder", "percent"} -> g.pos
      [] habits.reports = "coarse" ->
             IF g.pos \in {0, Full} THEN g.pos ELSE Full \div 2
      [] OTHER -> Missing

-----------------------------------------------------------------------------
(* Reading the status. *)

IsMoving(state) == state \in {"opening", "closing"}

\* _async_read_motion_status: the status as the gate reports it, under the
\* mask of a recent stop.  An encoder may answer without its registers.
Status(g, complete, masked) ==
    LET state == GateState(g)
        hidden == masked /\ state \in {"open", "closed", "opening", "closing"}
    IN  [state |-> IF hidden THEN "stopped" ELSE state,
         position |-> IF hidden \/ ~complete THEN Missing ELSE PositionOf(g),
         raw |-> IF complete THEN RawOf(g) ELSE Missing,
         bounds |-> complete /\ habits.reports = "encoder",
         complete |-> complete]

\* _has_encoder_calibration_data
HasEncoder(s) == s.bounds /\ s.raw # Missing /\ s.position # Missing

\* _is_at_endpoint
AtEnd(s, action) ==
    \/ s.state = EndState(action)
    \/ /\ ~IsMoving(s.state)
       /\ s.position # Missing
       /\ Distance(EndOf(action) - s.position) <= EndTolerance

-----------------------------------------------------------------------------
(* The position source of the builder without an encoder. *)

NoSource ==
    [mode |-> "time", closed |-> Missing, open |-> Missing, low |-> Missing,
     high |-> Missing, seen |-> {}, last |-> [a \in Actions |-> Missing],
     rising |-> 0, wrong |-> FALSE]

\* _reset_calibration_live_source
Reset(src, mode) ==
    [src EXCEPT !.mode = mode, !.seen = {}, !.last = NoSource.last,
                !.rising = 0, !.wrong = FALSE]

\* _record_calibration_live_sample; the count of good steps is capped at the
\* number asked for.
Recorded(src, state, value) ==
    IF ~IsMoving(state) THEN src
    ELSE LET action == IF state = "opening" THEN "open" ELSE "close"
             last == src.last[action]
             new == last \notin {Missing, value}
             right == IF action = "open" THEN value > last ELSE value < last
         IN  [src EXCEPT !.seen = @ \cup {value}, !.last[action] = value,
                         !.rising = IF new /\ right THEN Min({@ + 1, MinRising}) ELSE @,
                         !.wrong = @ \/ (new /\ ~right)]

LiveScale == habits.reports \in {"scalar", "scalar_inverted", "scalar_moving"}

\* _update_calibration_position_source
Updated(src, s) ==
    IF HasEncoder(s) THEN [src EXCEPT !.mode = "encoder"]
    ELSE IF LiveScale /\ s.raw # Missing
    THEN LET base == IF src.mode = "live_scalar" THEN src
                     ELSE [Reset(src, "live_scalar") EXCEPT
                              !.closed = Missing, !.open = Missing,
                              !.low = Missing, !.high = Missing]
             ranged == [base EXCEPT
                           !.low = IF @ = Missing THEN s.raw ELSE Min({@, s.raw}),
                           !.high = Max({@, s.raw}),
                           !.closed = IF s.state = "closed" THEN s.raw ELSE @,
                           !.open = IF s.state = "open" THEN s.raw ELSE @]
         IN  Recorded(ranged, s.state, s.raw)
    ELSE IF s.position = Missing THEN src
    ELSE IF src.mode = "time" /\ habits.reports \in {"percent", "coarse"}
    THEN Recorded(Reset(src, "live_percent"), s.state, s.position)
    ELSE IF src.mode = "live_percent" THEN Recorded(src, s.state, s.position)
    ELSE src

HasBounds(src) ==
    src.closed # Missing /\ src.open # Missing /\ src.closed # src.open

Normalized(src, raw) ==
    Clamp(IF src.open > src.closed
          THEN ((raw - src.closed) * Full) \div (src.open - src.closed)
          ELSE ((src.closed - raw) * Full) \div (src.closed - src.open))

\* _calibration_percent_for_status
Percent(src, s) ==
    LET fromState == IF s.state = "closed" THEN 0
                     ELSE IF s.state = "open" THEN Full ELSE Missing
    IN  CASE src.mode = "live_scalar" /\ s.raw # Missing /\ HasBounds(src) ->
                 Normalized(src, s.raw)
          [] src.mode \in {"encoder", "live_percent"} /\ s.position # Missing ->
                 s.position
          [] OTHER -> fromState

\* _finalize_live_scalar_bounds
Finalized(src) ==
    LET other(bound) == IF bound = src.low THEN src.high ELSE src.low
    IN  IF \/ src.mode # "live_scalar" \/ HasBounds(src)
           \/ Missing \in {src.low, src.high} \/ src.low = src.high
        THEN src
        ELSE IF src.closed = Missing /\ src.open = Missing
        THEN [src EXCEPT !.closed = src.low, !.open = src.high]
        ELSE IF src.closed = Missing
        THEN [src EXCEPT !.closed = other(src.open)]
        ELSE IF src.open = Missing
        THEN [src EXCEPT !.open = other(src.closed)]
        ELSE src

\* _learn_live_scalar_bounds_from_travel
LearnedBounds(src, action, first, last) ==
    LET known(old, new) == IF old = Missing THEN new ELSE old
        from == known(IF action = "open" THEN src.closed ELSE src.open, first)
        to == known(IF action = "open" THEN src.open ELSE src.closed, last)
    IN  IF src.mode # "live_scalar" THEN src
        ELSE IF action = "open" THEN [src EXCEPT !.closed = from, !.open = to]
        ELSE [src EXCEPT !.open = from, !.closed = to]

\* _calibration_source_quality: the values seen, on the scale of percentages
SeenPercent(src) ==
    IF src.mode = "live_scalar" /\ HasBounds(src)
    THEN {Normalized(src, v) : v \in src.seen} ELSE src.seen

\* _calibration_source_can_measure_targets
CanMeasure(src) ==
    LET seen == SeenPercent(src)
    IN  \/ src.mode = "encoder"
        \/ /\ src.mode = "live_percent" \/ (src.mode = "live_scalar" /\ HasBounds(src))
           /\ Cardinality(src.seen) >= Max({MinUnique, 2})
           /\ src.rising >= MinRising
           /\ ~src.wrong
           /\ Max(seen) - Min(seen) >= MinSpan
           /\ \A v \in seen : v = Max(seen) \/ \E w \in seen : w > v /\ w - v <= MaxGap

-----------------------------------------------------------------------------
(* The legs of a run. *)

Leg(kind, action, target, number) ==
    [kind |-> kind, action |-> action, target |-> target, number |-> number]

ToEnd(action) == <<Leg("end", action, 0, 0)>>

\* An attempt starts from the end the gate then moves away from, and returns.
AttemptLegs(action, target, number) ==
    ToEnd(Opposite(action))
        \o <<Leg("approach", action, target, number)>>
        \o ToEnd(Opposite(action))

\* _async_calibrate_target_from_endpoint and its twin with a position source:
\* every attempt is made, whatever the ones before it were.
TargetLegs(action, target) ==
    FlattenSeq([number \in 1 .. MaxAttempts |-> AttemptLegs(action, target, number)])
        \o <<Leg("learn", action, target, 0)>>

TravelLegs(number) ==
    <<Leg("travel", "open", 0, number), Leg("travel", "close", 0, number)>>

\* Fault: the gate is left open after the last target.
MeasuredLegsLeftOpen ==
    FlattenSeq([i \in DOMAIN Targets |-> TargetLegs("open", Targets[i])])
        \o ToEnd("open")
        \o FlattenSeq([i \in DOMAIN Targets |-> TargetLegs("close", Reverse(Targets)[i])])

\* The targets, opening from the closed end and then closing from the open one.
MeasuredLegs ==
    FlattenSeq([i \in DOMAIN Targets |-> TargetLegs("open", Targets[i])])
        \o ToEnd("open")
        \o FlattenSeq([i \in DOMAIN Targets |-> TargetLegs("close", Reverse(Targets)[i])])
        \o ToEnd("close")

\* _async_build_position_calibration
EncoderLegs == ToEnd("close") \o TravelLegs(1) \o MeasuredLegs

\* _async_build_non_encoder_position_calibration up to its first decision
SourceLegs == ToEnd("close") \o TravelLegs(1) \o <<Leg("decide", "none", 0, 1)>>

Current == Head(todo)
At(place, kind) ==
    /\ result = "running"
    /\ phase = place
    /\ todo # <<>>
    /\ Current.kind = kind

Still == [since |-> 0, seen |-> 0, grace |-> 0, tries |-> 0,
          first |-> Missing, last |-> Missing]
Unlearned == [threshold |-> Missing, stopAt |-> Missing, late |-> FALSE,
              attempts |-> <<>>, ranOn |-> {}]

NextLeg == todo' = Tail(todo) /\ phase' = "begin" /\ watch' = Still
GoesOn(place) == todo' = todo /\ phase' = place

\* The run ends with an error; the gate is left as it is.
Fails ==
    /\ result' = "failed"
    /\ UNCHANGED <<gate, hint, todo, phase, watch, learning, samples, travel>>

\* What a read may return: incomplete only at the cost of a fault.
Readings ==
    IF faults < MaxFaults /\ habits.reports = "encoder" THEN BOOLEAN ELSE {TRUE}

\* A read at once, and one after the sleep of half a second.
StatusNow == {Status(gate, c, hint > 0) : c \in Readings}
StatusNext == {Status(Moved(gate), c, hint > 1) : c \in Readings}

\* async_set_updated_data after a read
Noted(s) ==
    /\ moving' = IsMoving(s.state)
    /\ faults' = IF s.complete THEN faults ELSE faults + 1
    /\ UNCHANGED <<habits, builder>>

PollPasses == gate' = Moved(gate) /\ hint' = Passed(hint)

\* A poll, then _async_pause_before_next_calibration_command.
PollAndPausePass == gate' = Moved(Moved(gate)) /\ hint' = Passed(Passed(hint))

\* _async_send_action(action, refresh=False, simulate=False), accepted: an open
\* or a close ends the mask of an earlier stop.
Sent(started) ==
    /\ gate' = Driving(gate, Current.action)
    /\ hint' = 0
    /\ GoesOn("moving")
    /\ watch' = started
    /\ UNCHANGED result

-----------------------------------------------------------------------------
Init ==
    /\ habits \in [reports : Reports, lag : EndLags]
    /\ gate \in {[pos |-> p, motion |-> "idle", runOn |-> Driven, lag |-> 0] :
                    p \in {0, Full - 1, Full}}
    /\ faults = 0
    /\ hint = 0
    /\ moving = FALSE
    /\ builder = "none"
    /\ todo = <<>>
    /\ phase = "begin"
    /\ watch = Still
    /\ source = NoSource
    /\ learning = Unlearned
    /\ samples = [a \in Actions |-> <<>>]
    /\ travel = [a \in Actions |-> <<>>]
    /\ result = "running"

\* The first status chooses the builder.
Start ==
    /\ builder = "none"
    /\ result = "running"
    /\ \E s \in StatusNow :
        /\ moving' = IsMoving(s.state)
        /\ faults' = IF s.complete THEN faults ELSE faults + 1
        /\ IF HasEncoder(s)
           THEN builder' = "encoder" /\ todo' = EncoderLegs /\ source' = source
           ELSE /\ builder' = "source"
                /\ todo' = SourceLegs
                /\ source' = Updated(NoSource, s)
    /\ UNCHANGED <<gate, habits, hint, phase, watch, learning, samples, travel,
                   result>>

-----------------------------------------------------------------------------
(* To an end. *)

\* _async_move_to_end, up to its command
BeginEnd ==
    /\ At("begin", "end")
    /\ builder = "encoder"
    /\ \E s \in StatusNow :
        /\ Noted(s)
        /\ \/ ~s.bounds /\ Fails
           \/ /\ s.bounds /\ AtEnd(s, Current.action)
              /\ NextLeg
              /\ UNCHANGED <<gate, hint, result>>
           \/ s.bounds /\ ~AtEnd(s, Current.action) /\ Sent(Still)
    /\ UNCHANGED <<source, learning, samples, travel>>

\* _async_move_to_end_with_position_source, up to its command
BeginEndWithSource ==
    /\ At("begin", "end")
    /\ builder = "source"
    /\ \E s \in StatusNow :
        /\ Noted(s)
        /\ source' = Updated(source, s)
        /\ \/ /\ AtEnd(s, Current.action)
              /\ NextLeg
              /\ UNCHANGED <<gate, hint, result>>
           \/ ~AtEnd(s, Current.action) /\ Sent(Still)
    /\ UNCHANGED <<learning, samples, travel>>

\* The movement has been watched for one more poll.
Watched(s) ==
    [watch EXCEPT !.since = @ + 1,
                  !.seen = IF s.state = MovingState(Current.action) /\ @ = 0
                           THEN watch.since + 1 ELSE @]

\* The gate stands in one of these states after it was seen moving, or after
\* the time it has to begin.
Halted(s, states) ==
    /\ s.state \in states
    /\ Watched(s).seen # 0 \/ Watched(s).since > StartGrace

StillWatching == result = "running" /\ watch.since < MoveTimeout

\* The loop of _async_move_to_end for one poll: a gate that stops short may
\* still be confirmed at its end.
EndPolled(s) ==
    \/ AtEnd(s, Current.action) /\ NextLeg /\ PollAndPausePass
    \/ /\ ~AtEnd(s, Current.action)
       /\ PollPasses
       /\ watch' = Watched(s)
       /\ GoesOn(IF Halted(s, {"stopped"}) THEN "confirming" ELSE "moving")

PollEnd ==
    /\ At("moving", "end")
    /\ builder = "encoder" /\ StillWatching
    /\ \E s \in StatusNext :
        Noted(s) /\ EndPolled(s)
    /\ UNCHANGED <<source, learning, samples, travel, result>>

PollEndWithSource ==
    /\ At("moving", "end")
    /\ builder = "source" /\ StillWatching
    /\ \E s \in StatusNext :
        /\ Noted(s)
        /\ EndPolled(s)
        /\ source' = Updated(source, s)
    /\ UNCHANGED <<learning, samples, travel, result>>

\* Every movement is given up after MoveTimeout polls.
MovementTimesOut ==
    /\ result = "running"
    /\ phase = "moving"
    /\ watch.since = MoveTimeout
    /\ Fails
    /\ UNCHANGED <<habits, faults, moving, builder, source>>

\* _async_wait_for_endpoint_after_stopped for one poll
Awaited(s) ==
    IF AtEnd(s, Current.action) THEN "confirmed"
    ELSE IF s.state = MovingState(Current.action) THEN "unconfirmed"
    ELSE IF watch.grace + 1 >= EndGrace THEN "unconfirmed"
    ELSE "waiting"

\* Fault: the polls of the wait are not counted.
KeepsWaitingUncounted ==
    /\ GoesOn("confirming")
    /\ watch' = watch
    /\ PollPasses
    /\ UNCHANGED <<source, travel, result>>

KeepsWaiting ==
    /\ GoesOn("confirming")
    /\ watch' = [watch EXCEPT !.grace = @ + 1]
    /\ PollPasses
    /\ UNCHANGED <<source, travel, result>>

ConfirmEnd ==
    /\ At("confirming", "end")
    /\ \E s \in StatusNext :
        /\ Noted(s)
        /\ \/ /\ Awaited(s) = "confirmed"
              /\ NextLeg
              /\ PollAndPausePass
              /\ source' = IF builder = "source" THEN Updated(source, s) ELSE source
              /\ UNCHANGED result
           \/ Awaited(s) = "waiting" /\ KeepsWaiting
           \/ Awaited(s) = "unconfirmed" /\ Fails /\ source' = source
    /\ UNCHANGED <<learning, samples, travel>>

-----------------------------------------------------------------------------
(* A full travel. *)

\* _async_measure_full_travel, up to its command
BeginTravel ==
    /\ At("begin", "travel")
    /\ builder = "encoder"
    /\ \E s \in StatusNow :
        /\ Noted(s)
        /\ IF s.bounds /\ s.raw # Missing /\ s.position # Missing
           THEN Sent(Still) ELSE Fails
    /\ UNCHANGED <<source, learning, samples, travel>>

PollTravel ==
    /\ At("moving", "travel")
    /\ builder = "encoder" /\ StillWatching
    /\ \E s \in StatusNext :
        /\ Noted(s)
        /\ \/ /\ AtEnd(s, Current.action) /\ s.position # Missing
              /\ NextLeg
              /\ PollAndPausePass
              /\ travel' = [travel EXCEPT ![Current.action] =
                                Append(@, Watched(s).since)]
              /\ UNCHANGED result
           \/ AtEnd(s, Current.action) /\ s.position = Missing /\ Fails
           \/ ~AtEnd(s, Current.action) /\ Halted(s, {"stopped"}) /\ Fails
           \/ /\ ~AtEnd(s, Current.action) /\ ~Halted(s, {"stopped"})
              /\ GoesOn("moving")
              /\ watch' = Watched(s)
              /\ PollPasses
              /\ UNCHANGED <<travel, result>>
    /\ UNCHANGED <<source, learning, samples>>

\* _calibration_raw_for_status
SourceRaw(src, s) ==
    IF src.mode \in {"encoder", "live_scalar"} THEN s.raw ELSE Missing

\* _async_measure_full_travel_with_position_source, up to its command
BeginTravelWithSource ==
    /\ At("begin", "travel")
    /\ builder = "source"
    /\ \E s \in StatusNow :
        \E src \in {Updated(source, s)} :
        \E raw \in {SourceRaw(src, s)} :
        /\ Noted(s)
        /\ source' = src
        /\ IF AtEnd(s, Current.action) THEN Fails
           ELSE Sent([Still EXCEPT !.first = raw, !.last = raw])
    /\ UNCHANGED <<learning, samples, travel>>

\* Measured from the poll that saw the gate move, or else from the command.
Duration(w) == IF w.seen = 0 THEN w.since ELSE Max({w.since - w.seen, 1})

\* build_result: the travel is kept, and a raw scale learns its bounds from it.
TravelMeasured(src, s, w) ==
    LET raw == SourceRaw(src, s)
    IN  /\ travel' = [travel EXCEPT ![Current.action] = Append(@, Duration(w))]
        /\ source' = LearnedBounds(src, Current.action, w.first,
                                   IF raw # Missing THEN raw ELSE w.last)
        /\ NextLeg
        /\ PollAndPausePass
        /\ UNCHANGED result

\* The watch of a travel also keeps the first and the last raw value.
TravelWatched(src, s) ==
    LET raw == SourceRaw(src, s)
    IN  [Watched(s) EXCEPT !.first = IF @ = Missing THEN raw ELSE @,
                           !.last = IF raw = Missing THEN @ ELSE raw]

PollTravelWithSource ==
    /\ At("moving", "travel")
    /\ builder = "source" /\ StillWatching
    /\ \E s \in StatusNext :
        \E src \in {Updated(source, s)} :
        \E w \in {TravelWatched(src, s)} :
        /\ Noted(s)
        /\ \/ AtEnd(s, Current.action) /\ TravelMeasured(src, s, w)
           \/ /\ ~AtEnd(s, Current.action)
              /\ GoesOn(IF Halted(s, {"stopped"}) THEN "confirming" ELSE "moving")
              /\ watch' = w
              /\ source' = src
              /\ PollPasses
              /\ UNCHANGED <<travel, result>>
    /\ UNCHANGED <<learning, samples>>

\* A closing in time mode may end at 65 percent of the median opening.
LongEnough(w) ==
    /\ source.mode = "time"
    /\ Current.action = "close"
    /\ travel["open"] # <<>>
    /\ Duration(w) * 100 >= 65 * Median(travel["open"])

ConfirmTravel ==
    /\ At("confirming", "travel")
    /\ \E s \in StatusNext :
        /\ Noted(s)
        /\ \/ /\ Awaited(s) = "confirmed"
              /\ TravelMeasured(Updated(source, s), s, watch)
           \/ Awaited(s) = "waiting" /\ KeepsWaiting
           \/ /\ Awaited(s) = "unconfirmed"
              /\ IF LongEnough(watch) THEN TravelMeasured(source, s, watch)
                 ELSE Fails /\ source' = source
    /\ UNCHANGED <<learning, samples>>

\* The decision after a pair of full travels: measure the targets, travel once
\* more, or end with times only.
Decide ==
    /\ At("begin", "decide")
    /\ LET src == Finalized(source)
       IN  \/ /\ CanMeasure(src)
              /\ todo' = MeasuredLegs
              /\ source' = src
           \/ /\ ~CanMeasure(src) /\ Current.number < MaxTravels
              /\ todo' = TravelLegs(Current.number + 1)
                            \o <<Leg("decide", "none", 0, Current.number + 1)>>
              /\ source' = src
           \/ /\ ~CanMeasure(src) /\ Current.number = MaxTravels
              /\ todo' = ToEnd("close")
              /\ source' = [src EXCEPT !.mode = "time"]
    /\ UNCHANGED <<gate, habits, faults, hint, moving, builder, phase, watch,
                   learning, samples, travel, result>>

-----------------------------------------------------------------------------
(* An approach to a target. *)

\* The first attempt at a target stops at the target itself.
Attempting ==
    IF Current.number = 1
    THEN [Unlearned EXCEPT !.threshold = Current.target]
    ELSE learning

Reached(action, value, target) ==
    IF action = "open" THEN value >= target ELSE value <= target

\* _async_calibrate_target, up to its command
BeginApproach ==
    /\ At("begin", "approach")
    /\ builder = "encoder"
    /\ \E s \in StatusNow :
        /\ Noted(s)
        /\ IF \/ ~s.bounds \/ s.raw = Missing
              \/ Reached(Current.action, s.raw, Current.target)
           THEN Fails
           ELSE Sent(Still) /\ learning' = Attempting
    /\ UNCHANGED <<source, samples, travel>>

\* _async_calibrate_target_with_position_source, up to its command
BeginApproachWithSource ==
    /\ At("begin", "approach")
    /\ builder = "source"
    /\ \E s \in StatusNow :
        \E src \in {Updated(source, s)} :
        \E start \in {IF Percent(src, s) # Missing THEN Percent(src, s)
                 ELSE EndOf(Opposite(Current.action))} :
        /\ Noted(s)
        /\ source' = src
        /\ IF Reached(Current.action, start, Current.target)
           THEN Fails
           ELSE Sent(Still) /\ learning' = Attempting
    /\ UNCHANGED <<samples, travel>>

\* A poll of an approach that reads this value: the threshold first, then a
\* gate that stands.
Approached(s, value) ==
    /\ \/ /\ value # Missing /\ Reached(Current.action, value, learning.threshold)
          /\ learning' = [learning EXCEPT !.stopAt = value]
          /\ watch' = [Still EXCEPT !.tries = 1]
          /\ GoesOn("stopping")
          /\ PollPasses
          /\ UNCHANGED result
       \/ /\ value = Missing \/ ~Reached(Current.action, value, learning.threshold)
          /\ IF Halted(s, {"open", "closed", "stopped"}) THEN Fails
             ELSE /\ watch' = Watched(s)
                  /\ GoesOn("moving")
                  /\ PollPasses
                  /\ UNCHANGED <<learning, result>>

PollApproach ==
    /\ At("moving", "approach")
    /\ builder = "encoder" /\ StillWatching
    /\ \E s \in StatusNext :
        Noted(s) /\ Approached(s, s.raw)
    /\ UNCHANGED <<source, samples, travel>>

PollApproachWithSource ==
    /\ At("moving", "approach")
    /\ builder = "source" /\ StillWatching
    /\ \E s \in StatusNext :
        \E src \in {Updated(source, s)} :
        /\ Noted(s)
        /\ source' = src
        /\ Approached(s, Percent(src, s))
    /\ UNCHANGED <<samples, travel>>

\* The stop is accepted: the gate runs on, and a stop sent while it was seen
\* moving masks what it reports.
StopAccepted ==
    /\ At("stopping", "approach")
    /\ \E n \in RunOns :
        /\ gate' = Stopping(gate, n)
        /\ learning' = [learning EXCEPT !.ranOn = @ \cup {n}]
    /\ hint' = IF moving THEN HintPolls ELSE 0
    /\ GoesOn("settling")
    /\ watch' = Still
    /\ UNCHANGED <<habits, faults, moving, builder, source, samples, travel, result>>

\* Fault: a rejected stop is taken for a gate that stands.
RejectionTrusted(state, tries) == "settling"

\* What a stop refused as invalid means, by a fresh status.
Rejection(state, tries) ==
    IF state \in {"open", "closed", "stopped"} THEN "settling"
    ELSE IF tries = 1 /\ IsMoving(state) THEN "stopping"
    ELSE "failed"

\* _async_send_calibration_stop after a Code 5, which a gate that stands may
\* give and a moving one as a fault.
StopRejected ==
    /\ At("stopping", "approach")
    /\ gate.motion = "idle" \/ faults < MaxFaults
    /\ LET s == Status(gate, TRUE, hint > 0)
           place == Rejection(s.state, watch.tries)
       IN  /\ moving' = IsMoving(s.state)
           /\ faults' = IF gate.motion = "idle" THEN faults ELSE faults + 1
           /\ IF place = "failed" THEN Fails
              ELSE /\ GoesOn(place)
                   /\ watch' = IF place = "stopping"
                               THEN [watch EXCEPT !.tries = 2] ELSE Still
                   /\ UNCHANGED <<gate, hint, learning, result>>
    /\ UNCHANGED <<habits, builder, source, samples, travel>>

\* The first seconds after a stop, without a read.
SettlePause ==
    /\ At("settling", "approach")
    /\ ~learning.late
    /\ watch.since + 1 < SettleDelay
    /\ GoesOn("settling")
    /\ watch' = [watch EXCEPT !.since = @ + 1]
    /\ PollPasses
    /\ UNCHANGED <<habits, faults, moving, builder, source, learning, samples,
                   travel, result>>

\* An attempt without a final position, or of a gate that did not settle, keeps
\* the threshold it was made with.
Unmeasured == [valid |-> FALSE, error |-> 0, stop |-> learning.threshold]

\* Fault: the target is corrected, not the place where the stop was sent.
MeasuredFromTarget(final) ==
    [valid |-> TRUE, error |-> final - Current.target,
     stop |-> Clamp(Current.target - (final - Current.target))]

\* The threshold corrected by where the gate came to rest.
Measured(final) ==
    [valid |-> TRUE, error |-> final - Current.target,
     stop |-> Clamp(learning.stopAt - (final - Current.target))]

\* The next attempt uses the best threshold so far.
AttemptMade(attempt) ==
    LET attempts == Append(learning.attempts, attempt)
    IN  /\ learning' = [learning EXCEPT
                           !.attempts = attempts,
                           !.threshold = attempts[Select(attempts).chosen].stop,
                           !.stopAt = Missing,
                           !.late = FALSE]
        /\ NextLeg
        /\ PollAndPausePass
        /\ UNCHANGED result

\* _async_wait_for_settle: the gate is read until it stands or time is up; a
\* gate that still moves is stopped again and its attempt is marked invalid.
Settled(s, final) ==
    \/ /\ ~learning.late /\ IsMoving(s.state)
       /\ watch.since + 1 < SettleDelay + SettleTimeout
       /\ GoesOn("settling")
       /\ watch' = [watch EXCEPT !.since = @ + 1]
       /\ PollPasses
       /\ UNCHANGED <<learning, result>>
    \/ /\ ~learning.late /\ IsMoving(s.state)
       /\ watch.since + 1 >= SettleDelay + SettleTimeout
       /\ learning' = [learning EXCEPT !.late = TRUE]
       /\ watch' = [Still EXCEPT !.tries = 1]
       /\ GoesOn("stopping")
       /\ PollPasses
       /\ UNCHANGED result
    \/ /\ learning.late \/ ~IsMoving(s.state)
       /\ IF builder = "encoder" /\ final = Missing THEN Fails
          ELSE AttemptMade(IF learning.late \/ final = Missing THEN Unmeasured
                           ELSE Measured(final))

SettleRead == learning.late \/ watch.since + 1 >= SettleDelay

Settle ==
    /\ At("settling", "approach")
    /\ builder = "encoder" /\ SettleRead
    /\ \E s \in StatusNext :
        Noted(s) /\ Settled(s, s.raw)
    /\ UNCHANGED <<source, samples, travel>>

SettleWithSource ==
    /\ At("settling", "approach")
    /\ builder = "source" /\ SettleRead
    /\ \E s \in StatusNext :
        \E src \in {Updated(source, s)} :
        /\ Noted(s)
        /\ source' = src
        /\ Settled(s, Percent(src, s))
    /\ UNCHANGED <<samples, travel>>

\* The sample of a target, after its last attempt.
LearnTarget ==
    /\ At("begin", "learn")
    /\ samples' = [samples EXCEPT ![Current.action] =
                        Append(@, Sample(Current.target, learning.attempts))]
    /\ learning' = Unlearned
    /\ NextLeg
    /\ UNCHANGED <<gate, habits, faults, hint, moving, builder, source, travel,
                   result>>

-----------------------------------------------------------------------------
Finish ==
    /\ builder # "none"
    /\ result = "running"
    /\ todo = <<>>
    /\ result' = "finished"
    /\ UNCHANGED <<gate, habits, faults, hint, moving, builder, todo, phase,
                   watch, source, learning, samples, travel>>

\* A read or a command raises, or the run is cancelled: at any await.
Interrupted ==
    /\ result = "running"
    /\ Fails
    /\ UNCHANGED <<habits, faults, moving, builder, source>>

\* External: an obstacle, or somebody else's stop.
Stall ==
    /\ result = "running"
    /\ faults < MaxFaults
    /\ gate.motion # "idle"
    /\ gate' = [gate EXCEPT !.motion = "idle", !.runOn = Driven]
    /\ faults' = faults + 1
    /\ UNCHANGED <<habits, hint, moving, builder, todo, phase, watch, source,
                   learning, samples, travel, result>>

Step ==
    \/ Start \/ Finish
    \/ BeginEnd \/ BeginEndWithSource \/ PollEnd \/ PollEndWithSource \/ ConfirmEnd
    \/ BeginTravel \/ BeginTravelWithSource \/ PollTravel
    \/ PollTravelWithSource \/ ConfirmTravel \/ Decide
    \/ BeginApproach \/ BeginApproachWithSource \/ PollApproach
    \/ PollApproachWithSource \/ StopAccepted \/ StopRejected
    \/ SettlePause \/ Settle \/ SettleWithSource \/ LearnTarget
    \/ MovementTimesOut

Next == Step \/ Interrupted \/ Stall

Spec == Init /\ [][Next]_vars

\* The event loop runs the coroutine: every sleep ends, every call returns.
FairSpec == Spec /\ WF_vars(Step)

-----------------------------------------------------------------------------
TypeOK ==
    /\ gate \in [pos : 0 .. Full, motion : {"idle", "opening", "closing"},
                 runOn : RunOns \cup {Driven} \cup 0 .. Full, lag : EndLags \cup 0 .. Full]
    /\ hint \in 0 .. HintPolls
    /\ faults \in 0 .. MaxFaults
    /\ moving \in BOOLEAN
    /\ builder \in {"none", "encoder", "source"}
    /\ phase \in {"begin", "moving", "confirming", "stopping", "settling"}
    /\ watch.since \in 0 .. Max({MoveTimeout, SettleDelay + SettleTimeout})
    /\ learning.attempts \in Attempts
    /\ Len(learning.attempts) <= MaxAttempts
    /\ result \in {"running", "finished", "failed"}

\* An attempt is learned from only once the gate stands: "Attempts that are
\* still moving after the settle timeout are marked invalid and are not used for
\* learning" (docs/position_calibration.md 178-179).  It does not hold: the mask of the
\* run's own stop outlasts the wait, so no read of it shows a gate that moves.
LearnsAtRest ==
    [][(/\ Len(learning'.attempts) > Len(learning.attempts)
        /\ Last(learning'.attempts).valid)
       => Moved(gate).motion = "idle"]_vars

\* A gate that runs on by the same distance after every stop, and that nothing
\* disturbs, is learned exactly if it stands by the end of the settle delay: each
\* target's threshold is the target less that distance, chosen from a stable pair
\* of attempts (select_calibration_sample with the thresholds the attempts are
\* made with).  The mask of the stop shows one that runs on for longer as standing:
\* it is learned short, from where a raw register says it was at the end of the
\* delay, or not at all where the mask hides its position.
SteadyGateIsLearned ==
    [][\A action \in Actions :
        (/\ samples'[action] # samples[action]
         /\ faults = 0
         /\ Cardinality(learning.ranOn) = 1
         /\ habits.reports # "scalar_moving")
        => LET sample == Last(samples'[action])
               runOn == CHOOSE n \in learning.ranOn : TRUE
               unseen == runOn > SettleDelay /\ habits.reports = "percent"
               seen == IF unseen THEN 0 ELSE Min({runOn, SettleDelay})
           IN  /\ sample.stop = IF action = "open" THEN sample.target - seen
                                ELSE sample.target + seen
               /\ sample.strategy = IF unseen THEN "no_valid_attempt"
                                    ELSE "stable_window"]_vars

\* A run that finishes has closed the gate (step 10 of the documented sequence)
\* and leaves it standing there, whatever happened on the way.
FinishedClosed ==
    result = "finished" => gate.motion = "idle" /\ gate.pos <= EndTolerance

\* A stop refused as invalid is passed over only when the gate does stand, and
\* a run sends at most two of them in a row (_async_send_calibration_stop).
RefusedStopMeansStanding ==
    [][(phase = "stopping" /\ phase' = "settling" /\ gate' = gate)
       => gate.motion = "idle"]_vars

\* A run comes to its end, whatever the gate does: every wait is bounded.
RunEnds == <>(result # "running")
=============================================================================
