---------------------------- MODULE StatusStream ----------------------------
(***************************************************************************)
(* What one coordinator shows of its gate: the status written by polls     *)
(* (coordinator.py), by unsolicited frames (controllers/events.py,         *)
(* protocol/nhk/events.py, protocol/t4/live.py) and masked after a local   *)
(* stop, and the position shown: reported, held, or simulated between      *)
(* reports (position.py, models/position.py).                              *)
(*                                                                         *)
(* A poll reads in an executor thread and is applied later on the event    *)
(* loop; a frame is queued by the reader thread and handled later; a       *)
(* command awaits its executor job: each may overtake the others.          *)
(* Positions are 0 (closed) to Full (open).  A Tick is the time in which   *)
(* the simulated position moves by one.                                    *)
(***************************************************************************)
EXTENDS Integers, Sequences, FiniteSets, FiniteSetsExt

CONSTANTS Kinds,           \* controllers: "door", "live", "scalar", "encoder"
          Full,            \* bound: positions
          RECENT_STOP_STATUS_OVERRIDE, \* 20 s, in Ticks
          START_GRACE,     \* 8 s, in Ticks
          TIMEOUT_PADDING, \* 30 s, in Ticks
          ScalarClosed, ScalarOpen,    \* raw bounds learned by a live_scalar profile
          MaxMoves,        \* bound: changes of the gate
          MaxFrames,       \* bound: frames the device sends
          MaxCommands      \* bound: commands and calibration runs

ASSUME StreamAssumption ==
    /\ Kinds \subseteq {"door", "live", "scalar", "encoder"}
    /\ Full \in Nat \ {0, 1}
    /\ {RECENT_STOP_STATUS_OVERRIDE, START_GRACE, TIMEOUT_PADDING} \subseteq Nat
    /\ {ScalarClosed, ScalarOpen} \subseteq 0..Full
    /\ {MaxMoves, MaxFrames, MaxCommands} \subseteq Nat

VARIABLES kind,          \* the controller
          gate,          \* what it is doing: [state, place]
          frames,        \* frames the reader thread handed to the event loop
          poll,          \* the refresh in progress
          command,       \* the command in progress
          data,          \* DataUpdateCoordinator.data, or NoStatus
          lastKnown,     \* _last_known_position
          observed,      \* _position_reporting_observed
          stop,          \* _recent_stop_command_monotonic, _..._started_from_motion
          sim,           \* the _position_simulation_* attributes, or NoSimulation
          calibrating,   \* calibration_state is running
          stream,        \* event_stream_state
          moves, sent, commands  \* so far

gateVars == <<gate, moves>>
simVars == <<lastKnown, observed, sim>>
vars == <<kind, gate, frames, poll, command, data, lastKnown, observed, stop,
          sim, calibrating, stream, moves, sent, commands>>

Unknown == Full + 1         \* None, for a position
Places == 0..Full
Positions == Places \cup {Unknown}
MovingStates == {"opening", "closing"}
States == {"open", "closed", "stopped", "unknown"} \cup MovingStates

NoStatus == [state |-> "none", position |-> Unknown, raw |-> Unknown,
             encoder |-> FALSE, confirmed |-> FALSE]
Status(state, position, raw) ==
    [NoStatus EXCEPT !.state = state, !.position = position, !.raw = raw]
IsMoving(status) == status.state \in MovingStates
NoSimulation == [action |-> "none", anchor |-> 0, elapsed |-> 0, started |-> 0,
                 left |-> 0, confirmed |-> FALSE, target |-> Unknown]
NoStop == [age |-> RECENT_STOP_STATUS_OVERRIDE + 1, motion |-> FALSE]
NoCommand == [pc |-> "none", action |-> "none", motion |-> FALSE, shown |-> Unknown]
NoPoll == [pc |-> "none", status |-> NoStatus]
Refused == [NoPoll EXCEPT !.pc = "refused"]  \* and no further one is scheduled

GateStates == {[state |-> "closed", place |-> 0], [state |-> "open", place |-> Full]}
              \cup [state : {"opening", "closing", "stopped"}, place : 1..(Full - 1)]

Between(low, x, high) == Max({low, Min({x, high})})
AtMost(x, cap) == IF x >= cap THEN cap ELSE x + 1

---------------------------------------------------------------------------
(* The position shown *)

\* _current_simulated_position: without a target the estimate stops just short
\* of the end of the travel.
Simulated(s) ==
    IF s.action = "none" THEN Unknown
    ELSE IF s.action = "open"
    THEN LET cap == IF s.target = Unknown
                    THEN IF s.anchor = Full THEN Full ELSE Max({Full - 1, s.anchor})
                    ELSE Max({s.target, s.anchor})
         IN Min({s.anchor + s.elapsed, Full, cap})
    ELSE LET floor == IF s.target = Unknown
                      THEN IF s.anchor = 0 THEN 0 ELSE Min({1, s.anchor})
                      ELSE Min({s.target, s.anchor})
         IN Max({s.anchor - s.elapsed, 0, floor})

\* resolve_position: the value and where it comes from.
Resolved(status, s, last) ==
    LET known == IF status.position # Unknown THEN status.position ELSE last
        Value(v, source) == [value |-> v, source |-> IF v = Unknown THEN "none" ELSE source]
    IN IF Simulated(s) # Unknown THEN Value(Simulated(s), "time_simulation")
       ELSE IF status.state = "none" THEN Value(Unknown, "none")
       ELSE IF status.confirmed THEN Value(known, "confirmed_endpoint")
       ELSE IF status.position = Unknown THEN Value(last, "held_last_known")
       ELSE Value(known,
                  IF status.raw # Unknown
                  THEN IF kind = "scalar" THEN "t4_live_scalar_calibrated" ELSE "t4_04_40"
                  ELSE IF status.encoder THEN "dmp_encoder"
                  ELSE IF status.state \in {"open", "closed"} THEN "confirmed_endpoint"
                  ELSE "controller_reported")

Shown == Resolved(data, sim, lastKnown)
Observed == observed \/ data.position # Unknown

---------------------------------------------------------------------------
(* The simulation *)

Distance(action, target, from) ==
    LET limit == IF target # Unknown THEN target ELSE IF action = "open" THEN Full ELSE 0
    IN IF limit > from THEN limit - from ELSE from - limit

Deadline(action, target, from) ==
    Max({START_GRACE, Distance(action, target, from) + TIMEOUT_PADDING})

\* _start_position_simulation, from the position shown
Started(action, target) ==
    IF ~Observed \/ Shown.value = Unknown THEN sim
    ELSE [action |-> action, anchor |-> Shown.value, elapsed |-> 0, started |-> 0,
          left |-> Deadline(action, target, Shown.value), confirmed |-> FALSE,
          target |-> target]

\* _rebase_position_simulation, on a position the controller reports
RebasedOn(action, position) ==
    LET target == IF action = sim.action THEN sim.target ELSE Unknown
    IN [action |-> action, anchor |-> position, elapsed |-> 0,
        started |-> IF sim.action = "none" THEN 0 ELSE sim.started,
        left |-> Deadline(action, target, position), confirmed |-> TRUE,
        target |-> target]

MotionAction(state) == CASE state = "opening" -> "open" [] state = "closing" -> "close"
                         [] OTHER -> "none"
EndOf(state) == IF state = "open" THEN Full ELSE 0

\* _sync_position_simulation_from_status.  data is still the status before.
Synced(status) ==
    LET real == MotionAction(status.state)
        next == IF sim.action = "none" THEN Started(real, Unknown) ELSE sim
        atEnd == \/ sim.action = "open" /\ status.state = "open"
                 \/ sim.action = "close" /\ status.state = "closed"
    IN IF calibrating \/ atEnd THEN NoSimulation
       ELSE IF status.position = Unknown
       THEN IF real # "none"
            THEN IF next.action = real THEN [next EXCEPT !.confirmed = TRUE] ELSE next
            ELSE IF status.state = "stopped" THEN NoSimulation ELSE sim
       ELSE IF real # "none" THEN RebasedOn(real, status.position)
       ELSE IF sim.action # "none" /\ ~sim.confirmed /\ sim.started < START_GRACE
       THEN sim ELSE NoSimulation

\* _hold_position_simulation: an estimate becomes the last known position.
Held(status, last) ==
    IF /\ ~calibrating /\ status.position = Unknown /\ status.state = "stopped"
       /\ Simulated(sim) # Unknown
    THEN Simulated(sim) ELSE last

---------------------------------------------------------------------------
(* How a status is stored *)

\* _apply_recent_stop_status_hint
InHold == stop.age <= RECENT_STOP_STATUS_OVERRIDE
HintedStill(status) ==  \* mutant: only a status that moves is masked
    IF InHold /\ stop.motion /\ status.state \in MovingStates
    THEN [status EXCEPT !.state = "stopped", !.position = Unknown]
    ELSE status
Hinted(status) ==
    IF InHold /\ stop.motion /\ status.state \in {"open", "closed"} \cup MovingStates
    THEN [status EXCEPT !.state = "stopped", !.position = Unknown]
    ELSE status

\* _normalize_live_scalar_status, by the raw bounds of a live_scalar profile
Scaled(status) ==
    IF kind # "scalar" \/ status.raw = Unknown \/ ScalarOpen = ScalarClosed THEN status
    ELSE [status EXCEPT !.position = Between(0,
            ((status.raw - ScalarClosed) * Full) \div (ScalarOpen - ScalarClosed), Full)]

\* _normalize_status_for_display: a movement nobody saw makes the last known
\* position worthless; a reported end is a position, if positions are reported.
Forgets(status) ==
    /\ status.position = Unknown /\ sim.action = "none"
    /\ data.state \in {"open", "closed"} /\ status.state = "stopped"
ConfirmedNever(status) == status  \* mutant: an end is no position
Confirmed(status) ==
    IF status.position = Unknown /\ Observed /\ status.state \in {"open", "closed"}
    THEN [status EXCEPT !.position = EndOf(status.state), !.confirmed = TRUE]
    ELSE status

\* Hint, normalisation, _store_successful_status and the update of the entities.
Store(reported) ==
    \E scaled \in {Scaled(Hinted(reported))} :
      \E last \in {IF Forgets(scaled) THEN Unknown ELSE lastKnown},
         status \in {Confirmed(scaled)} :
        /\ observed' = (observed \/ status.position # Unknown)
        /\ lastKnown' = Held(status, IF status.position # Unknown
                                     THEN status.position ELSE last)
        /\ sim' = Synced(status)
        /\ data' = status
        /\ stop' = IF InHold THEN stop ELSE NoStop

---------------------------------------------------------------------------
Init ==
    /\ kind \in Kinds
    /\ gate \in GateStates
    /\ frames = <<>> /\ poll = NoPoll /\ command = NoCommand
    /\ data = NoStatus
    /\ lastKnown = Unknown /\ observed = FALSE
    /\ stop = NoStop /\ sim = NoSimulation /\ calibrating = FALSE
    /\ stream = "idle"
    /\ moves = 0 /\ sent = 0 /\ commands = 0

(* The gate, and the frames it sends *)

Move == /\ moves < MaxMoves
        /\ gate' \in GateStates \ {gate}
        /\ moves' = moves + 1
        /\ UNCHANGED <<kind, frames, poll, command, data, lastKnown, observed, stop,
                       sim, calibrating, stream, sent, commands>>

\* A DoorStatus change, a live T4 status, a live T4 position (whose state byte
\* may say anything), a diagnostic, or text that is no event.
Frame(what, state, place) == [what |-> what, state |-> state, place |-> place]
FramesOf(g) ==
    {Frame("door", g.state, Unknown), Frame("diagnostic", "unknown", Unknown),
     Frame("malformed", "unknown", Unknown), Frame("04/02", g.state, Unknown)}
    \cup (IF kind = "door" THEN {}
          ELSE {Frame("04/40", s, g.place) : s \in {g.state, "stopped", "open"}})

SendFrame ==
    /\ sent < MaxFrames /\ stream # "stopped"
    /\ sent' = sent + 1
    /\ \E f \in FramesOf(gate) \cup {Frame("reader failed", "unknown", Unknown)} :
         frames' = Append(frames, f)
    /\ UNCHANGED <<kind, gate, poll, command, data, lastKnown, observed, stop, sim,
                   calibrating, stream, moves, commands>>

---------------------------------------------------------------------------
(* The event controller *)

\* async_set_updated_data and async_request_refresh: polls go on, also after one
\* that was refused.
Scheduled == IF poll.pc = "refused" THEN NoPoll ELSE poll

\* effective_live_state: a live position says nothing of the end of a movement.
Effective(f) == IF f.what = "04/40" /\ f.state \notin MovingStates THEN "unknown" ELSE f.state

\* _apply_event: what the event says, over the status there is.
Merged(f) ==
    LET status == IF data.state = "none" THEN [NoStatus EXCEPT !.state = "unknown"] ELSE data
    IN [status EXCEPT !.state = IF Effective(f) = "unknown" THEN @ ELSE Effective(f),
                      !.position = IF f.place = Unknown THEN @ ELSE f.place,
                      !.raw = IF f.place = Unknown THEN @ ELSE f.place]

\* _handle_raw_frame, unless the controller was shut down.
HandleEvent(f) ==
    /\ f.what \in {"door", "04/02", "04/40", "diagnostic"}
    /\ stream' = "active" /\ poll' = Scheduled
    /\ IF f.what = "diagnostic"
       THEN /\ data' = IF data.state = "none" THEN [NoStatus EXCEPT !.state = "unknown"] ELSE data
            /\ UNCHANGED <<lastKnown, observed, stop, sim>>
       ELSE Store(Merged(f))

\* _handle_reader_failure: polling carries the state until the reader is back.
HandleFailure(f) ==
    /\ f.what = "reader failed"
    /\ stream' = "fallback_polling" /\ poll' = Scheduled
    /\ UNCHANGED <<data, lastKnown, observed, stop, sim>>

Ignore(f) ==
    /\ f.what = "malformed" \/ stream = "stopped"
    /\ poll' = IF stream = "stopped" \/ data.state = "none" THEN poll ELSE Scheduled
    /\ UNCHANGED <<data, lastKnown, observed, stop, sim, stream>>

HandleFrame ==
    /\ frames # <<>>
    /\ frames' = Tail(frames)
    /\ \/ stream # "stopped" /\ (HandleEvent(Head(frames)) \/ HandleFailure(Head(frames)))
       \/ Ignore(Head(frames))
    /\ UNCHANGED <<kind, gate, command, calibrating, moves, sent, commands>>

---------------------------------------------------------------------------
(* Polling *)

\* What the controller answers: positions as its kind has them, a live one maybe.
Answers ==
    CASE kind = "door" -> {Status(gate.state, Unknown, Unknown)}
      [] kind = "encoder" -> {[Status(gate.state, gate.place, Unknown) EXCEPT !.encoder = TRUE]}
      [] OTHER -> {Status(gate.state, p, p) : p \in {gate.place, Unknown}}

\* A refresh that is scheduled or, after a refused one, asked for by the user.
PollBegin ==
    /\ poll.pc \in {"none", "refused"} /\ stream # "stopped"
    /\ poll' = [NoPoll EXCEPT !.pc = "reading"]
    /\ UNCHANGED <<kind, gate, frames, command, data, lastKnown, observed, stop, sim,
                   calibrating, stream, moves, sent, commands>>

PollRead ==
    /\ poll.pc = "reading"
    /\ \E s \in Answers : poll' = [pc |-> "read", status |-> s]
    /\ UNCHANGED <<kind, gate, frames, command, data, lastKnown, observed, stop, sim,
                   calibrating, stream, moves, sent, commands>>

\* mutant: while events arrive, an answer is only a sign of life
PollApplyUnlessActive ==
    /\ poll.pc = "read"
    /\ poll' = NoPoll
    /\ IF stream = "active" THEN UNCHANGED <<data, lastKnown, observed, stop, sim>>
       ELSE Store(poll.status)
    /\ stream' = IF stream = "stopped" THEN stream ELSE "active"
    /\ UNCHANGED <<kind, gate, frames, command, calibrating, moves, sent, commands>>

\* The answer reaches the event loop; mark_connected.
PollApply ==
    /\ poll.pc = "read"
    /\ poll' = NoPoll
    /\ Store(poll.status)
    /\ stream' = IF stream = "stopped" THEN stream ELSE "active"
    /\ UNCHANGED <<kind, gate, frames, command, calibrating, moves, sent, commands>>

\* The read failed: the estimate is dropped, the status stays.
ReadFails(next) ==
    /\ poll.pc = "reading"
    /\ poll' = next
    /\ sim' = NoSimulation
    /\ UNCHANGED <<kind, gate, frames, command, data, lastKnown, observed, stop,
                   calibrating, stream, moves, sent, commands>>

\* On a connection error the next poll is scheduled; on an authentication failure
\* (ConfigEntryAuthFailed) Home Assistant asks for credentials and schedules none.
PollFails == ReadFails(NoPoll)
PollRefused == ReadFails(Refused)

---------------------------------------------------------------------------
(* Commands *)

\* _async_send_action and _async_send_dep_action up to their await.
CommandBegin(action) ==
    /\ command.pc = "none" /\ commands < MaxCommands
    /\ commands' = commands + 1
    /\ LET motion == action = "stop" /\ (sim.action # "none" \/ IsMoving(data))
       IN command' = [pc |-> "sending", action |-> action, motion |-> motion,
                      shown |-> IF motion THEN Shown.value ELSE Unknown]
    /\ UNCHANGED <<kind, gate, frames, poll, data, lastKnown, observed, stop, sim,
                   calibrating, stream, moves, sent>>

\* The targets a movement can be simulated towards: none, or inside the travel.
Targets(action) == IF action = "partial" THEN 1..(Full - 1) \cup {Unknown}
                   ELSE {Unknown, 1}

\* The command was accepted; a refresh is requested, unless it is set-position's or a
\* calibration's (refresh=False).
CommandAccepted ==
    /\ command.pc = "sending"
    /\ command' = NoCommand
    /\ poll' \in {poll, Scheduled}
    /\ stop' = CASE command.action = "stop" -> [age |-> 0, motion |-> command.motion]
                 [] OTHER -> NoStop
    /\ CASE command.action = "stop" ->
              /\ lastKnown' = IF command.shown # Unknown THEN command.shown ELSE lastKnown
              /\ sim' = NoSimulation
         [] command.action = "step" -> sim' = NoSimulation /\ UNCHANGED lastKnown
         [] OTHER ->
              /\ \E t \in Targets(command.action) :
                   sim' = Started(IF command.action = "close" THEN "close" ELSE "open", t)
              /\ UNCHANGED lastKnown
    /\ UNCHANGED <<kind, gate, frames, data, observed, calibrating, stream, moves,
                   sent, commands>>

\* The connection or the credentials failed.
CommandFails ==
    /\ command.pc = "sending"
    /\ command' = NoCommand
    /\ sim' = NoSimulation
    /\ UNCHANGED <<kind, gate, frames, poll, data, lastKnown, observed, stop, calibrating,
                   stream, moves, sent, commands>>

\* A calibration run begins (and drops the estimate), or is over.
Calibrate ==
    /\ IF calibrating THEN UNCHANGED <<commands, sim>>
       ELSE /\ commands < MaxCommands /\ commands' = commands + 1
            /\ sim' = NoSimulation
    /\ calibrating' = ~calibrating
    /\ UNCHANGED <<kind, gate, frames, poll, command, data, lastKnown, observed, stop,
                   stream, moves, sent>>

---------------------------------------------------------------------------
(* Time and the end of the entry *)

\* The simulation's task drops the estimate at its deadline.
Tick ==
    /\ stop' = [stop EXCEPT !.age = AtMost(@, RECENT_STOP_STATUS_OVERRIDE + 1)]
    /\ sim' = IF sim.action = "none" \/ sim.left = 0 THEN NoSimulation
              ELSE [sim EXCEPT !.elapsed = AtMost(@, Full),
                               !.started = AtMost(@, START_GRACE), !.left = @ - 1]
    /\ UNCHANGED <<kind, gate, frames, poll, command, data, lastKnown, observed,
                   calibrating, stream, moves, sent, commands>>

\* async_reconnect: background work is cancelled, polling carries the state, and a
\* refresh is requested.
Reconnect ==
    /\ stream # "stopped" /\ command.pc = "none" /\ commands < MaxCommands
    /\ commands' = commands + 1
    /\ sim' = NoSimulation /\ calibrating' = FALSE
    /\ stream' = "fallback_polling" /\ poll' = Scheduled
    /\ UNCHANGED <<kind, gate, frames, command, data, lastKnown, observed, stop,
                   moves, sent>>

\* async_shutdown: the callbacks are removed, frames in the queue are ignored.
Shutdown ==
    /\ stream # "stopped" /\ command.pc = "none"
    /\ sim' = NoSimulation /\ calibrating' = FALSE
    /\ stream' = "stopped" /\ commands' = MaxCommands
    /\ UNCHANGED <<kind, gate, frames, poll, command, data, lastKnown, observed, stop,
                   moves, sent>>

Next ==
    \/ Move \/ SendFrame \/ HandleFrame
    \/ PollBegin \/ PollRead \/ PollApply \/ PollFails \/ PollRefused
    \/ \E a \in {"open", "close", "stop", "partial", "step"} : CommandBegin(a)
    \/ CommandAccepted \/ CommandFails
    \/ Calibrate \/ Tick \/ Reconnect \/ Shutdown

Spec == Init /\ [][Next]_vars

\* The loop handles what is queued, Home Assistant polls a loaded entry while a poll
\* is scheduled, time passes, a calibration ends, and reads do not fail for ever.
Fairness ==
    /\ WF_vars(HandleFrame) /\ WF_vars(poll.pc = "none" /\ PollBegin) /\ WF_vars(PollApply)
    /\ SF_vars(PollRead)
    /\ WF_vars(CommandAccepted \/ CommandFails)
    /\ WF_vars(calibrating /\ Calibrate)
    /\ WF_vars(Tick)
FairSpec == Spec /\ Fairness

---------------------------------------------------------------------------
(* Properties *)

\* Every value is of its type; whatever is shown lies in the travel.
TypeOK ==
    /\ gate \in GateStates
    /\ data.state \in States \cup {"none"} /\ data.position \in Positions
    /\ data.raw \in Positions
    /\ lastKnown \in Positions /\ Shown.value \in Positions
    /\ stop.age \in 0..(RECENT_STOP_STATUS_OVERRIDE + 1)
    /\ sim.action \in {"none", "open", "close"} /\ sim.anchor \in Places
    /\ sim.left \in 0..(Full + START_GRACE + TIMEOUT_PADDING)
    /\ stream \in {"idle", "active", "fallback_polling", "stopped"}

\* position.py:150-166, coordinator.py:523-525: while a local stop is held, no
\* answer and no frame makes the gate shown as moving or at an end.
StopIsHeld ==
    [][InHold /\ stop.motion /\ stop' = stop /\ data' # data
         => data'.state \notin {"open", "closed"} \cup MovingStates]_vars

\* position.py:182-193, 400-407: after a poll, a gate shown as open or closed with
\* no estimate running is shown at that end or nowhere.
PolledEndAgrees ==
    [][poll.pc = "read" /\ poll'.pc = "none" /\ data'.state \in {"open", "closed"}
         /\ sim'.action = "none"
         => Shown'.value \in {Unknown, EndOf(data'.state)}]_vars

\* coordinator.py:248-272: whatever overtook what, once the gate rests the polls
\* bring its state to the entities, and no estimate or mask outlives it, unless the
\* credentials are refused and polling waits for new ones.
ShownStateSettles ==
    <>[](gate.state \notin MovingStates /\ stream # "stopped" /\ poll.pc # "refused")
    => <>[](data.state = gate.state /\ sim.action = "none")
=============================================================================
