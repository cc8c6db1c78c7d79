--------------------------- MODULE PositionTarget ---------------------------
(***************************************************************************)
(* Set-position and the movement commands of one coordinator               *)
(* (position.py, coordinator.py): the service calls of Home Assistant, the *)
(* watcher task each set-position call leaves behind to stop the gate, the *)
(* executor jobs that carry their commands, and the gate.                  *)
(*                                                                         *)
(* The gate has places 0 (closed) to Full (open) and moves one place per   *)
(* Tick.  A job runs when it wins the router's lock, which is not granted  *)
(* in order; a coroutine that is cancelled leaves its job behind unless no *)
(* thread had taken it.  A service call is a request; the watcher of       *)
(* request n is watcher n.  The calibration run a request interrupts first *)
(* is Calibration's, the display of the position StatusStream's.           *)
(***************************************************************************)
EXTENDS Naturals, FiniteSets, FiniteSetsExt

CONSTANTS Callers,         \* the platforms: each calls its services one at a time
          Offered,         \* the services of each: "position" and commands
          Full,            \* bound: places of the gate's travel
          StartGrace,      \* 8 s for a movement to begin, in Ticks
          MaxRequests,     \* bound: service calls
          MaxOutside,      \* bound: movements the integration did not ask for
          LateStarts,      \* {FALSE} or BOOLEAN: may the gate start late?
          Rests            \* states of a gate at rest between its ends

ASSUME TargetAssumption ==
    /\ IsFiniteSet(Callers)
    /\ Offered \in [Callers -> SUBSET {"position", "open", "close", "stop", "cancel"}]
    /\ Full \in Nat \ {0} /\ StartGrace \in Nat
    /\ MaxRequests \in Nat /\ MaxOutside \in Nat
    /\ LateStarts \subseteq BOOLEAN
    /\ Rests \subseteq {"stopped", "partially_open"} /\ "stopped" \in Rests

\* An entry has one cover, whose services follow each other (cover.py:24).
ASSUME OnePositioner ==
    \A c, d \in Callers : "position" \in Offered[c] /\ "position" \in Offered[d] => c = d

VARIABLES gate,        \* [motion, place, rest, due]
          slot,        \* _position_target_task: a watcher, or NoWatcher
          watcher,     \* the target-position watchers
          caller,      \* the service calls in progress
          jobs,        \* commands handed to the executor, not yet carried out
          requests,    \* service calls so far
          served,      \* the request whose command the gate carried out last
          outside      \* movements begun by somebody else so far

vars == <<gate, slot, watcher, caller, jobs, requests, served, outside>>

Watchers == 1..MaxRequests
NoWatcher == 0
NoPlace == Full + 1
Places == 0..Full
Motions == {"open", "close"}
NoDelay == Full + 1

---------------------------------------------------------------------------
(* The gate *)

Moving(action) == IF action = "open" THEN "opening" ELSE "closing"
Heading(state) == IF state = "opening" THEN "open" ELSE "close"

StateOf(g) == CASE g.motion # "still" -> g.motion
                [] g.motion = "still" /\ g.place = 0 -> "closed"
                [] g.motion = "still" /\ g.place = Full -> "open"
                [] OTHER -> g.rest

\* A controller may leave the position out of an answer.
Readings(g) == {[state |-> StateOf(g), place |-> p] : p \in {g.place, NoPlace}}

EndOf(action) == IF action = "open" THEN Full ELSE 0
Step(g) == IF g.motion = "opening" THEN g.place + 1 ELSE g.place - 1

\* The gate after one Tick: an announced movement begins, a movement goes on.
Advanced(g) ==
    IF g.due # "none"
    THEN [g EXCEPT !.motion = Moving(g.due), !.due = "none", !.rest = "stopped"]
    ELSE IF g.motion = "still" THEN g
    ELSE [g EXCEPT !.place = Step(g),
                   !.motion = IF Step(g) = EndOf(Heading(g.motion))
                              THEN "still" ELSE g.motion]

\* The gate after a command: it may start later (a pre-flash), never at its end.
Obeyed(g, what) ==
    IF what = "stop"
    THEN {[g EXCEPT !.motion = "still", !.rest = "stopped", !.due = "none"]}
    ELSE IF g.place = EndOf(what)
    THEN {[g EXCEPT !.motion = "still", !.due = "none"]}
    ELSE {[g EXCEPT !.motion = IF late THEN "still" ELSE Moving(what),
                    !.due = IF late THEN what ELSE "none", !.rest = "stopped"]
          : late \in LateStarts}

---------------------------------------------------------------------------
(* Helpers of position.py *)

Apart(p, q) == IF p > q THEN p - q ELSE q - p

\* _position_reached and _raw_reached
PositionReached(action, place, stop) ==
    IF action = "open" THEN place >= stop ELSE place <= stop

\* _live_position_can_adjust_stop: the reading has left the start.
Left(action, start, place) ==
    IF action = "open" THEN place > start ELSE place < start

\* Where a calibration profile makes the watcher send its stop.
StopPlaces(target, action) ==
    {target} \cup {p \in Places : \/ p + 1 = target /\ action = "open"
                                  \/ p = target + 1 /\ action = "close"}

Idle == [pc |-> "idle", n |-> 0, joins |-> NoWatcher, action |-> "none", target |-> 0,
         start |-> 0]
NoReading == [state |-> "none", place |-> NoPlace, over |-> FALSE, late |-> FALSE]
NoTask == [pc |-> "none", action |-> "open", stop |-> 0, start |-> 0,
           raw |-> FALSE, timed |-> FALSE, left |-> NoDelay, grace |-> 0,
           started |-> FALSE, seen |-> NoReading]

\* The watchers a profile may ask for: by position, by time, by time and encoder.
\* (The clock for the movement to begin plays no part in the timed ones.)
Plans(action, stop, start) ==
    LET task == [NoTask EXCEPT !.pc = "asleep", !.action = action, !.stop = stop]
    IN {[task EXCEPT !.grace = StartGrace]}
       \cup {[task EXCEPT !.timed = TRUE, !.start = start, !.raw = raw,
                          !.left = Apart(stop, start)] : raw \in BOOLEAN}

Ended == [NoTask EXCEPT !.pc = "ended"]

\* finally: the slot is emptied by the task it holds.
Freed(w) == IF slot = w THEN NoWatcher ELSE slot

Live(w) == watcher[w].pc \in {"asleep", "woken", "stopping", "stopped"}

---------------------------------------------------------------------------
Init ==
    /\ gate \in [motion : {"still"}, place : Places, rest : {"stopped"},
                 due : {"none"}]
    /\ slot = NoWatcher
    /\ watcher = [w \in Watchers |-> NoTask]
    /\ caller = [c \in Callers |-> Idle]
    /\ jobs = {}
    /\ requests = 0 /\ served = 0 /\ outside = 0

---------------------------------------------------------------------------
(* Service calls *)

Send(who, n, what) == jobs' = jobs \cup {[who |-> who, n |-> n, what |-> what]}

\* _async_cancel_position_target up to its await: the slot is emptied first.
\* A job no thread has taken is cancelled with its task.
CancelledLater(w) == watcher  \* mutant: the slot is emptied, the task goes on
Cancelled(w) == [watcher EXCEPT ![w].pc = "cancelled"]
CancelTarget ==
    /\ slot' = NoWatcher
    /\ IF slot # NoWatcher /\ Live(slot)
       THEN /\ watcher' = Cancelled(slot)
            /\ \E taken \in BOOLEAN :
                 jobs' = {j \in jobs : taken \/ j.who # "watcher" \/ j.n # slot}
       ELSE UNCHANGED <<watcher, jobs>>

Begin(c, action, target, start) ==
    caller' = [caller EXCEPT ![c] =
        [pc |-> "joining", n |-> requests', action |-> action, target |-> target,
         start |-> start,
         joins |-> IF slot # NoWatcher /\ Live(slot) THEN slot ELSE NoWatcher]]

\* async_send_action, and the cancellation of async_reconnect and async_shutdown
Command(c, action) ==
    /\ caller[c].pc = "idle" /\ requests < MaxRequests
    /\ requests' = requests + 1
    /\ Begin(c, action, NoPlace, 0)
    /\ CancelTarget
    /\ UNCHANGED <<gate, served, outside>>

\* async_set_position.  What is shown - a position, possibly estimated or old,
\* or none - and whether the last status moves are StatusStream's: any here.
\* Without a position it refreshes, and fails when there is still none;
\* endpoints and "already there" are plain commands; anything else is watched.
SetPosition(c, target) ==
    /\ caller[c].pc = "idle" /\ requests < MaxRequests
    /\ requests' = requests + 1
    /\ \E current \in Places \cup {NoPlace}, moving \in BOOLEAN :
         LET action == IF current = NoPlace THEN "none"
                       ELSE IF target = 0 THEN "close"
                       ELSE IF target = Full THEN "open"
                       ELSE IF target = current THEN IF moving THEN "stop" ELSE "none"
                       ELSE IF target > current THEN "open" ELSE "close"
             watched == target \in Places \ {0, Full, current}
         IN IF action = "none"
            THEN UNCHANGED <<caller, slot, watcher, jobs>>
            ELSE /\ Begin(c, action, IF watched THEN target ELSE NoPlace,
                          IF watched THEN current ELSE 0)
                 /\ CancelTarget
    /\ UNCHANGED <<gate, served, outside>>

\* The finally clause of the watcher it cancelled has run; the command goes out.
Joined(c) == \A w \in Watchers : caller[c].joins = w => watcher[w].pc = "ended"
SendCommand(c) ==
    /\ caller[c].pc = "joining" /\ Joined(c)
    /\ IF caller[c].action = "cancel"
       THEN caller' = [caller EXCEPT ![c] = Idle] /\ UNCHANGED jobs
       ELSE /\ caller' = [caller EXCEPT ![c].pc = "sending"]
            /\ Send("caller", caller[c].n, caller[c].action)
    /\ UNCHANGED <<gate, slot, watcher, requests, served, outside>>

\* The command was accepted: a plain command returns; set-position creates
\* the watcher and overwrites the slot.
CommandAccepted(c) ==
    /\ caller[c].pc = "accepted"
    /\ caller' = [caller EXCEPT ![c] = Idle]
    /\ IF caller[c].target = NoPlace
       THEN UNCHANGED <<slot, watcher>>
       ELSE \E stop \in StopPlaces(caller[c].target, caller[c].action) :
              /\ slot' = caller[c].n
              /\ \E t \in Plans(caller[c].action, stop, caller[c].start) :
                   watcher' = [watcher EXCEPT ![caller[c].n] = t]
    /\ UNCHANGED <<gate, jobs, requests, served, outside>>

\* The connection or the credentials failed: the call raises.
CommandFailed(c) ==
    /\ caller[c].pc = "failed"
    /\ caller' = [caller EXCEPT ![c] = Idle]
    /\ UNCHANGED <<gate, slot, watcher, jobs, requests, served, outside>>

---------------------------------------------------------------------------
(* The watcher: _async_stop_at_position *)

\* The poll delay is over and the executor reads the status.
Wake(w) ==
    /\ watcher[w].pc = "asleep"
    /\ \E reading \in Readings(gate) :
         watcher' = [watcher EXCEPT
            ![w].pc = "woken",
            ![w].seen = [state |-> reading.state, place |-> reading.place,
                         over |-> watcher[w].left = 0,
                         late |-> watcher[w].grace = 0]]
    /\ UNCHANGED <<gate, slot, caller, jobs, requests, served, outside>>

\* The read failed: the watcher ends and the gate goes on.
WakeFails(w) ==
    /\ watcher[w].pc = "asleep"
    /\ watcher' = [watcher EXCEPT ![w] = Ended]
    /\ slot' = Freed(w)
    /\ UNCHANGED <<gate, caller, jobs, requests, served, outside>>

InMotion(t) == t.seen.state = Moving(t.action)

\* A live position that can correct the timing: it moved, at a credible speed.
MayAdjust(t) == /\ t.timed /\ InMotion(t)
                /\ t.seen.place # NoPlace
                /\ Left(t.action, t.start, t.seen.place)

\* mutant: a position that is not known counts as reached
StopDueUnknown(t, credible) ==
    \/ (~t.timed \/ t.raw) /\ PositionReached(t.action, t.seen.place, t.stop)
    \/ t.timed /\ t.seen.over

\* Is it time to send the stop?
StopDue(t, credible) ==
    \/ /\ t.seen.place # NoPlace
       /\ t.raw \/ ~t.timed \/ (MayAdjust(t) /\ credible)
       /\ PositionReached(t.action, t.seen.place, t.stop)
    \/ t.timed /\ t.seen.over

\* mutant: only an end of the travel ends the watcher
MovementOverAtEnds(t) == ~InMotion(t) /\ ~t.timed /\ t.seen.state \in {"open", "closed"}

\* Is the movement over without a stop of ours?
MovementOver(t) ==
    /\ ~InMotion(t) /\ ~t.timed
    /\ \/ t.seen.state \in {"open", "closed"}
       \/ t.started /\ t.seen.state = "stopped"
       \/ ~t.started /\ t.seen.late

\* The timing after a credible live position: never later than it was (so that
\* a position already used, live_adjustment_position, would change nothing).
Rebased(t, credible) ==
    IF MayAdjust(t) /\ credible
    THEN [t EXCEPT !.left = Min({t.left, Apart(t.stop, t.seen.place)})]
    ELSE t

\* One turn of the loop after its read.
Decide(w) ==
    /\ watcher[w].pc = "woken"
    /\ \E credible \in BOOLEAN, t \in {[watcher[w] EXCEPT
            !.started = ~watcher[w].timed /\ (@ \/ InMotion(watcher[w]))]} :
         \/ /\ StopDue(t, credible)
            /\ watcher' = [watcher EXCEPT ![w] = [t EXCEPT !.pc = "stopping", !.seen = NoReading]]
            /\ Send("watcher", w, "stop")
            /\ UNCHANGED slot
         \/ /\ ~StopDue(t, credible) /\ MovementOver(t)
            /\ watcher' = [watcher EXCEPT ![w] = Ended]
            /\ slot' = Freed(w)
            /\ UNCHANGED jobs
         \/ /\ ~StopDue(t, credible) /\ ~MovementOver(t)
            /\ watcher' = [watcher EXCEPT ![w] = [Rebased(t, credible)
                                               EXCEPT !.pc = "asleep", !.seen = NoReading]]
            /\ UNCHANGED <<slot, jobs>>
    /\ UNCHANGED <<gate, caller, requests, served, outside>>

\* mutant: a task that no longer owns the slot does not come to its end
UnwindOwner(w) ==
    /\ watcher[w].pc \in {"stopped", "cancelled"} /\ slot = w
    /\ watcher' = [watcher EXCEPT ![w] = Ended]
    /\ slot' = NoWatcher
    /\ UNCHANGED <<gate, caller, jobs, requests, served, outside>>

\* Its stop was sent or failed, or it was cancelled: the finally clause.
Unwind(w) ==
    /\ watcher[w].pc \in {"stopped", "cancelled"}
    /\ watcher' = [watcher EXCEPT ![w] = Ended]
    /\ slot' = Freed(w)
    /\ UNCHANGED <<gate, caller, jobs, requests, served, outside>>

---------------------------------------------------------------------------
(* The executor, the gate and time *)

\* The coroutine that waits for the job, if it still waits, learns how it ended.
Answer(j, outcome) ==
    IF j.who = "caller"
    THEN /\ caller' = [c \in Callers |->
              IF caller[c].pc = "sending" /\ caller[c].n = j.n
              THEN [caller[c] EXCEPT !.pc = outcome] ELSE caller[c]]
         /\ UNCHANGED watcher
    ELSE /\ watcher' = [watcher EXCEPT ![j.n].pc = IF @ = "stopping" THEN "stopped" ELSE @]
         /\ UNCHANGED caller

CarryOut(j) ==
    /\ jobs' = jobs \ {j}
    /\ gate' \in Obeyed(gate, j.what)
    /\ served' = IF j.who = "caller" THEN j.n ELSE served
    /\ Answer(j, "accepted")
    /\ UNCHANGED <<slot, requests, outside>>

\* An exchange that fails may still have reached the gate.
JobFails(j) ==
    /\ jobs' = jobs \ {j}
    /\ gate' \in {gate} \cup Obeyed(gate, j.what)
    /\ served' = IF j.who = "caller" THEN j.n ELSE served
    /\ Answer(j, "failed")
    /\ UNCHANGED <<slot, requests, outside>>

\* Time passes: the gate moves on, every clock runs down.
Tick ==
    /\ gate' = Advanced(gate)
    /\ watcher' = [w \in Watchers |->
         IF ~Live(w) THEN watcher[w]
         ELSE [watcher[w] EXCEPT
                 !.left = IF @ \in {0, NoDelay} THEN @ ELSE @ - 1,
                 !.grace = IF @ = 0 THEN 0 ELSE @ - 1]]
    /\ UNCHANGED <<slot, caller, jobs, requests, served, outside>>

\* The wall switch, a remote or an obstacle.
Outside ==
    /\ outside < MaxOutside
    /\ outside' = outside + 1
    /\ gate' \in {[gate EXCEPT !.motion = "still", !.rest = r, !.due = "none"] : r \in Rests}
                 \cup UNION {Obeyed(gate, a) : a \in Motions}
    /\ UNCHANGED <<slot, watcher, caller, jobs, requests, served>>

Next ==
    \/ \E c \in Callers :
         \/ \E a \in Offered[c] \ {"position"} : Command(c, a)
         \/ "position" \in Offered[c] /\ \E t \in Places : SetPosition(c, t)
         \/ SendCommand(c)
         \/ CommandAccepted(c)
         \/ CommandFailed(c)
    \/ \E w \in Watchers : Wake(w) \/ WakeFails(w) \/ Decide(w) \/ Unwind(w)
    \/ \E j \in jobs : CarryOut(j) \/ JobFails(j)
    \/ Tick \/ Outside

Spec == Init /\ [][Next]_vars

\* The event loop runs what is ready, the executor works its jobs off, time passes.
JobsRun == \E j \in jobs : CarryOut(j) \/ JobFails(j)
Fairness ==
    /\ \A c \in Callers : /\ WF_vars(SendCommand(c))
                          /\ WF_vars(CommandAccepted(c) \/ CommandFailed(c))
    /\ \A w \in Watchers : /\ WF_vars(Wake(w) \/ WakeFails(w))
                           /\ WF_vars(Decide(w)) /\ WF_vars(Unwind(w))
    /\ WF_vars(JobsRun) /\ WF_vars(Tick)
FairSpec == Spec /\ Fairness

---------------------------------------------------------------------------
(* Properties *)

Outcomes == {"idle", "joining", "sending", "accepted", "failed"}
Phases == {"none", "asleep", "woken", "stopping", "stopped", "cancelled", "ended"}

\* Every value is of its type; the slot never points to a task that is over.
TypeOK ==
    /\ gate.motion \in {"opening", "closing", "still"}
    /\ gate.place \in Places /\ gate.rest \in Rests
    /\ gate.due \in Motions \cup {"none"}
    /\ slot \in {NoWatcher} \cup {w \in Watchers : watcher[w].pc \notin {"none", "ended"}}
    /\ \A w \in Watchers : /\ watcher[w].pc \in Phases
                           /\ watcher[w].left \in 0..NoDelay
                           /\ watcher[w].grace \in 0..StartGrace
    /\ \A c \in Callers : caller[c].pc \in Outcomes
    /\ requests \in 0..MaxRequests /\ served \in 0..requests /\ outside \in 0..MaxOutside

\* position.py:69-79 with 591-602: whatever a task is doing, a watcher that can
\* still stop the gate is the one the slot holds, so that the next command can
\* cancel it.
WatcherIsCancellable == \A w \in Watchers : Live(w) => slot = w

\* position.py:634-657: when nobody else moves the gate, the stop of a watcher
\* that follows the reported position is never carried out short of its place,
\* however old its reading is.
StopsNotShort ==
    [][\A w \in Watchers :
         /\ watcher[w].pc = "stopping" /\ watcher'[w].pc = "stopped"
         /\ ~watcher[w].timed /\ outside = 0 /\ served = w
         => IF watcher[w].action = "open" THEN gate'.place >= watcher[w].stop
                                          ELSE gate'.place <= watcher[w].stop]_vars

\* position.py:629-690: a watcher ends - the gate comes to rest, its time is
\* over, or it is cancelled - unless the gate rests partially open for good.
WatchersEnd ==
    \A w \in Watchers :
        Live(w) ~> (~Live(w) \/ [](StateOf(gate) = "partially_open"))

\* coordinator.py:411-418, position.py:77-79: a service call returns although it
\* waits for the watcher it cancels.
RequestsReturn ==
    \A c \in Callers : (caller[c].pc # "idle") ~> (caller[c].pc = "idle")

\* docs/position_calibration.md:218-224: from a gate at rest, set-position sends
\* the movement, follows the position and sends stop.  A watcher that was not
\* cancelled and met no error leaves only when the movement was seen, or the time
\* the code gives it to begin is over, or the stop was sent.
WatcherSeesItsMovement ==
    [][\A w \in Watchers :
         watcher[w].pc = "woken" /\ watcher'[w].pc = "ended"
         => watcher[w].started \/ watcher[w].seen.late]_vars

\* position.py:69-79, coordinator.py:411-418: a command cancels the watcher of the
\* request before it, so the stop of a watcher never reaches the gate after the
\* command of a later request.
StopIsForOwnMovement ==
    [][\A j \in jobs \ jobs' :
         j.who = "watcher" /\ requests' = requests /\ gate' # gate => served = j.n]_vars
=============================================================================
