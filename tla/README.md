# Verification of the Nice BiDi-WiFi integration

TLA+ specifications of `custom_components/nice_bidiwifi`, a Home Assistant
integration that drives gate controllers over a local TLS connection or a cloud
relay. TLC checks small instances; the TLA+ proof system proves theorems for
every value of the constants. Paths below are relative to
`custom_components/nice_bidiwifi` unless they begin with `docs/` or `tests/`.

## 1. The system

Two kinds of threads run the code. Coroutines (polls, services, background
tasks) run on Home Assistant's event loop, one at a time, and may be overtaken
only at an `await`. Blocking operations run as jobs on executor threads, and one
reader thread per connection reads the socket.

| part | state it keeps | operations | talks to |
|---|---|---|---|
| coordinator (`coordinator.py`) | connection state, last status, caches, update interval | poll, commands, reconnect, shutdown | calls the router on an executor thread, cancels background tasks, writes health |
| router (`connection_router.py`) | selected route, LAN failure and recovery counters, probe timer, a lock | read, write, close | calls one or two clients per operation, writes health |
| health (`connection.py`) | active route, state of each route | set_route_state, mark_overall_state | written by executor threads and the event loop, without a lock |
| client (`client.py`) | transport, session, sequence number, a lock | connect, handshake, read with one reconnect, write once | uses a dispatcher |
| dispatcher (`transport/dispatcher.py`) | pending exchanges, callbacks, reader thread, closed and failure flags | exchange, add and remove callback, close | threads of the client, the reader thread, event callbacks |
| transports (`transport/lan.py`, `relay.py`) | socket, byte buffer | send, read one frame, close | the device |
| calibration (`calibration.py`, `_state`, `_storage`, `_estimator`) | lifecycle, background task, profile, store | load, start, cancel, run, save | sends gate commands, reads status |
| position (`position.py`, `models/position.py`) | target watcher task, simulated position, stop hint | set position, stop at position | commands, calibration's profile |
| events (`controllers/events.py`) | callbacks, history, stream state | register, apply frame, failure, shutdown | reader thread to event loop |
| administration (`controllers/administration.py`) | logs, clock, reboot confirmation | name, clock, reboot, logs | router writes |
| protocol (`protocol/nhk`, `protocol/t4`) | none | build and parse frames | client |
| set-up (`__init__.py`, `models/config.py`) | entry data | set up, unload, migrate | coordinator |
| config flow, cloud account (`config_flow.py`, `cloud/`) | the data of open forms, an account while it is asked | forms, connection test, import, reauthentication | entries, a client of its own, HTTP |
| entities | the value on display | availability, presses | coordinator |
| reports, diagnostics | none | formatting | coordinator |

What is hard: the health object is written from two threads; a caller's outcome
is handled after the router has moved on; a failure may move the selection while
a command must not be repeated; the event loop itself blocks on the router's
lock; a response may come before its caller waits, twice, or late; the reader
ends by itself when nobody needs it; a background run can be interrupted at
every await, by several platforms at once; a cancelled coroutine's command stays
on the executor; the profile outlives the process. `PROJECT.json` lists these
hazards at their lines.

What makes each part correct:

- router: a mode's routes only, no command twice, fail-over only after
  consecutive LAN failures, return only after consecutive successes and a
  minimum stay, service while the relay works, no deadlock;
- health: once the calls that overlapped are done the active route is a connected
  one;
- dispatcher: a response goes to the exchange that asked, a timeout is never
  reported for a response that was routed in time, a terminal state releases
  everyone, close leaves no reader;
- calibration: the displayed lifecycle is true, no run escapes interruption,
  interrupted runs are over before the interrupting command acts, every command
  comes back and is sent, a saved profile is one the loader accepts;
- calibration runs: each wait ends, a finished run leaves the gate closed, only
  attempts of a standing gate are learned from, and of a steady gate's run-on what
  the wait for it to settle can see (all of it, if it fits);
- position: no watcher out of reach of the next command, none stops short, each
  ends, a service comes back from the task it cancels;
- status: a held stop is not overwritten by what was sent before it, an end is
  shown where it is, and what is shown settles whatever overtook what;
- client: one connection at a time, commands at most once, reads survive the loss
  of an idle session, DMP polling is left only where there is no DMP;
- entries and flows: one entry per accessory, nothing saved that was not tested,
  nothing running on data that was replaced;
- controls: nothing the device excludes is sent, what is reported as verified is
  on the device, the settings shown are in the end the device's.

## 2. Modules

| module | what it is |
|---|---|
| `RouteSelection` | the fallback policy as a promise, with no counters or timers |
| `ConnectionRouter` | router, health and the coordinator's handling of outcomes; implements `RouteSelection` |
| `ConnectionRouterProofs` | its theorems |
| `MCConnectionRouter` | its instances for TLC |
| `ResponseDispatcher`, `MCResponseDispatcher` | exchanges, the reader thread, close |
| `ResponseDispatcherProofs` | its theorems |
| `Calibration`, `MCCalibration` | lifecycle, cancellation by services, the store, restarts |
| `CalibrationProofs` | its theorems |
| `CalibrationEstimator` | the arithmetic: choice of a sample, medians, interpolation of thresholds |
| `CalibrationRoutine`, `MCCalibrationRoutine` | what a run does with the gate and learns from it |
| `CalibrationRoutineProofs` | its theorems |
| `PositionTarget`, `MCPositionTarget` | set-position, its watcher, commands on the executor, the moving gate |
| `PositionTargetProofs` | its theorems |
| `StatusStream`, `MCStatusStream` | polls, frames, the stop mask and the simulated position: what is shown |
| `ClientSession`, `MCClientSession` | sessions with the interface and the calls that share one client |
| `ClientSessionProofs` | its theorems |
| `EntrySetup`, `MCEntrySetup` | config flows, cloud account, migration, set-up and reload of entries |
| `EntrySetupProofs` | its theorems |
| `DeviceControls`, `MCDeviceControls` | capabilities, settings, T4 actions, administration |
| `CoordinatorProofs` | the theorems of `StatusStream` and of `DeviceControls` |

The modules meet in shared ground rather than in one product, which TLC could not
search: one client call is an outcome for `ConnectionRouter` and a session's story
for `ClientSession`; a run is a task with commands for `Calibration` and a list of
legs for `CalibrationRoutine`; a poll is a status read at some moment for
`StatusStream`, a scan for `DeviceControls` and a chain of requests for
`ClientSession`. Each says in its heading what it leaves to which other.

Beside some definitions stands a faulty variant of the same code (`fault:`,
`Fault:` or `mutant:` in the comment): a property is only worth stating if the variant violates it. They are
not used by any specification.

### ConnectionRouter

`selected`, `localFailures`, `recoverySuccesses`, `probeInterval`, `probeIn` are
the router's fields; `_next_local_probe` is the number of ticks left. A tick is
`LOCAL_PROBE_INTERVAL_SECONDS`. `active` and `routeState` are the health.
`holder` is the caller inside the lock; `route`, `outcome`, `probing` its current
client call. `Request` is the beginning of a poll, command or reconnect on the
event loop; `Acquire` enters `_read` or `_write`; `CallReturns` ends a client
call; `MarkState` and the actions built on `Marked` are the two assignments of
`set_route_state`, the second together with the counters and the decision that
follows (`OperationEnds`, `ReadFailsOver`, `WriteFailsOver`, `ProbeFails`,
`ProbeSucceeds`). Back on the loop, `HandleSuccess`, `HandleFailure`,
`CloseClients`, `LoopState` and `LoopActive` are `_set_connection_state`, again
as two assignments. `failStreak`, `okStreak`, `stay`, `lastCall`, `callCount`,
`authSeen` are history. The INFO read that may follow a status read in the same
job is a second operation whose failure is swallowed.

### ResponseDispatcher

One step is a section under the condition variable or a blocking call. `pc` is a
thread's place in `exchange()`, `reader` the reader thread's place in
`_reader_loop`, `closer` the place of `close()`. A frame is the number of the
request it answers, 0 if it answers none: two exchanges never expect the same
response, since the client numbers its requests. Deadlines are the action
`Expire`. The device, the peer and the callback owners are the environment.

### Calibration

`lifecycle` is the state machine, `slot` the attribute that holds the task,
`task` each run's coroutine, `job` the command each coroutine left on the
executor, `disk` the file. `Command`, `Commanded`, `Complete`, `Saved`, `Fail`
and `Interrupted` are the run; `Ask`, `CancelRun`, `Join`, `Stopped`, `Sent` are a
service with its `_async_cancel_calibration`; `AskRun` and `StartRun` the start
button; `Restart` is a crash or a restart with `async_load_calibration`. Services
of one platform are serialised by `PARALLEL_UPDATES = 1`, so a platform is a lane.
Home Assistant runs a new task up to its first await at once, so a run is never
interrupted before its `try`. An interrupted save may have reached the disk.

### CalibrationEstimator, CalibrationRoutine

`Select`, `AttemptsStable`, `Interpolate` and the medians are the functions of
`calibration_estimator.py` over whole units instead of floats. In the routine a
run is a list of legs (`todo`): to an end, timed full travels, an approach to each
target from each end. `Step` is what the coroutine does between two sleeps: the
gate moves by a unit, the status is read through the stop mask (`hint`) and
handled according to `phase`. `source` is `_CalibrationPositionSource`: which of
encoder, percentage, live raw scale or time the run trusts. `learning` holds the
attempts of the current target, `samples` and `travel` what is kept.
`Interrupted` is a failed read, `Stall` a gate that stops by itself; `habits` says
how a gate reports its position and how far it runs on after a stop.

### PositionTarget

The gate has places; `Tick` moves it. A service call (`Command`, `SetPosition`)
cancels the watcher in `slot` and waits for its `Unwind`, then hands its command
to the executor (`SendCommand`, `jobs`) and, for a target, leaves a watcher.
`Wake` and `Decide` are one round of the watcher's loop before and after its read.
`CarryOut` lets jobs win the router's lock in any order; a coroutine that is
cancelled may leave its job behind. `Outside` is a movement by a remote control.

### StatusStream

`PollBegin`, `PollRead`, `PollApply` are a refresh: the read in the thread, the
result on the loop. It may fail (`PollFails`) or be refused (`PollRefused`), after
which Home Assistant schedules no further one until something asks for it or stores
a status (`Scheduled`). `SendFrame` and `HandleFrame` are the reader thread's queue.
Both end in the normalisation of `position.py`: mask (`Hinted`), live scale,
held position, simulation (`sim`, advanced by `Tick`). `Shown` is
`display_position`. `CommandBegin` remembers what was shown before the await,
`CommandAccepted` starts or ends a simulation. `kind` is how a controller reports.

### ClientSession

`op` is the operation that holds the client's lock, `session` its transport, key,
sequence number, requests on the way and frames come back. `Open`, `Send`,
`Receive`, `TimedOut`, `Broken` are its steps; `Failed` decides between a
reconnect and an error. `PollGoesOn` is `_fetch_status` choosing what to ask next
(DMP scan, INFO, NHK status, nothing) and `UserGoesOn` the administration
controller's sequences; `Unload` is the shutdown. The config flow's connection
test is the client of `owner = "setup"`.

### EntrySetup

`flows` are open config flows, each between two forms or in an await (`busy`);
`entries` the config entries with what was saved and what the running coordinator
was made from (`using`). Every step of the flow is an action, split where it
awaits: a connection test, a login, the import flows of further accessories.
`Migrate`, `SetUp`, `Reload`, `PollRefused` are `__init__.py` and Home Assistant's
part; `Move` gives an accessory another address, `Restart` drops the flows.

### DeviceControls

`Called`, `Begins`, `Resumes`, `Executes`, `ReadsBack`, `Finishes` are a service
from the press to its end: the checks on the loop, the wait for a watcher or a run
it cancels, the job, the read-back. `PollStarts` to `PollPublishes` are a refresh
with the extended scan, its cache and the INFO that capabilities are built from;
the steps on the thread and those on the loop are apart. `EventArrives`, `SetUp`
(which entities are built), `GateStarts`, `ScanAges` and `RunEnds` are the rest.

## 3. Runs

| run | result | shows |
|---|---|---|
| `router_policy` | pass | one operation at a time, all modes and operations, both routes up, down or (rejecting credentials): types, discipline, implementation of `RouteSelection` |
| `router_service` | pass | a poll and a command at once in fallback mode, in every order: operations finish, the selection settles, service continues, and the active route is a connected one once both are done |
| `dispatcher_concurrent` | pass | two threads, a callback, late, repeated and unsolicited frames, lost peer, close: answers win over deadlines, terminal states release every exchange, close leaves no reader |
| `calibration_runs` | pass | two runs, two lanes, failures, interruptions, a restart |
| `routine_runs` | pass | whole runs on gates of seven ways of reporting: they end, leave the gate closed, trust a refused stop only at rest, learn of a steady gate's run-on exactly what the wait sees |
| `position_targets` | pass | two calls, of the cover and of a button, late starts, failed reads and jobs, movements of others: cancellable watchers, no stop short of the target, everything ends |
| `status_stream` | pass | a poll that may be refused, a frame and a command in every order: a held stop stays, ends agree, the display settles while polls go on |
| `session` | pass | two polls, a request, an unload, two faults: one connection, commands at most once, one drop forgiven, DMP left only where missing |
| `entry` | pass | two flows, two accessories, moves, a restart, old entries: one entry each, nothing untested saved, nothing stale running |
| `controls` | pass | two services, a poll, events and one fault: no excluded action, verified names, settings that settle |
| `calibration_time_profile` | violation | a time-only profile is refused after a restart (`docs/position_calibration.md:318`) |
| `calibration_refused_command` | violation | a command during the save of a finished run fails and is not sent |

Counterexamples stated beside the model and checked with it once, but not among
the runs: TLC finds each of these properties violated by what the code does.

| property | what happens |
|---|---|
| `ConnectionRouter!ActiveIsConnected` | with two callers, the loop and an executor thread interleave in `set_route_state` and leave a disconnected route active, against "keep the active route consistent" (`connection.py:69`), until the slower operation is handled; `RestingRouteIsConnected` is what holds instead |
| `ConnectionRouter!RouteStatesReflectCalls` | a LAN probe that is refused is charged to the relay, the active route when the error is handled (`coordinator.py:239`), against "sensors reflect actual behavior" (`docs/beta_testing.md:58`) |
| `CalibrationRoutine!LearnsAtRest` | the mask shows `stopped` for 20 s after the run's own stop, so a gate that runs on is taken for settled and learned from (`docs/position_calibration.md:178`); `SteadyGateIsLearned` says what it is learned as |
| `ResponseDispatcher!ReaderServes` | `start()` takes a reader that is about to leave for one that reads (`transport/dispatcher.py:104`); the client's lock keeps it out of reach |
| `PositionTarget!WatcherSeesItsMovement` | a gate that starts late is still `open` or `closed` at the watcher's first poll, which ends the watcher (`position.py:684`): the gate runs to its end |
| `PositionTarget!StopIsForOwnMovement` | the stop of a cancelled watcher is already on the executor and stops the next request's movement |
| `EntrySetup!RunsWhereSaved` | a discovery rewrites the address of an entry that is being set up, which reloads nothing (`config_flow.py:957`) |
| `ClientSession!ClosedStaysClosed` | a poll on its thread opens the session again after the shutdown closed it (`coordinator.py:690`) |
| `EntrySetup!ValidatedAccessoriesAreConfigured` | the first accessory of a cloud flow gets an entry meanwhile: the flow aborts before it imports the others (`config_flow.py:837`) |
| `DeviceControls!BlockedSettingUntouched` | the speed of a restricted controller is written while its INFO was not read yet (`docs/beta_testing.md:68`) |
| `DeviceControls!SettingsChangeAtRest` | the gate starts between the check of the last status and the write (`coordinator.py:454`) |

Bounds. Router: thresholds of 2, as in the code; a probe interval that doubles
once and then meets its cap (10 ticks in the code, 3 or 2 here), counters counted up to the threshold; two callers
suffice for every pair of steps that share state, and `router_service` lowers the
recovery threshold to 1 and drops rejected credentials to keep the graph of the
temporal check small (`RestingRoute` proves the run's invariant with them). Dispatcher: two exchanges overlap, follow each other or
both, with one callback; a window of one frame is full at once; two frames
are an answer with a duplicate or an event before or after it. Idle threads are
alike, so the first of them makes the next call.
Calibration: two runs, so that a second meets the remains of the first; one
command per run (a run's commands repeat the same two steps); two requests per
lane, one restart; file contents of an older version, of the current one, of one
the mode does not accept, and none. Routine: six units leave room for a target, a
run-on of two units and its correction; of the run-ons 0 to 3 the last exceeds the settle delay of 2;
a tolerance of zero and an outlier limit
of one separate success, failure and outlier; two attempts are a stable window, a
third gives the choice between two windows; one fault in a run. Position: four
places; the cover's set-position, whose ends and "already there" are its other
commands, and the reconnect button, which cancels in a lane of its own; two
requests, so that the second meets every moment of the first's watcher, and one
movement of others. Status: three places; a poll, a frame and a
command, of which each pair shares a step; a controller without positions, one with
live ones and one with a learned scale that is not the identity (one with an encoder
reports what the live one may); the mask lasts a tick and the
simulation its grace and padding. Session: two faults, so that the retry fails
too; one register per profile; two polls, so that the second meets what the first
left. Entries: two accessories and two flows, so that they compete for one; a
common budget of two over flows, moves and restarts keeps the product small.
Controls: two callers that write different values, one fault, one start of the
gate. Deadlock checking is off where the model stops because a bound is used up.

Fairness. Router: strong fairness of each caller's steps, since neither the
executor nor the lock starves a caller for ever while it is repeatedly free;
Home Assistant schedules the next poll, unless the connection ended in an
authentication failure; time passes. Users, commands and links
owe nothing. Dispatcher: weak fairness of each thread, of the reader (its read
has a timeout) and of close; none of the device, the peer, or the deadlines.
Calibration: the event loop runs each coroutine that can go on; each command is
answered because every socket operation has a timeout. A run's length is bounded
by its attempts and movement timeouts: `MaxCommands` stands for it in
`Calibration`, and `RunEnds` of the routine shows it. Routine: weak fairness of
the coroutine alone; the gate need never move. Position: the loop runs what is
ready, jobs are worked off, time passes. Status: the same, and the next poll
begins if one is scheduled; strong fairness of the read, since it may fail now and
then but not for ever. Session:
each exchange has its deadline, each job its thread, and who waits for the lock
gets it when it is free. Controls: threads and tasks are scheduled, the scan
interval passes, movements and runs end. `entry` checks safety only.

## 4. Proofs

`ConnectionRouterProofs` proves, for any finite or infinite set of callers, any
modes, thresholds and probe interval (under `RouterAssumption`, which only types
the constants and puts the history's cap at or above the thresholds):

- `TypeCorrect`: `Spec => []TypeOK`;
- `RouterInvariant`: `Spec => []RouterInv`;
- `Discipline`: `Spec => []OperationDiscipline`;
- `Refinement`: `Spec => SelectionFollowsHistory`, the router implements
  `RouteSelection`.

`OperationDiscipline` is not inductive: that a second call goes to the other
route depends on how the first one was chosen. `RouterInv` adds who is in the
lock (`LockInv`), that a probe runs only with the relay selected (`ModeInv`),
which routes the operation has called (`CallInv`), and, for the refinement, how
the counters follow the LAN's history while a returned call is not counted yet
(`StreakInv`) and that the time until the next probe plus the time already spent
on the relay exceeds the recoveries counted (`StayInv`): each counted recovery
costs a tick. The proof of the step has one lemma for the event loop, which
touches none of it, one for the environment, and one for the executor's actions.
The refinement maps each LAN call, fail-over, recovery and tick to its abstract
action and every other step to a stutter.

- `RestingRoute`: `Spec => []RestingRouteIsConnected`, for any number of callers.
  `ActiveIsConnected` fails for two callers: the health need not be consistent while
  calls overlap; what makes it so in the end is that a mismatch is always left to somebody.
  `HealthInv` says to whom: a caller that has its report of the outcome before it, or
  the one that the event loop is reporting about that very route; also if an executor
  thread marks the route between the loop's two assignments, since that thread's
  caller still has to report. The invariant needs no more of the steps inside the
  lock than that they come before the report.

`ResponseDispatcherProofs` proves, for any threads, callbacks, window and numbers of
requests and frames, that `DispatcherInv` is inductive (`DispatcherInvariant`) and
from it:

- `TypeCorrect`: `Spec => []TypeOK`, with the window of the frames kept;
- `TimeoutIsHonest`: `Spec => []TimeoutMeansUnanswered`. Since a timeout is decided
  in two steps, the wait and the look at the result under the lock, the invariant
  says instead that a response routed while its caller waits has set the caller's
  event (`AnswersMatched`), which rests on each number being the request of one
  registered thread (`OwnRequests`);
- `CloseIsFinal`: `Spec => []CloseStopsReader`. The flag is set before the reader
  is joined and never reset (`ClosedForGood`), so `start` cannot bring one back.

`CalibrationProofs` proves, for any set of lanes and modes and any bounds, from
`BoundsAssumption` and `ModesAssumption` (types of the constants) and
`OneStarter` (only one platform offers the start button, `button.py:249`):

- `CalibrationTypes`, `RunInvariant`: `Spec => []TypeOK`, `Spec => []RunInv`;
- `LifecycleCorrect`: `Spec => []RunningIsTrue`;
- `NoOrphan`: `Spec => []RunIsCancellable`;
- `CommandsWait`: `Spec => []RunEndsBeforeCommand`;
- `ProfileSurvives`: if no run is timed, `Spec => []CalibratedSurvivesRestart`.

No property of the first three is inductive alone. `RunInv` adds that the slot is
emptied together with the run it holds (`SlotInv`), that runs come into being in
order, that only a run under way is interrupted and that one which saves has left
`running` (`TaskInv`), and that a service joins an existing run and that the slot
stays free between the check and the start of a run (`LaneInv`): between the two
the start button may wait for the position watcher, and only `OneStarter`, with
the platform's serialisation, keeps a second start from the gap. For the store,
`StoreInv` says that the profile in use is one that loading gives back and that
the file has it unless a save is under way or was interrupted. `RunGoesOn` and
`ServiceGoesOn` state once what a step of a run and of a service may do to the
invariant, and each action is shown to be such a step. The hypothesis of
`ProfileSurvives` is needed: `calibration_time_profile` is the counterexample
with timed runs.

`PositionTargetProofs` proves, for any platforms, travel and bounds, from
`OnePositioner` (an entry has one cover, `cover.py:24`):

- `Cancellable`: `Spec => []WatcherIsCancellable`. The property alone is not
  inductive, since set-position fills the slot after an await without looking:
  `SlotIsKept` adds that the slot is empty while a set-position prepares its
  watcher, which holds because every other service only empties it. Each action is
  one of three kinds: it makes no watcher live (`WatchersGoOn`), it begins a service
  (`ServiceBegins`), or it creates the watcher (`CommandAcceptedStep`).
- `StopsReach`: `Spec => StopsNotShort`, an action property. A watcher acts on a
  reading that was taken some steps ago and its stop waits in the executor's queue.
  `FollowInv` says what connects them as long as nobody else moves the gate: while the
  command of a watcher is the last one carried out, the gate goes nowhere but its
  way, has come at least as far as it was seen, and has passed the place of a stop
  that is due (`CallPath`, `TaskPath`); and every job in the queue is of a caller
  that waits for it or the stop of a watcher (`JobsSound`).

`ClientSessionProofs` proves, for any interfaces, profiles, scripts and bounds:

- `OneConnection`: `Spec => []OneSession`, inductive once the shape of a session is
  added (`Sound`): every outcome of an operation keeps the session or closes it;
- `Downgrade`: `Spec => []DowngradeOnlyWithoutDmp`. `ModeInv` follows a Code 14
  from the interface through the frames on the way (`Clean`) and the reply to its
  caller to the poll's next step, whose place says what has been learned
  (`PollInv`);
- `CommandsOnce`: `Spec => []CarriedAsReported`. That no command is carried out
  twice follows from where it can be: only while its answer is awaited is a command
  on the way, not carried out yet, or its report among the frames (`WayInv`), and a
  write has one attempt. That a command reported as done was carried out needs the
  user's call traced from its command to the read-back (`UserInv`, `CountInv`);
- `DropForgiven`: `Spec => OneDropIsForgiven`, an action property. `HurtInv` adds
  that the second attempt of an operation that met no fault has a live connection or
  is about to open one (`Fresh`), so what ends it is a fault it meets.

`EntrySetupProofs` proves, for any identities, addresses, slots, flows and bounds,
from `EntryAssumption` (types; an accessory's id is none of the words for a missing
one, and the blank address is no address), that `EntryInv` is inductive
(`EntryInvariant`) and from it:

- `OneEntryEach`: `Spec => []OneEntryPerAccessory`. A cloud flow holds the
  id of its first accessory while it imports the others, so what is to be known is
  that this id is not configured and held by no other finishing flow (`FlowSound`,
  `HeldOnce`), that the accessories that passed are distinct (`Chosen`), and that an
  entry of the old version is alone until it is migrated (`OldFirst`);
- `SavedAreAccepted`, `RunAsSaved`: `Spec => []SavedWasAccepted` and
  `Spec => []RunsAsSaved`;
- `IdentityIsKept`: `Spec => EntryKeepsIdentity`, an action property: an update is
  for the entry it was opened on and tested for its accessory (`UpdateFits`).

`CalibrationRoutineProofs` proves, for any gate, targets, tolerances and bounds,
from `RoutineAssumption` and `WaitsAssumption` (the end tolerance is less than half
the travel, `calibration_constants.py:5-9`: 1 percent; the mask of a stop, 20
seconds at `position.py:37`, outlasts the settle delay and timeout, 2 and 8), that
`RoutineInv` is inductive (`RoutineInvariant`) and from it:

- `FinishesClosed`: `Spec => []FinishedClosed`. A run keeps a list of legs that its
  decisions replace; the invariant is that the last leg of every such list closes
  the gate or is itself a decision (`ClosedLast`), and that no leg is left only
  behind a closed gate;
- `NoAttemptIsLate`: while a run goes on, `learning.late` is false. The time to
  settle never runs out on a gate seen moving, since the run's own stop is still
  masked (`MaskInv`). With the counterexample to `LearnsAtRest` it says what the settle
  timeout is worth. It holds in a model where a read takes no time;
- `RefusalIsJudged`: `Spec => RefusedStopMeansStanding`, an action property:
  before a stop the mask is off, so the status read after a refusal is the gate's.

The lists of legs are concatenated from one list for each target. What that returns
is shown by induction on the number of targets, in a form the provers can use: a
set of numbers with 0 and with the successors of its members is `Nat`
(`SetInduction`, from the library's `NatLessThanWellFounded` and `WFMin`).

`CoordinatorProofs` proves, for any controllers, travel, times and bounds, that
`StreamInv` is inductive (`StreamInvariant`) and from it two action properties:

- `HeldStop`: `Spec => StopIsHeld`: whatever is stored, by a poll or a frame, goes
  through the same mask, and neither scaling nor the position of an end undoes it;
- `PolledEnd`: if `ScalarClosed <= ScalarOpen`, `Spec => PolledEndAgrees`. The
  answer was read before it is applied: `AnswerSound` keeps what was true of the
  gate at the read. A position is shown, held or estimated only once one was
  reported (`KnownInv`), so an end is shown as a position then and as nothing
  before. The hypothesis says that the bounds a `live_scalar` profile learned lie in
  the order in which the model's raw position grows; `ScaleEnds` is the arithmetic
  of the scale (division and clamping) at the ends.

and about `DeviceControls`, which it instantiates with variables of its own as `D`,
for any controllers, services, moves and faults (no caller is called `"nobody"`, the
mark of a name no service wrote), that `NameInv` is inductive (`NameInvariant`) and
from it two more:

- `ExcludedIsNotSent`: `D!Spec => D!UnadvertisedNeverSent`: every way of a service to
  the executor ends in `Handed`, after its waits (`BegunBegins`, `ServiceBegins`);
- `VerifiedIsThere`: `D!Spec => D!VerifiedNameIsOnDevice`. Between the read-back and
  the return to the loop only another service can change the name, and then the
  device's last writer is that service.

Only model-checked: the estimator and `SteadyGateIsLearned`, and all liveness. Liveness under fairness and `ENABLED` are out of the prover's reach, as are
the library's induction theorems that take an operator, and recursive operators (no
module declares one).

## 5. Not modelled

- Reports, diagnostics and redaction: formatting of state held elsewhere. The
  probing scripts under `scripts/`: tools beside the integration.
- Sensors, binary sensors and the entity catalogue: tables that show coordinator
  state.
- Encoding of frames, signatures, XML, the register and profile tables: data. What
  a parsed answer means is modelled, how it is spelled is not.
- The cutting of a byte stream into frames (`transport/lan.py`): sequential, and
  within reach of a unit test.
- `calibration.py` 562-849: two endpoint searches that nothing calls.
- The timer that schedules refreshes after a command, the event history and its
  counters, texts and labels.
- The effect of events on the router's health and their forwarding by active
  route; the old coordinator that lives on briefly when an entry is unloaded.
- In `CalibrationEstimator` arithmetic is in whole units: rounding of floats is not
  a subject of any property.

`TypeOK` of the six modules added last is stated there and was checked with their
runs' instances; it is left out of the runs to keep them to what could be wrong.

## 6. Plan

1. `SteadyGateIsLearned`: lemmas about the choice of a sample and the thresholds the
   attempts of a steady gate are made with.
2. An abstract exchange that `ResponseDispatcher` implements and `ClientSession`
   uses.
3. The forwarding of events by the router, composed with `StatusStream`.
