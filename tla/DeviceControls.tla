---------------------------- MODULE DeviceControls ----------------------------
(***************************************************************************)
(* What a user may change on a controller, and what is shown of it:        *)
(* capabilities.py, entities/factory.py, the number, switch, text and      *)
(* button entities, the guarded writes of coordinator.py and the           *)
(* administration controller.                                              *)
(*                                                                         *)
(* A control is offered from the capabilities known when the platforms are *)
(* set up, pressed while it is available, checked by its handler, then     *)
(* handed to the executor, maybe after the stop of a run or of a watcher   *)
(* was awaited.  Meanwhile a poll, on a thread of its own, reads the       *)
(* status, sometimes scans the settings into a cache, and learns the INFO  *)
(* the capabilities come from; the gate moves by itself, and events tell.  *)
(*                                                                         *)
(* One setting and one name of two values each stand for all of them.      *)
(***************************************************************************)
EXTENDS Naturals, FiniteSets

CONSTANTS
  Callers,    \* the tasks of Home Assistant that call services
  Wanted,     \* the setting and the name each of them writes
  Kinds,      \* what the controller may be: [restricted, shared, advertised, allowed]
  MaxCalls,   \* how many services are called
  MaxMoves,   \* how often the gate is started, not counting T4 actions
  MaxFaults   \* how many exchanges go wrong

\* The T4 actions, and the operations that change the shared Wi-Fi interface.
Actions == {"compatible", "advanced"}
Mutations == {"name", "clock", "reboot"}
Administration == Mutations \cup {"logs"}
Controls == Actions \cup Administration \cup {"setting", "reconnect"}

Values == {"old", "new"}
Unread == "unread"

VARIABLES
  kind,        \* what the controller is
  device,      \* whether it moves, its setting, its name and who wrote it last
  data,        \* coordinator.data: whether there is one, is_moving, the setting
  up,          \* last_update_success
  info,        \* the name in device_info
  known,       \* whether capabilities were built from device_info
  cache,       \* the setting in _extended_status_cache
  due,         \* whether the next extended scan is due
  poll,        \* the poll: where it is, whether it scans, what it read
  offered,     \* the controls built when the platforms were set up
  run,         \* the watcher or the calibration run that moves the gate
  call,        \* per caller: where its service is, which one, with what
  spent        \* calls, moves and faults so far

readVars == <<info, known, cache, due, poll>>
vars == <<kind, device, data, up, readVars, offered, run, call, spent>>

Idle == [at |-> "idle", control |-> "logs", arg |-> "old", read |-> Unread, ok |-> TRUE]
NoPoll == [at |-> "idle", extended |-> FALSE, moving |-> FALSE, value |-> Unread]

TypeOK ==
  /\ kind \in Kinds
  /\ device \in [moving : BOOLEAN, value : Values, name : Values,
                 writer : Callers \cup {"nobody"}]
  /\ data \in [seen : BOOLEAN, moving : BOOLEAN, value : Values \cup {Unread}]
  /\ {up, known, due} \subseteq BOOLEAN
  /\ {info, cache} \subseteq Values \cup {Unread}
  /\ poll \in [at : {"idle", "reading", "merging", "info", "capabilities", "done"},
               extended : BOOLEAN, moving : BOOLEAN, value : Values \cup {Unread}]
  /\ offered \subseteq Controls
  /\ run \in {"none", "watching", "calibrating"}
  /\ call \in [Callers -> [at : {"idle", "called", "waiting", "queued", "written", "answered"},
                           control : Controls, arg : Values,
                           read : Values \cup {Unread}, ok : BOOLEAN]]
  /\ spent \in [calls : 0..MaxCalls, moves : 0..MaxMoves, faults : 0..MaxFaults]

Init ==
  /\ kind \in Kinds
  /\ device = [moving |-> FALSE, value |-> "old", name |-> "old", writer |-> "nobody"]
  /\ data = [seen |-> FALSE, moving |-> FALSE, value |-> Unread]
  /\ up = FALSE /\ info = Unread /\ known = FALSE /\ cache = Unread /\ due = TRUE
  /\ poll = NoPoll /\ offered = {} /\ run = "none"
  /\ call = [c \in Callers |-> Idle]
  /\ spent = [calls |-> 0, moves |-> 0, faults |-> 0]

Moving == data.seen /\ data.moving

Spend(what) == spent' = [spent EXCEPT ![what] = @ + 1]
MayFail == spent.faults < MaxFaults

-----------------------------------------------------------------------------
(* What the capabilities and the policy say *)

\* The mask INFO carries: a malformed one allows nothing.
Advertised(k) == k \in kind.allowed

\* t4_action_supported: the mask decides, and without one only the actions
\* that older versions offered are sent.
Supported(k) ==
  IF known /\ kind.advertised THEN Advertised(k) ELSE k = "compatible"

\* administration_capability: known for the shared Wi-Fi families only.
Administered == known /\ kind.shared

\* dmp_write_block_reason: the restriction is known from device_info.
Blocked == kind.restricted /\ info # Unread

\* The capabilities are derived anew from device_info with every status.
Rediscovered == known' = (known \/ info # Unread)

\* entity_support and build_described_entities: only an unprotected control
\* known to be unsupported is left out.
Built(k) ==
  /\ k = "advanced" => Supported(k)
  /\ k \in Administration => Administered

\* The available property of the entities, which Home Assistant asks before a call.
SettingAvailable ==
  /\ up /\ data.seen /\ run # "calibrating"
  /\ ~Blocked /\ ~data.moving /\ data.value # Unread
NameAvailable == up /\ Administered /\ ~Moving
ButtonAvailable(k) ==
  \/ k = "reconnect"
  \/ /\ up
     /\ IF k \in Actions THEN Supported(k) ELSE Administered
     /\ k \in Mutations => ~Moving
Available(k) ==
  CASE k = "setting" -> SettingAvailable
    [] k = "name" -> NameAvailable
    [] OTHER -> ButtonAvailable(k)

\* The handlers' own checks.
PressRefused(k) == k \in Actions /\ ~Supported(k)
WriteRefused(k) == k = "setting" /\ (Blocked \/ Moving)
MutationRefused(k) == k \in Mutations /\ Moving
Refused(k) ==
  \/ PressRefused(k) \/ WriteRefused(k) \/ MutationRefused(k)
  \/ k \in Administration /\ ~Administered

-----------------------------------------------------------------------------
(* The poll *)

\* _should_read_extended_status, on the executor.
PollStarts ==
  /\ poll.at = "idle"
  /\ poll' = [NoPoll EXCEPT !.at = "reading", !.extended = due /\ ~Moving]
  /\ UNCHANGED <<kind, device, data, up, info, known, cache, due, offered, run, call,
                 spent>>

\* client.read_status: an optional register may be missing from the scan.
PollReads ==
  /\ poll.at = "reading"
  /\ \E missing \in {FALSE} \cup {poll.extended /\ MayFail} :
       /\ poll' = [poll EXCEPT !.at = "merging", !.moving = device.moving,
                               !.value = IF poll.extended /\ ~missing
                                           THEN device.value ELSE Unread]
       /\ IF missing THEN Spend("faults") ELSE UNCHANGED spent
  /\ UNCHANGED <<kind, device, data, up, info, known, cache, due, offered, run, call>>

\* The read fails: the client is closed, the data stays, entities go unavailable.
PollFails ==
  /\ poll.at = "reading" /\ MayFail /\ Spend("faults")
  /\ poll' = NoPoll /\ up' = FALSE
  /\ UNCHANGED <<kind, device, data, info, known, cache, due, offered, run, call>>

\* _cache_extended_status or _merge_cached_extended_status: the setting after it.
CachedFirst == IF poll.extended /\ cache = Unread THEN poll.value ELSE cache
Cached == IF poll.extended THEN poll.value ELSE cache

\* Still on the poll's thread, without the client's lock.
PollMerges ==
  /\ poll.at = "merging"
  /\ cache' = Cached
  /\ due' = (due /\ ~poll.extended)
  /\ poll' = [poll EXCEPT !.value = Cached, !.extended = FALSE,
                          !.at = IF info = Unread THEN "info" ELSE "done"]
  /\ UNCHANGED <<kind, device, data, up, info, known, offered, run, call, spent>>

\* INFO is read when none was; its failure is only logged.
PollReadsInfo ==
  /\ poll.at = "info"
  /\ \/ /\ info' = device.name
        /\ poll' = [poll EXCEPT !.at = "capabilities"]
        /\ UNCHANGED spent
     \/ /\ MayFail /\ Spend("faults")
        /\ poll' = [poll EXCEPT !.at = "done"]
        /\ UNCHANGED info
  /\ UNCHANGED <<kind, device, data, up, known, cache, due, offered, run, call>>

\* _store_device_info assigns the capabilities after device_info.
PollStoresCapabilities ==
  /\ poll.at = "capabilities"
  /\ known' = TRUE
  /\ poll' = [poll EXCEPT !.at = "done"]
  /\ UNCHANGED <<kind, device, data, up, info, cache, due, offered, run, call,
                 spent>>

\* Back on the loop: _store_successful_status, and the data is replaced.
PollPublishes ==
  /\ poll.at = "done"
  /\ data' = [seen |-> TRUE, moving |-> poll.moving, value |-> poll.value]
  /\ up' = TRUE
  /\ Rediscovered
  /\ poll' = NoPoll
  /\ UNCHANGED <<kind, device, info, cache, due, offered, run, call, spent>>

\* EXTENDED_STATUS_REFRESH_SECONDS pass.
ScanAges ==
  /\ ~due /\ due' = TRUE
  /\ UNCHANGED <<kind, device, data, up, info, known, cache, poll, offered, run, call,
                 spent>>

\* An event tells the movement between two polls.
EventArrives ==
  /\ data.seen /\ data.moving # device.moving
  /\ data' = [data EXCEPT !.moving = device.moving]
  /\ up' = TRUE
  /\ Rediscovered
  /\ UNCHANGED <<kind, device, info, cache, due, poll, offered, run, call, spent>>

\* The platforms are set up once, after the first refresh.
SetUp ==
  /\ data.seen /\ offered = {}
  /\ offered' = {k \in Controls : Built(k)}
  /\ UNCHANGED <<kind, device, data, up, readVars, run, call, spent>>

-----------------------------------------------------------------------------
(* The gate, and what else moves it *)

\* By itself, or by a watcher or a calibration run of another platform's lane.
GateStarts ==
  /\ ~device.moving /\ run = "none" /\ spent.moves < MaxMoves /\ Spend("moves")
  /\ device' = [device EXCEPT !.moving = TRUE]
  /\ run' \in {"none"} \cup IF offered = {} THEN {} ELSE {"watching", "calibrating"}
  /\ UNCHANGED <<kind, data, up, readVars, offered, call>>

GateRests ==
  /\ device.moving /\ device' = [device EXCEPT !.moving = FALSE]
  /\ UNCHANGED <<kind, data, up, readVars, offered, run, call, spent>>

RunEnds ==
  /\ run # "none" /\ run' = "none"
  /\ UNCHANGED <<kind, device, data, up, readVars, offered, call, spent>>

-----------------------------------------------------------------------------
(* A service call *)

Goes(c, next) == call' = [call EXCEPT ![c] = next]

HandedUnchecked(c, this) == Goes(c, [this EXCEPT !.at = "queued"])

\* The job is given to the executor; _async_send_dep_action checks its action again.
Handed(c, this) ==
  Goes(c, IF this.control \in Actions /\ ~Supported(this.control)
            THEN Idle ELSE [this EXCEPT !.at = "queued"])

\* The handler runs up to its first wait: without a watcher or a run to cancel
\* there is none before the executor.
Begun(c, this) ==
  CASE Refused(this.control) -> Goes(c, Idle)
    [] ~Refused(this.control) /\ (run = "none" \/ this.control = "logs") -> Handed(c, this)
    [] OTHER -> Goes(c, [this EXCEPT !.at = "waiting"])

\* PARALLEL_UPDATES of the buttons: one press at a time.
Buttons == Controls \ {"setting", "name"}
LaneTaken == \E c \in Callers : call[c].at \notin {"idle", "called"} /\ call[c].control \in Buttons

\* A service of an available entity starts at once, or once its platform is free.
Called(c) ==
  /\ call[c].at = "idle" /\ spent.calls < MaxCalls /\ Spend("calls")
  /\ \E k \in offered :
       /\ Available(k)
       /\ LET this == [Idle EXCEPT !.at = "called", !.control = k, !.arg = Wanted[c]]
          IN  IF k \in Buttons /\ LaneTaken THEN Goes(c, this) ELSE Begun(c, this)
  /\ UNCHANGED <<kind, device, data, up, readVars, offered, run>>

Begins(c) ==
  /\ call[c].at = "called" /\ ~LaneTaken
  /\ Begun(c, call[c])
  /\ UNCHANGED <<kind, device, data, up, readVars, offered, run, spent>>

\* The watcher or the run was cancelled: the gate was told to stop, or may run on.
Resumes(c) ==
  /\ call[c].at = "waiting"
  /\ run' = "none"
  /\ \E still \in {FALSE, device.moving} : device' = [device EXCEPT !.moving = still]
  /\ Handed(c, call[c])
  /\ UNCHANGED <<kind, data, up, readVars, offered, spent>>

Answers(c, ok) == [call[c] EXCEPT !.at = "answered", !.ok = ok]

\* What the request does to the device.
Done(c) ==
  CASE call[c].control = "setting" -> [device EXCEPT !.value = call[c].arg]
    [] call[c].control = "name" -> [device EXCEPT !.name = call[c].arg, !.writer = c]
    [] call[c].control \in Actions -> [device EXCEPT !.moving = TRUE]
    [] OTHER -> device

\* The device may do what it is asked; an answer may be lost, or say so all the same.
Executes(c) ==
  /\ call[c].at = "queued"
  /\ \E done, ok \in BOOLEAN :
       /\ call[c].control = "reconnect" => done /\ ok
       /\ IF done /\ ok THEN UNCHANGED spent ELSE MayFail /\ Spend("faults")
       /\ device' = IF done THEN Done(c) ELSE device
       /\ Goes(c, IF ok /\ call[c].control \in {"name", "clock"}
                    THEN [call[c] EXCEPT !.at = "written"] ELSE Answers(c, ok))
  /\ UNCHANGED <<kind, data, up, readVars, offered, run>>

\* Whether the INFO read back shows what was written.
VerifiedOnAnswer(c) == TRUE
Verified(c) == call[c].control = "name" => device.name = call[c].arg

\* update_and_verify reads INFO in a second exchange.
ReadsBack(c) ==
  /\ call[c].at = "written"
  /\ \/ /\ Goes(c, [Answers(c, Verified(c)) EXCEPT !.read = device.name])
        /\ UNCHANGED spent
     \/ MayFail /\ Spend("faults") /\ Goes(c, Answers(c, FALSE))
  /\ UNCHANGED <<kind, device, data, up, readVars, offered, run>>

\* A write makes the next scan due; a verified change stores the INFO it read.
DueAfter(c) == due \/ (call[c].ok /\ call[c].control = "setting")
InfoAfter(c) ==
  IF call[c].ok /\ call[c].control \in {"name", "clock"} THEN call[c].read ELSE info

\* Back on the loop.
Finishes(c) ==
  /\ call[c].at = "answered"
  /\ Goes(c, Idle)
  /\ due' = DueAfter(c)
  /\ info' = InfoAfter(c)
  /\ known' = (known \/ info' # Unread)
  /\ UNCHANGED <<kind, device, data, up, cache, poll, offered, run, spent>>

-----------------------------------------------------------------------------

Polls == PollStarts \/ PollReads \/ PollMerges \/ PollReadsInfo
           \/ PollStoresCapabilities \/ PollPublishes
Serves(c) == Begins(c) \/ Resumes(c) \/ Executes(c) \/ ReadsBack(c) \/ Finishes(c)

Next ==
  \/ PollStarts \/ PollReads \/ PollFails \/ PollMerges \/ PollReadsInfo
  \/ PollStoresCapabilities \/ PollPublishes \/ ScanAges \/ EventArrives \/ SetUp
  \/ GateStarts \/ GateRests \/ RunEnds
  \/ \E c \in Callers : Called(c) \/ Begins(c) \/ Resumes(c) \/ Executes(c)
                          \/ ReadsBack(c) \/ Finishes(c)

Spec == Init /\ [][Next]_vars

\* Threads and tasks are scheduled, intervals end, and every movement ends.
FairSpec ==
  /\ Spec
  /\ WF_vars(Polls) /\ WF_vars(ScanAges) /\ WF_vars(GateRests) /\ WF_vars(RunEnds)
  /\ \A c \in Callers : WF_vars(Serves(c))

-----------------------------------------------------------------------------
(* Properties *)

\* "The integration rechecks support before execution, so a stale entity cannot
\* send an action excluded by the" mask: whatever was learned of the device since
\* the press, an action is not given to the executor once it is excluded.
UnadvertisedNeverSent ==
  [][\A c \in Callers :
       call[c].at # "queued" /\ call'[c].at = "queued" /\ call'[c].control \in Actions
         => Supported(call'[c].control)]_vars

\* A change of name that is reported as verified is on the device and shown,
\* unless another change of name reached the device meanwhile: an answer that
\* only says so is not taken for a change.
VerifiedNameIsOnDevice ==
  [][\A c \in Callers :
       call[c].at = "answered" /\ call'[c].at = "idle" /\ call[c].ok
         /\ call[c].control = "name" /\ device.writer \in {c, "nobody"}
       => device.name = call[c].arg /\ info' = call[c].arg]_vars

\* Once nobody writes, the settings shown are those of the device: no scan that
\* was under way during a write, failed or lost a register hides it for good.
ShownSettingSettles == <>[](data.seen /\ data.value = device.value)

\* Not so: while device_info is missing the restriction is not known, and the
\* speed of an ARIA200S or CLBOX is written.
BlockedSettingUntouched == [][kind.restricted => device'.value = device.value]_vars

\* Not so: is_moving is asked of the last status, before the waits.
SettingsChangeAtRest == [][device'.value # device.value => ~device.moving]_vars

=============================================================================
