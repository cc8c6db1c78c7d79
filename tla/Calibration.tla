---------------------------- MODULE Calibration ----------------------------
(***************************************************************************)
(* The calibration lifecycle of the coordinator: calibration.py 110-308,   *)
(* calibration_state.py, calibration_storage.py and the commands of        *)
(* coordinator.py 396-418 that interrupt a run.                            *)
(*                                                                         *)
(* All of it runs on one event loop, so a step of the model is what a      *)
(* coroutine does between two awaits.  Services come in lanes: Home        *)
(* Assistant serialises the services of one platform (PARALLEL_UPDATES = 1 *)
(* in cover.py and button.py), services of two platforms interleave.  A    *)
(* command to the gate is a job on the executor; cancelling the coroutine  *)
(* that awaits it does not take the job back.  The store is a file that    *)
(* outlives the process.                                                   *)
(*                                                                         *)
(* Not modelled here: what a run measures (it ends with a profile of some  *)
(* mode), the position watcher, the gate's motion.                         *)
(***************************************************************************)
EXTENDS Integers, FiniteSets

CONSTANTS
    Lanes,        \* the platforms whose services run concurrently
    Offered,      \* the operations each lane offers
    Modes,        \* the modes a run may end with
    OldVersions,  \* profile versions a file may hold when the model begins
    MaxRuns,      \* bound: calibration runs started
    MaxCommands,  \* bound: commands one run sends (the code's attempts)
    MaxRequests,  \* bound: services called on a lane
    MaxRestarts   \* bound: restarts of the process

Tasks == 1 .. MaxRuns
Operations == {"move", "stop", "reconnect", "calibrate"}
Owners == Lanes \cup Tasks

ASSUME BoundsAssumption ==
    /\ {MaxRuns, MaxCommands, MaxRequests, MaxRestarts} \subseteq Nat
    /\ OldVersions \subseteq Nat
    /\ Lanes \cap Tasks = {}
    /\ Offered \in [Lanes -> SUBSET Operations]

\* Only the button platform starts a run (button.py 249).
ASSUME OneStarter ==
    \A l, m \in Lanes :
        "calibrate" \in Offered[l] /\ "calibrate" \in Offered[m] => l = m

VARIABLES
    lifecycle,  \* CalibrationStateMachine.state
    slot,       \* _calibration_task: the run it holds, 0 for None
    task,       \* each run's coroutine
    runs,       \* the runs started so far
    profile,    \* calibration_profile
    disk,       \* the file of _calibration_store
    lane,       \* each lane's service coroutine
    job,        \* each owner's command on the executor
    restarts

vars == <<lifecycle, slot, task, runs, profile, disk, lane, job, restarts>>

-----------------------------------------------------------------------------
States == {"not_calibrated", "running", "calibrated", "cancelled", "failed"}

\* Fault: the table lacks RUNNING -> CANCELLED.
AllowedUncancelled(from) ==
    IF from = "running"
    THEN {"calibrated", "failed"}
    ELSE {"not_calibrated", "running", "calibrated"}

\* _ALLOWED_TRANSITIONS
Allowed(from) ==
    IF from = "running"
    THEN {"calibrated", "cancelled", "failed"}
    ELSE {"not_calibrated", "running", "calibrated"}

NoProfile == [mode |-> "none", version |-> 0, run |-> 0]

\* PROFILE_VERSION_BY_MODE
VersionByMode ==
    [mode \in {"encoder", "time", "live_percent", "live_scalar"} |->
        IF mode = "encoder" THEN 5 ELSE IF mode = "time" THEN 6 ELSE 7]

ASSUME ModesAssumption == Modes \subseteq DOMAIN VersionByMode

\* Fault: every builder writes version 7.
BuiltVersionSeven(mode) == 7

\* The "version" a run writes: 5 with an encoder, 7 in the builder that serves
\* every other mode.
BuiltVersion(mode) == IF mode = "encoder" THEN 5 ELSE 7

Profiles ==
    [mode : DOMAIN VersionByMode, version : OldVersions \cup {5, 6, 7},
     run : 0 .. MaxRuns]

Stored == {NoProfile} \cup Profiles

\* migrate_calibration_profile refuses a version newer than its own and brings
\* an older one up to it.
Supported(p) == p # NoProfile /\ p.version <= VersionByMode[p.mode]
Migrated(p) == [mode |-> p.mode, version |-> VersionByMode[p.mode], run |-> p.run]

\* async_load_calibration: a profile that is missing or not supported leaves
\* the coordinator without one, and the file as it is.
LoadedFrom(p) == IF Supported(p) THEN Migrated(p) ELSE NoProfile

Load(file) ==
    /\ profile' = LoadedFrom(file)
    /\ lifecycle' = IF Supported(file) THEN "calibrated" ELSE "not_calibrated"
    /\ disk' = IF Supported(file) THEN Migrated(file) ELSE file

-----------------------------------------------------------------------------
TaskStates ==
    [at : {"unborn", "building", "sending", "saving", "ended"},
     interrupted : BOOLEAN,
     sent : 0 .. MaxCommands,
     outcome : {"none", "returned", "cancelled", "raised", "killed"}]

LaneStates ==
    [at : {"idle", "asked", "joining", "stopping", "sending", "preparing"},
     op : Operations \cup {"none"},
     joins : {0} \cup Tasks,
     asked : 0 .. MaxRequests,
     result : {"none", "sent", "refused", "raised"}]

Unborn == [at |-> "unborn", interrupted |-> FALSE, sent |-> 0, outcome |-> "none"]

FreshLane ==
    [at |-> "idle", op |-> "none", joins |-> 0, asked |-> 0, result |-> "none"]

Live(t) == task[t].at \in {"building", "sending", "saving"}

\* The constructor of the coordinator, then async_load_calibration on
\* whatever file an earlier release left.
Init ==
    \E file \in {NoProfile} \cup
                [mode : Modes, version : OldVersions, run : {0}] :
        /\ lifecycle = IF Supported(file) THEN "calibrated" ELSE "not_calibrated"
        /\ profile = LoadedFrom(file)
        /\ disk = IF Supported(file) THEN Migrated(file) ELSE file
        /\ slot = 0
        /\ task = [t \in Tasks |-> Unborn]
        /\ runs = 0
        /\ lane = [l \in Lanes |-> FreshLane]
        /\ job = [o \in Owners |-> "none"]
        /\ restarts = 0

-----------------------------------------------------------------------------
(* The executor. *)

\* A command waits for the router and is accepted or fails; a stop may be
\* refused as invalid (Code 5).  Nobody may be waiting any more.
Answer(o) ==
    /\ job[o] \in {"move", "stop"}
    /\ \E answer \in {"ok", "failed", "refused"} :
           /\ answer = "refused" => job[o] = "stop"
           /\ job' = [job EXCEPT ![o] = answer]
    /\ UNCHANGED <<lifecycle, slot, task, runs, profile, disk, lane, restarts>>

Answered(o) == job[o] \in {"ok", "failed", "refused"}

-----------------------------------------------------------------------------
(* The run: _async_run_position_calibration. *)

\* The finally block: the coroutine is over, and leaves the slot if it is in it.
Over(t, outcome) ==
    /\ task' = [task EXCEPT ![t].at = "ended", ![t].interrupted = FALSE,
                            ![t].outcome = outcome]
    /\ slot' = IF slot = t THEN 0 ELSE slot

\* The run sends open, close or stop and awaits the answer.
Command(t) ==
    /\ task[t].at = "building" /\ ~task[t].interrupted
    /\ task[t].sent < MaxCommands
    /\ \E action \in {"move", "stop"} : job' = [job EXCEPT ![t] = action]
    /\ task' = [task EXCEPT ![t].at = "sending", ![t].sent = @ + 1]
    /\ UNCHANGED <<lifecycle, slot, runs, profile, disk, lane, restarts>>

\* The answer.  A refused stop is excused when the gate stands still.
Commanded(t) ==
    /\ task[t].at = "sending" /\ ~task[t].interrupted
    /\ job[t] \in {"ok", "refused"}
    /\ task' = [task EXCEPT ![t].at = "building"]
    /\ job' = [job EXCEPT ![t] = "none"]
    /\ UNCHANGED <<lifecycle, slot, runs, profile, disk, lane, restarts>>

\* A connection, authentication, measurement or command error ends the run.
Fail(t) ==
    /\ ~task[t].interrupted
    /\ \/ task[t].at = "building"
       \/ task[t].at = "sending" /\ job[t] \in {"failed", "refused"}
    /\ lifecycle' = "failed"
    /\ Over(t, "returned")
    /\ job' = [job EXCEPT ![t] = "none"]
    /\ UNCHANGED <<runs, profile, disk, lane, restarts>>

\* The profile is built: it is used from now on, and only then saved.
Complete(t) ==
    /\ task[t].at = "building" /\ ~task[t].interrupted
    /\ \E mode \in Modes :
           profile' = [mode |-> mode, version |-> BuiltVersion(mode), run |-> t]
    /\ lifecycle' = "calibrated"
    /\ task' = [task EXCEPT ![t].at = "saving"]
    /\ UNCHANGED <<slot, runs, disk, lane, job, restarts>>

Saved(t) ==
    /\ task[t].at = "saving" /\ ~task[t].interrupted
    /\ disk' = profile
    /\ Over(t, "returned")
    /\ UNCHANGED <<lifecycle, runs, profile, lane, job, restarts>>

\* CancelledError at the await the run is suspended in.  A job on the executor
\* goes on.  CALIBRATED does not allow CANCELLED: a run interrupted while it
\* saves leaves its handler with that ValueError, and the file may be the
\* old one or the new one.
Interrupted(t) ==
    /\ task[t].interrupted
    /\ IF "cancelled" \in Allowed(lifecycle)
       THEN lifecycle' = "cancelled" /\ Over(t, "cancelled")
       ELSE lifecycle' = lifecycle /\ Over(t, "raised")
    /\ disk' \in IF task[t].at = "saving" THEN {disk, profile} ELSE {disk}
    /\ UNCHANGED <<runs, profile, lane, job, restarts>>

TaskStep(t) ==
    \/ Command(t) \/ Commanded(t) \/ Fail(t)
    \/ Complete(t) \/ Saved(t) \/ Interrupted(t)

-----------------------------------------------------------------------------
(* The services. *)

\* A service is called: async_send_action for a cover ("move" is open or
\* close), async_reconnect and async_start_position_calibration for a button.
\* It may have to wait for the position watcher before its next step.
Ask(l) ==
    /\ lane[l].at = "idle" /\ lane[l].asked < MaxRequests
    /\ \E op \in Offered[l] \ {"calibrate"} :
           lane' = [lane EXCEPT ![l] = [at |-> "asked", op |-> op, joins |-> 0,
                                        asked |-> @.asked + 1, result |-> "none"]]
    /\ UNCHANGED <<lifecycle, slot, task, runs, profile, disk, job, restarts>>

\* Fault: a reconnect is sent to the gate like a command.
ActAlwaysSends(l) ==
    /\ lane' = [lane EXCEPT ![l].at = "sending"]
    /\ job' = [job EXCEPT ![l] = lane[l].op]

\* What the service asks of the gate itself, once calibration is out of the way.
Act(l) ==
    IF lane[l].op = "reconnect"
    THEN /\ lane' = [lane EXCEPT ![l].at = "idle", ![l].result = "sent"]
         /\ job' = [job EXCEPT ![l] = "none"]
    ELSE /\ lane' = [lane EXCEPT ![l].at = "sending"]
         /\ job' = [job EXCEPT ![l] = lane[l].op]

\* _async_cancel_calibration: the run in the slot is interrupted and awaited;
\* with none the service goes on.
CancelRun(l) ==
    /\ lane[l].at = "asked"
    /\ IF slot # 0 /\ Live(slot)
       THEN /\ task' = [task EXCEPT ![slot].interrupted = TRUE]
            /\ lane' = [lane EXCEPT ![l].at = "joining", ![l].joins = slot]
            /\ UNCHANGED <<slot, job>>
       ELSE slot' = 0 /\ task' = task /\ Act(l)
    /\ UNCHANGED <<lifecycle, runs, profile, disk, restarts>>

\* Faults: the service does not wait for the run it interrupts; it waits for a
\* run that acknowledges the interruption.
JoinedAtOnce(t) == TRUE
JoinedIfCancelled(t) == task[t].outcome = "cancelled"

\* await task, until the coroutine is over; only a CancelledError is suppressed.
Joined(t) == ~Live(t)
JoinRaises(t) == task[t].outcome = "raised"

\* Every command but a stop first stops what the run had set in motion.
Join(l) ==
    /\ lane[l].at = "joining" /\ Joined(lane[l].joins)
    /\ IF JoinRaises(lane[l].joins)
       THEN /\ lane' = [lane EXCEPT ![l].at = "idle", ![l].result = "raised"]
            /\ job' = job
       ELSE IF lane[l].op = "stop"
       THEN Act(l)
       ELSE /\ lane' = [lane EXCEPT ![l].at = "stopping"]
            /\ job' = [job EXCEPT ![l] = "stop"]
    /\ UNCHANGED <<lifecycle, slot, task, runs, profile, disk, restarts>>

\* A stop that fails is recorded and the service goes on.
Stopped(l) ==
    /\ lane[l].at = "stopping" /\ Answered(l)
    /\ Act(l)
    /\ UNCHANGED <<lifecycle, slot, task, runs, profile, disk, restarts>>

Sent(l) ==
    /\ lane[l].at = "sending" /\ Answered(l)
    /\ lane' = [lane EXCEPT ![l].at = "idle",
                            ![l].result = IF job[l] = "ok" THEN "sent" ELSE "refused"]
    /\ job' = [job EXCEPT ![l] = "none"]
    /\ UNCHANGED <<lifecycle, slot, task, runs, profile, disk, restarts>>

\* Fault: the check reads the lifecycle instead of the task.
StartRefusedWhileRunning == lifecycle = "running"

\* async_start_position_calibration refuses while a run is not over.
StartRefused == slot # 0 /\ Live(slot)

AskRun(l) ==
    /\ lane[l].at = "idle" /\ lane[l].asked < MaxRequests
    /\ "calibrate" \in Offered[l] /\ runs < MaxRuns
    /\ lane' = [lane EXCEPT ![l] =
           [at |-> IF StartRefused THEN "idle" ELSE "preparing",
            op |-> "calibrate", joins |-> 0, asked |-> @.asked + 1,
            result |-> IF StartRefused THEN "refused" ELSE "none"]]
    /\ UNCHANGED <<lifecycle, slot, task, runs, profile, disk, job, restarts>>

\* The watcher and the pending refresh are cancelled: the run starts, and goes
\* to its first await before the service returns.
StartRun(l) ==
    /\ lane[l].at = "preparing" /\ runs < MaxRuns
    /\ IF "running" \in Allowed(lifecycle)
       THEN /\ lifecycle' = "running"
            /\ runs' = runs + 1
            /\ slot' = runs'
            /\ task' = [task EXCEPT ![runs'].at = "building"]
            /\ lane' = [lane EXCEPT ![l].at = "idle", ![l].result = "sent"]
       ELSE /\ lane' = [lane EXCEPT ![l].at = "idle", ![l].result = "raised"]
            /\ UNCHANGED <<lifecycle, runs, slot, task>>
    /\ UNCHANGED <<profile, disk, job, restarts>>

LaneStep(l) == CancelRun(l) \/ Join(l) \/ Stopped(l) \/ Sent(l) \/ StartRun(l)

-----------------------------------------------------------------------------
(* The process. *)

\* The process dies between any two steps, perhaps in the middle of a save,
\* and async_setup_entry loads what the file then holds.
Restart ==
    /\ restarts < MaxRestarts
    /\ restarts' = restarts + 1
    /\ \E file \in {disk} \cup {profile : t \in {u \in Tasks : task[u].at = "saving"}} :
           Load(file)
    /\ slot' = 0
    /\ task' = [t \in Tasks |->
           IF Live(t)
           THEN [task[t] EXCEPT !.at = "ended", !.interrupted = FALSE,
                                !.outcome = "killed"]
           ELSE task[t]]
    /\ lane' = [l \in Lanes |-> [FreshLane EXCEPT !.asked = lane[l].asked]]
    /\ job' = [o \in Owners |-> "none"]
    /\ UNCHANGED runs

Next ==
    \/ Restart
    \/ \E o \in Owners : Answer(o)
    \/ \E t \in Tasks : TaskStep(t)
    \/ \E l \in Lanes : Ask(l) \/ AskRun(l) \/ LaneStep(l)

Spec == Init /\ [][Next]_vars

\* The event loop runs every coroutine that can go on, and every socket
\* operation has a timeout, so each command is answered.
Fairness ==
    /\ \A o \in Owners : WF_vars(Answer(o))
    /\ \A t \in Tasks : WF_vars(TaskStep(t))
    /\ \A l \in Lanes : WF_vars(LaneStep(l))

FairSpec == Spec /\ Fairness

-----------------------------------------------------------------------------
(* Properties. *)

TypeOK ==
    /\ lifecycle \in States
    /\ slot \in {0} \cup Tasks
    /\ task \in [Tasks -> TaskStates]
    /\ runs \in 0 .. MaxRuns
    /\ profile \in Stored /\ disk \in Stored
    /\ lane \in [Lanes -> LaneStates]
    /\ job \in [Owners -> {"none", "move", "stop", "ok", "failed", "refused"}]
    /\ restarts \in 0 .. MaxRestarts

\* The lifecycle a user sees agrees with the coroutine: it says running exactly
\* while a run measures, however runs, interruptions, failures and restarts
\* follow each other (a stale "running" would refuse every later run).
RunningIsTrue ==
    (lifecycle = "running") <=> \E t \in Tasks : task[t].at \in {"building", "sending"}

\* No run is orphaned: a run that can still move the gate is the one in the
\* slot, where every command finds and interrupts it.
RunIsCancellable == \A t \in Tasks : Live(t) => slot = t

\* A command that interrupted a run sends nothing of its own, not even the stop
\* on the run's behalf, before that run's coroutine is over.
RunEndsBeforeCommand ==
    \A l \in Lanes :
        lane[l].joins # 0 /\ lane[l].at \in {"stopping", "sending"}
            => ~Live(lane[l].joins)

\* No run is under way, and none was interrupted in the middle of its save.
Quiet == \A t \in Tasks : ~Live(t) /\ task[t].outcome # "raised"

\* What is shown as calibrated is what a restart brings back: once no run is
\* under way, the file holds the profile in use, in a version that loading
\* accepts.
CalibratedSurvivesRestart ==
    lifecycle = "calibrated" /\ Quiet => disk = profile /\ LoadedFrom(disk) = profile

\* The inductive invariant behind the properties above: the slot is emptied
\* with the run it held; runs come into being in order; only a run under way is
\* interrupted, and one that saves has already changed the lifecycle; a service
\* joins a run that exists, and only a command does; and between the check and
\* the start of a run no other lane fills the slot.
SlotInv == slot # 0 => Live(slot)

TaskInv ==
    \A t \in Tasks :
        /\ task[t].at = "unborn" <=> t > runs
        /\ task[t].interrupted => Live(t)
        /\ task[t].at = "saving" => lifecycle = "calibrated"

LaneInv ==
    \A l \in Lanes :
        /\ lane[l].joins <= runs
        /\ lane[l].at = "joining" => lane[l].joins # 0
        /\ lane[l].at \in {"asked", "joining", "stopping"}
               => lane[l].op \in {"move", "stop", "reconnect"}
        /\ lane[l].at = "preparing" => slot = 0 /\ "calibrate" \in Offered[l]

\* The profile in use is one that loading would give back, and it is the one in
\* the file once it is saved.
StoreInv ==
    /\ LoadedFrom(profile) = profile
    /\ (lifecycle = "calibrated" /\ \A t \in Tasks :
            task[t].at # "saving" /\ task[t].outcome # "raised") => disk = profile

RunInv ==
    /\ TypeOK /\ SlotInv /\ TaskInv /\ LaneInv
    /\ RunningIsTrue /\ RunIsCancellable /\ RunEndsBeforeCommand

\* A command interrupts a running calibration and is then sent to the gate: it
\* never ends with an error of the calibration it interrupted.
CommandIsSent == \A l \in Lanes : lane[l].result # "raised"

\* Every command comes back to its caller, whatever calibration does meanwhile.
CommandsReturn ==
    \A l \in Lanes : lane[l].at # "idle" ~> lane[l].at = "idle"
=============================================================================
