------------------------- MODULE CalibrationProofs -------------------------
(***************************************************************************)
(* Proofs about Calibration, for any lanes, modes and bounds: the          *)
(* lifecycle and the slot agree with the run under way, a command waits    *)
(* for the run it interrupts, and a profile survives a restart unless it   *)
(* is a timed one.                                                         *)
(***************************************************************************)
EXTENDS Calibration, TLAPS

-----------------------------------------------------------------------------
(* Profiles and their versions. *)

LEMMA Versions ==
  /\ "none" \notin DOMAIN VersionByMode
  /\ \A m \in DOMAIN VersionByMode :
        /\ VersionByMode[m] \in {5, 6, 7}
        /\ BuiltVersion(m) \in {5, 6, 7}
        /\ m # "time" => BuiltVersion(m) = VersionByMode[m]
  BY DEF VersionByMode, BuiltVersion

LEMMA MigratedIsProfile ==
  ASSUME NEW p \in Stored, Supported(p)
  PROVE  /\ Migrated(p) \in Profiles
         /\ Supported(Migrated(p))
         /\ Migrated(Migrated(p)) = Migrated(p)
  <1>1. p \in Profiles
    BY DEF Stored, Supported
  <1>2. /\ p.mode \in DOMAIN VersionByMode
        /\ Migrated(p) = [mode |-> p.mode, version |-> VersionByMode[p.mode],
                          run |-> p.run]
    BY <1>1 DEF Profiles, Migrated
  <1>3. VersionByMode[p.mode] \in {5, 6, 7}
    BY <1>2, Versions
  <1>4. Migrated(p) # NoProfile
    BY <1>2, Versions DEF NoProfile
  <1>5. Migrated(p) \in Profiles
    BY <1>1, <1>2, <1>3 DEF Profiles
  <1>6. Supported(Migrated(p))
    BY <1>2, <1>3, <1>4 DEF Supported
  <1>7. QED
    BY <1>2, <1>5, <1>6 DEF Migrated

\* Loading is stable: what it gives is stored and loaded as it is.
LEMMA LoadingIsStable ==
  ASSUME NEW p \in Stored
  PROVE  /\ LoadedFrom(p) \in Stored
         /\ LoadedFrom(LoadedFrom(p)) = LoadedFrom(p)
         /\ (IF Supported(p) THEN Migrated(p) ELSE p) \in Stored
         /\ Supported(p) => LoadedFrom(p) = Migrated(p)
  <1>1. CASE Supported(p)
    BY <1>1, MigratedIsProfile DEF LoadedFrom, Stored
  <1>2. CASE ~Supported(p)
    BY <1>2 DEF LoadedFrom, Stored, Supported
  <1>3. QED
    BY <1>1, <1>2

\* What a run builds is stored; unless it is timed it is loaded as it is.
LEMMA BuiltIsLoaded ==
  ASSUME NEW m \in Modes, NEW t \in Tasks,
         NEW p, p = [mode |-> m, version |-> BuiltVersion(m), run |-> t]
  PROVE  p \in Profiles /\ (m # "time" => LoadedFrom(p) = p)
  <1>1. m \in DOMAIN VersionByMode
    BY ModesAssumption
  <1>2. p \in Profiles
    BY <1>1, Versions DEF Profiles, Tasks
  <1>3. p # NoProfile
    BY <1>1, Versions DEF NoProfile
  <1>4. ASSUME m # "time" PROVE LoadedFrom(p) = p
    <2>1. p.version = VersionByMode[p.mode] /\ VersionByMode[p.mode] \in {5, 6, 7}
      BY <1>1, <1>4, Versions
    <2>2. Supported(p)
      BY <1>3, <2>1 DEF Supported
    <2>3. Migrated(p) = p
      BY <2>1 DEF Migrated
    <2>4. QED
      BY <2>2, <2>3 DEF LoadedFrom
  <1>5. QED
    BY <1>2, <1>4

-----------------------------------------------------------------------------
(* Types. *)

LEMMA InitType == Init => TypeOK
  <1> SUFFICES ASSUME Init PROVE TypeOK
    OBVIOUS
  <1>1. PICK file \in {NoProfile} \cup
                [mode : Modes, version : OldVersions, run : {0}] :
           /\ lifecycle = IF Supported(file) THEN "calibrated" ELSE "not_calibrated"
           /\ profile = LoadedFrom(file)
           /\ disk = IF Supported(file) THEN Migrated(file) ELSE file
    BY DEF Init
  <1>2. file \in Stored
    BY ModesAssumption, BoundsAssumption DEF Stored, Profiles
  <1>3. profile \in Stored /\ disk \in Stored
    BY <1>1, <1>2, LoadingIsStable
  <1>4. lifecycle \in States
    BY <1>1 DEF States
  <1>5. slot \in {0} \cup Tasks /\ runs \in 0 .. MaxRuns /\ restarts \in 0 .. MaxRestarts
    BY BoundsAssumption DEF Init
  <1>6. task \in [Tasks -> TaskStates]
    BY BoundsAssumption DEF Init, Unborn, TaskStates
  <1>7. lane \in [Lanes -> LaneStates]
    BY BoundsAssumption DEF Init, FreshLane, LaneStates
  <1>8. job \in [Owners -> {"none", "move", "stop", "ok", "failed", "refused"}]
    BY DEF Init
  <1>9. QED
    BY <1>3, <1>4, <1>5, <1>6, <1>7, <1>8 DEF TypeOK

\* What each step of a run does to its coroutine; the others' stay as they are.
LEMMA OverEffect ==
  ASSUME TypeOK, NEW t \in Tasks, NEW o \in {"returned", "cancelled", "raised"},
         Over(t, o)
  PROVE  /\ task' \in [Tasks -> TaskStates]
         /\ slot' \in {0} \cup Tasks
         /\ slot' = IF slot = t THEN 0 ELSE slot
         /\ task'[t].at = "ended" /\ task'[t].interrupted = FALSE
         /\ task'[t].outcome = o
         /\ \A u \in Tasks \ {t} : task'[u] = task[u]
  <1>1. task[t] \in TaskStates
    BY DEF TypeOK
  <1>2. task'[t] = [at |-> "ended", interrupted |-> FALSE, sent |-> task[t].sent,
                    outcome |-> o]
    BY <1>1 DEF Over, TypeOK, TaskStates
  <1>3. task'[t] \in TaskStates
    BY <1>1, <1>2 DEF TaskStates
  <1>4. task' = [task EXCEPT ![t] = task'[t]]
    BY DEF Over, TypeOK
  <1>5. QED
    BY <1>2, <1>3, <1>4 DEF Over, TypeOK

LEMMA CommandEffect ==
  ASSUME TypeOK, NEW t \in Tasks, Command(t)
  PROVE  /\ task' \in [Tasks -> TaskStates]
         /\ task'[t].at = "sending" /\ task'[t].interrupted = FALSE
         /\ task'[t].outcome = task[t].outcome
         /\ \A u \in Tasks \ {t} : task'[u] = task[u]
  <1>1. task[t] \in TaskStates
    BY DEF TypeOK
  <1>2. task'[t] = [at |-> "sending", interrupted |-> FALSE,
                    sent |-> task[t].sent + 1, outcome |-> task[t].outcome]
    BY <1>1 DEF Command, TypeOK, TaskStates
  <1>3. task[t].sent + 1 \in 0 .. MaxCommands
    <2>1. task[t].sent \in 0 .. MaxCommands
      BY <1>1 DEF TaskStates
    <2>2. task[t].sent < MaxCommands
      BY DEF Command
    <2>3. QED
      BY <2>1, <2>2, BoundsAssumption
  <1>4. task'[t] \in TaskStates
    BY <1>1, <1>2, <1>3 DEF TaskStates
  <1>5. task' = [task EXCEPT ![t] = task'[t]]
    BY DEF Command, TypeOK
  <1>6. task' \in [Tasks -> TaskStates] /\ \A u \in Tasks \ {t} : task'[u] = task[u]
    BY <1>4, <1>5 DEF TypeOK
  <1>7. QED
    BY <1>2, <1>6

LEMMA CommandedEffect ==
  ASSUME TypeOK, NEW t \in Tasks, Commanded(t)
  PROVE  /\ task' \in [Tasks -> TaskStates]
         /\ task'[t].at = "building" /\ task'[t].interrupted = FALSE
         /\ task'[t].outcome = task[t].outcome
         /\ \A u \in Tasks \ {t} : task'[u] = task[u]
  <1>1. task[t] \in TaskStates
    BY DEF TypeOK
  <1>2. task'[t] = [at |-> "building", interrupted |-> FALSE,
                    sent |-> task[t].sent, outcome |-> task[t].outcome]
    BY <1>1 DEF Commanded, TypeOK, TaskStates
  <1>3. task'[t] \in TaskStates
    BY <1>1, <1>2 DEF TaskStates
  <1>4. task' = [task EXCEPT ![t] = task'[t]]
    BY DEF Commanded, TypeOK
  <1>5. task' \in [Tasks -> TaskStates] /\ \A u \in Tasks \ {t} : task'[u] = task[u]
    BY <1>3, <1>4 DEF TypeOK
  <1>6. QED
    BY <1>2, <1>5

LEMMA CompleteEffect ==
  ASSUME TypeOK, NEW t \in Tasks, Complete(t)
  PROVE  /\ task' \in [Tasks -> TaskStates]
         /\ task'[t].at = "saving" /\ task'[t].interrupted = FALSE
         /\ task'[t].outcome = task[t].outcome
         /\ \A u \in Tasks \ {t} : task'[u] = task[u]
  <1>1. task[t] \in TaskStates
    BY DEF TypeOK
  <1>2. task'[t] = [at |-> "saving", interrupted |-> FALSE,
                    sent |-> task[t].sent, outcome |-> task[t].outcome]
    BY <1>1 DEF Complete, TypeOK, TaskStates
  <1>3. task'[t] \in TaskStates
    BY <1>1, <1>2 DEF TaskStates
  <1>4. task' = [task EXCEPT ![t] = task'[t]]
    BY DEF Complete, TypeOK
  <1>5. task' \in [Tasks -> TaskStates] /\ \A u \in Tasks \ {t} : task'[u] = task[u]
    BY <1>3, <1>4 DEF TypeOK
  <1>6. QED
    BY <1>2, <1>5

LEMMA TaskType ==
  ASSUME TypeOK, NEW t \in Tasks, TaskStep(t)
  PROVE  TypeOK'
  <1>0. t \in Owners
    BY DEF Owners
  <1>1. CASE Command(t)
    <2>1. task' \in [Tasks -> TaskStates]
      BY <1>1, CommandEffect
    <2>2. QED
      BY <1>0, <1>1, <2>1 DEF Command, TypeOK
  <1>2. CASE Commanded(t)
    BY <1>0, <1>2, CommandedEffect DEF Commanded, TypeOK
  <1>3. CASE Fail(t)
    <2>1. Over(t, "returned")
      BY <1>3 DEF Fail
    <2>2. task' \in [Tasks -> TaskStates] /\ slot' \in {0} \cup Tasks
      BY <2>1, OverEffect
    <2>3. QED
      BY <1>0, <1>3, <2>2 DEF Fail, TypeOK, States
  <1>4. CASE Complete(t)
    <2>1. profile' \in Stored
      BY <1>4, BuiltIsLoaded DEF Complete, Stored
    <2>2. QED
      BY <1>4, <2>1, CompleteEffect DEF Complete, TypeOK, States
  <1>5. CASE Saved(t)
    <2>1. Over(t, "returned")
      BY <1>5 DEF Saved
    <2>2. task' \in [Tasks -> TaskStates] /\ slot' \in {0} \cup Tasks
      BY <2>1, OverEffect
    <2>3. QED
      BY <1>5, <2>2 DEF Saved, TypeOK
  <1>6. CASE Interrupted(t)
    <2>1. Over(t, "cancelled") \/ Over(t, "raised")
      BY <1>6 DEF Interrupted
    <2>2. task' \in [Tasks -> TaskStates] /\ slot' \in {0} \cup Tasks
      BY <2>1, OverEffect
    <2>3. lifecycle' \in States /\ disk' \in Stored
      BY <1>6 DEF Interrupted, TypeOK, States
    <2>4. QED
      BY <1>6, <2>2, <2>3 DEF Interrupted, TypeOK
  <1>7. QED
    BY <1>1, <1>2, <1>3, <1>4, <1>5, <1>6 DEF TaskStep

\* What a service does to its lane; the others' stay as they are.
LEMMA LaneChanges ==
  ASSUME TypeOK, NEW l \in Lanes, NEW r \in LaneStates,
         lane' = [lane EXCEPT ![l] = r]
  PROVE  /\ lane' \in [Lanes -> LaneStates] /\ lane'[l] = r
         /\ \A m \in Lanes \ {l} : lane'[m] = lane[m]
  BY DEF TypeOK

Answers == {"none", "move", "stop", "ok", "failed", "refused"}

LEMMA ActEffect ==
  ASSUME TypeOK, NEW l \in Lanes, Act(l),
         lane[l].op \in {"move", "stop", "reconnect"}
  PROVE  /\ lane' \in [Lanes -> LaneStates]
         /\ job' \in [Owners -> Answers]
         /\ lane'[l].at \in {"idle", "sending"}
         /\ lane'[l].joins = lane[l].joins
         /\ \A m \in Lanes \ {l} : lane'[m] = lane[m]
  <1>1. lane[l] \in LaneStates /\ l \in Owners
    BY DEF TypeOK, Owners
  <1>2. job' \in [Owners -> Answers]
    BY <1>1 DEF Act, TypeOK, Answers
  <1>3. CASE lane[l].op = "reconnect"
    <2> DEFINE r == [at |-> "idle", op |-> lane[l].op, joins |-> lane[l].joins,
                     asked |-> lane[l].asked, result |-> "sent"]
    <2>1. r \in LaneStates
      BY <1>1 DEF LaneStates
    <2>2. lane' = [lane EXCEPT ![l] = r]
      BY <1>1, <1>3 DEF Act, TypeOK, LaneStates
    <2>3. QED
      BY <1>2, <2>1, <2>2, LaneChanges
  <1>4. CASE lane[l].op # "reconnect"
    <2> DEFINE r == [at |-> "sending", op |-> lane[l].op, joins |-> lane[l].joins,
                     asked |-> lane[l].asked, result |-> lane[l].result]
    <2>1. r \in LaneStates
      BY <1>1 DEF LaneStates
    <2>2. lane' = [lane EXCEPT ![l] = r]
      BY <1>1, <1>4 DEF Act, TypeOK, LaneStates
    <2>3. QED
      BY <1>2, <2>1, <2>2, LaneChanges
  <1>5. QED
    BY <1>3, <1>4

LEMMA CountsRequests ==
  ASSUME TypeOK, NEW l \in Lanes, lane[l].asked < MaxRequests
  PROVE  lane[l].asked + 1 \in 0 .. MaxRequests
  <1>1. lane[l].asked \in 0 .. MaxRequests
    BY DEF TypeOK, LaneStates
  <1>2. QED
    BY <1>1, BoundsAssumption

\* A service called: a command waits, a run is refused or prepared.
LEMMA AskEffect ==
  ASSUME TypeOK, NEW l \in Lanes, Ask(l)
  PROVE  /\ lane' \in [Lanes -> LaneStates]
         /\ lane'[l].at = "asked" /\ lane'[l].joins = 0
         /\ lane'[l].op \in {"move", "stop", "reconnect"}
         /\ \A m \in Lanes \ {l} : lane'[m] = lane[m]
  <1>1. PICK op \in Offered[l] \ {"calibrate"} :
           lane' = [lane EXCEPT ![l] = [at |-> "asked", op |-> op, joins |-> 0,
                                        asked |-> lane[l].asked + 1, result |-> "none"]]
    BY DEF Ask, TypeOK
  <1>2. op \in {"move", "stop", "reconnect"}
    BY BoundsAssumption DEF Operations
  <1> DEFINE r == [at |-> "asked", op |-> op, joins |-> 0,
                   asked |-> lane[l].asked + 1, result |-> "none"]
  <1>3. r \in LaneStates
    BY <1>2, CountsRequests DEF Ask, LaneStates, Operations
  <1>4. QED
    BY <1>1, <1>2, <1>3, LaneChanges

LEMMA AskRunEffect ==
  ASSUME TypeOK, NEW l \in Lanes, AskRun(l)
  PROVE  /\ lane' \in [Lanes -> LaneStates]
         /\ lane'[l].joins = 0
         /\ lane'[l].at = IF StartRefused THEN "idle" ELSE "preparing"
         /\ "calibrate" \in Offered[l]
         /\ \A m \in Lanes \ {l} : lane'[m] = lane[m]
  <1> DEFINE r == [at |-> IF StartRefused THEN "idle" ELSE "preparing",
                   op |-> "calibrate", joins |-> 0, asked |-> lane[l].asked + 1,
                   result |-> IF StartRefused THEN "refused" ELSE "none"]
  <1>1. lane' = [lane EXCEPT ![l] = r]
    BY DEF AskRun, TypeOK
  <1>2. r \in LaneStates
    BY CountsRequests DEF AskRun, LaneStates, Operations
  <1>3. /\ lane' \in [Lanes -> LaneStates] /\ lane'[l] = r
        /\ \A m \in Lanes \ {l} : lane'[m] = lane[m]
    BY <1>1, <1>2, LaneChanges
  <1>4. "calibrate" \in Offered[l]
    BY DEF AskRun
  <1>5. QED
    BY <1>3, <1>4

\* A command finds a run in the slot, and interrupts it.
LEMMA InterruptEffect ==
  ASSUME TypeOK, NEW l \in Lanes, CancelRun(l), slot # 0, Live(slot)
  PROVE  /\ lane' \in [Lanes -> LaneStates]
         /\ lane'[l].at = "joining" /\ lane'[l].joins = slot
         /\ lane'[l].op = lane[l].op
         /\ \A m \in Lanes \ {l} : lane'[m] = lane[m]
         /\ task' \in [Tasks -> TaskStates]
         /\ task'[slot].at = task[slot].at
         /\ task'[slot].outcome = task[slot].outcome
         /\ \A t \in Tasks \ {slot} : task'[t] = task[t]
  <1>1. lane[l] \in LaneStates /\ slot \in Tasks /\ task[slot] \in TaskStates
    BY DEF TypeOK
  <1> DEFINE r == [at |-> "joining", op |-> lane[l].op, joins |-> slot,
                   asked |-> lane[l].asked, result |-> lane[l].result]
  <1>2. r \in LaneStates
    BY <1>1 DEF LaneStates
  <1>3. lane' = [lane EXCEPT ![l] = r]
    BY <1>1 DEF CancelRun, TypeOK, LaneStates
  <1> DEFINE c == [at |-> task[slot].at, interrupted |-> TRUE,
                   sent |-> task[slot].sent, outcome |-> task[slot].outcome]
  <1>4. c \in TaskStates
    BY <1>1 DEF TaskStates
  <1>5. task' = [task EXCEPT ![slot] = c]
    BY <1>1 DEF CancelRun, TypeOK, TaskStates
  <1>6. /\ task' \in [Tasks -> TaskStates] /\ task'[slot] = c
        /\ \A t \in Tasks \ {slot} : task'[t] = task[t]
    BY <1>1, <1>4, <1>5 DEF TypeOK
  <1>7. /\ lane' \in [Lanes -> LaneStates] /\ lane'[l] = r
        /\ \A m \in Lanes \ {l} : lane'[m] = lane[m]
    BY <1>2, <1>3, LaneChanges
  <1>8. QED
    BY <1>6, <1>7

\* The run a command joined is over: the command raises, acts, or stops the
\* gate on the run's behalf.
LEMMA JoinEffect ==
  ASSUME TypeOK, NEW l \in Lanes, Join(l),
         lane[l].op \in {"move", "stop", "reconnect"}
  PROVE  /\ lane' \in [Lanes -> LaneStates]
         /\ job' \in [Owners -> Answers]
         /\ lane'[l].at \in {"idle", "sending", "stopping"}
         /\ lane'[l].joins = lane[l].joins
         /\ lane'[l].at = "stopping" => lane'[l].op = lane[l].op
         /\ \A m \in Lanes \ {l} : lane'[m] = lane[m]
  <1>1. lane[l] \in LaneStates /\ l \in Owners
    BY DEF TypeOK, Owners
  <1>2. CASE JoinRaises(lane[l].joins)
    <2> DEFINE r == [at |-> "idle", op |-> lane[l].op, joins |-> lane[l].joins,
                     asked |-> lane[l].asked, result |-> "raised"]
    <2>1. r \in LaneStates
      BY <1>1 DEF LaneStates
    <2>2. lane' = [lane EXCEPT ![l] = r] /\ job' = job
      BY <1>1, <1>2 DEF Join, TypeOK, LaneStates
    <2>3. job' \in [Owners -> Answers]
      BY <2>2 DEF TypeOK, Answers
    <2>4. QED
      BY <2>1, <2>2, <2>3, LaneChanges
  <1>3. CASE ~JoinRaises(lane[l].joins) /\ lane[l].op = "stop"
    <2>1. Act(l)
      BY <1>3 DEF Join
    <2>2. QED
      BY <2>1, ActEffect
  <1>4. CASE ~JoinRaises(lane[l].joins) /\ lane[l].op # "stop"
    <2> DEFINE r == [at |-> "stopping", op |-> lane[l].op, joins |-> lane[l].joins,
                     asked |-> lane[l].asked, result |-> lane[l].result]
    <2>1. r \in LaneStates
      BY <1>1 DEF LaneStates
    <2>2. lane' = [lane EXCEPT ![l] = r] /\ job' = [job EXCEPT ![l] = "stop"]
      BY <1>1, <1>4 DEF Join, TypeOK, LaneStates
    <2>3. job' \in [Owners -> Answers]
      BY <1>1, <2>2 DEF TypeOK, Answers
    <2>4. QED
      BY <2>1, <2>2, <2>3, LaneChanges
  <1>5. QED
    BY <1>2, <1>3, <1>4

LEMMA SentEffect ==
  ASSUME TypeOK, NEW l \in Lanes, Sent(l)
  PROVE  /\ lane' \in [Lanes -> LaneStates]
         /\ job' \in [Owners -> Answers]
         /\ lane'[l].at = "idle" /\ lane'[l].joins = lane[l].joins
         /\ \A m \in Lanes \ {l} : lane'[m] = lane[m]
  <1> DEFINE result == IF job[l] = "ok" THEN "sent" ELSE "refused"
             r == [at |-> "idle", op |-> lane[l].op, joins |-> lane[l].joins,
                   asked |-> lane[l].asked, result |-> result]
  <1>1. result \in {"sent", "refused"}
    OBVIOUS
  <1>2. lane[l] \in LaneStates /\ l \in Owners
    BY DEF TypeOK, Owners
  <1>3. lane' = [lane EXCEPT ![l].at = "idle", ![l].result = result]
    BY DEF Sent
  <1> HIDE DEF result
  <1>4. r \in LaneStates
    BY <1>1, <1>2 DEF LaneStates
  <1>5. lane'[l] = r
    BY <1>2, <1>3 DEF TypeOK, LaneStates
  <1>6. lane' = [lane EXCEPT ![l] = lane'[l]]
    BY <1>3 DEF TypeOK
  <1>7. lane' = [lane EXCEPT ![l] = r]
    BY <1>5, <1>6
  <1>8. job' \in [Owners -> Answers]
    BY <1>2 DEF Sent, TypeOK, Answers
  <1>9. QED
    BY <1>4, <1>7, <1>8, LaneChanges

LEMMA BornEffect ==
  ASSUME TypeOK, NEW t, t \in Tasks, task' = [task EXCEPT ![t].at = "building"]
  PROVE  /\ task' \in [Tasks -> TaskStates]
         /\ task'[t].at = "building"
         /\ task'[t].interrupted = task[t].interrupted
         /\ task'[t].outcome = task[t].outcome
         /\ \A u \in Tasks \ {t} : task'[u] = task[u]
  <1> DEFINE c == [at |-> "building", interrupted |-> task[t].interrupted,
                   sent |-> task[t].sent, outcome |-> task[t].outcome]
  <1>1. task[t] \in TaskStates
    BY DEF TypeOK
  <1>2. c \in TaskStates
    BY <1>1 DEF TaskStates
  <1>3. task'[t] = c
    BY <1>1 DEF TypeOK, TaskStates
  <1>4. task' = [task EXCEPT ![t] = task'[t]]
    BY DEF TypeOK
  <1>5. task' \in [Tasks -> TaskStates] /\ \A u \in Tasks \ {t} : task'[u] = task[u]
    BY <1>2, <1>3, <1>4 DEF TypeOK
  <1>6. QED
    BY <1>3, <1>5

\* The next run is born in the slot, or the service raises.
LEMMA StartEffect ==
  ASSUME TypeOK, NEW l \in Lanes, StartRun(l)
  PROVE  /\ lane' \in [Lanes -> LaneStates]
         /\ lane'[l].at = "idle" /\ lane'[l].joins = lane[l].joins
         /\ \A m \in Lanes \ {l} : lane'[m] = lane[m]
         /\ \/ UNCHANGED <<lifecycle, runs, slot, task>>
            \/ /\ lifecycle # "running" /\ lifecycle' = "running"
               /\ runs' = runs + 1 /\ runs' \in Tasks /\ slot' = runs'
               /\ task' \in [Tasks -> TaskStates]
               /\ task'[runs'].at = "building"
               /\ task'[runs'].interrupted = task[runs'].interrupted
               /\ task'[runs'].outcome = task[runs'].outcome
               /\ \A t \in Tasks \ {runs'} : task'[t] = task[t]
  <1>1. lane[l] \in LaneStates
    BY DEF TypeOK
  <1>2. \E result \in {"sent", "raised"} :
           lane' = [lane EXCEPT ![l] = [at |-> "idle", op |-> lane[l].op,
               joins |-> lane[l].joins, asked |-> lane[l].asked, result |-> result]]
    BY <1>1 DEF StartRun, TypeOK, LaneStates
  <1>3. /\ lane' \in [Lanes -> LaneStates]
        /\ lane'[l].at = "idle" /\ lane'[l].joins = lane[l].joins
        /\ \A m \in Lanes \ {l} : lane'[m] = lane[m]
    <2>1. PICK result \in {"sent", "raised"} :
             lane' = [lane EXCEPT ![l] = [at |-> "idle", op |-> lane[l].op,
                 joins |-> lane[l].joins, asked |-> lane[l].asked, result |-> result]]
      BY <1>2
    <2> DEFINE r == [at |-> "idle", op |-> lane[l].op, joins |-> lane[l].joins,
                     asked |-> lane[l].asked, result |-> result]
    <2>2. r \in LaneStates
      BY <1>1 DEF LaneStates
    <2>3. QED
      BY <2>1, <2>2, LaneChanges
  <1>4. CASE "running" \in Allowed(lifecycle)
    <2>1. lifecycle # "running" /\ lifecycle' = "running"
      BY <1>4 DEF StartRun, Allowed
    <2>2. runs' = runs + 1 /\ slot' = runs' /\ task' = [task EXCEPT ![runs'].at = "building"]
      BY <1>4 DEF StartRun
    <2>3. runs' \in Tasks
      <3>1. runs \in 0 .. MaxRuns /\ runs < MaxRuns
        BY DEF StartRun, TypeOK
      <3>2. QED
        BY <2>2, <3>1, BoundsAssumption DEF Tasks
    <2>4. QED
      BY <1>3, <2>1, <2>2, <2>3, BornEffect
  <1>5. CASE "running" \notin Allowed(lifecycle)
    BY <1>3, <1>5 DEF StartRun
  <1>6. QED
    BY <1>4, <1>5

-----------------------------------------------------------------------------
(* The inductive invariant. *)

\* A run under way is the one in the slot, and the only one.
LEMMA OnlyRun ==
  ASSUME RunInv, NEW t \in Tasks, Live(t)
  PROVE  /\ slot = t
         /\ \A u \in Tasks \ {t} : ~Live(u)
         /\ lifecycle = "running" <=> task[t].at \in {"building", "sending"}
  <1>1. slot = t /\ \A u \in Tasks \ {t} : ~Live(u)
    BY DEF RunInv, RunIsCancellable
  <1>2. QED
    BY <1>1 DEF RunInv, RunningIsTrue, Live

LEMMA InitInv == Init => RunInv
  <1> SUFFICES ASSUME Init PROVE RunInv
    OBVIOUS
  <1>1. TypeOK
    BY InitType
  <1>2. /\ slot = 0 /\ runs = 0 /\ lifecycle \in {"calibrated", "not_calibrated"}
        /\ \A t \in Tasks : task[t].at = "unborn" /\ task[t].interrupted = FALSE
        /\ \A l \in Lanes : lane[l].at = "idle" /\ lane[l].joins = 0
    BY DEF Init, Unborn, FreshLane
  <1>3. SlotInv /\ RunningIsTrue /\ RunIsCancellable /\ RunEndsBeforeCommand
    BY <1>2 DEF SlotInv, RunningIsTrue, RunIsCancellable, RunEndsBeforeCommand, Live
  <1>4. TaskInv
    BY <1>2 DEF TaskInv, Tasks
  <1>5. LaneInv
    BY <1>2 DEF LaneInv
  <1>6. QED
    BY <1>1, <1>3, <1>4, <1>5 DEF RunInv

\* What a step of a run does, seen from outside: it goes on measuring, begins
\* to save, or leaves the slot.
LEMMA RunGoesOn ==
  ASSUME RunInv, TypeOK', NEW t \in Tasks, Live(t), UNCHANGED <<runs, lane>>,
         \A u \in Tasks \ {t} : task'[u] = task[u],
         task'[t].interrupted = FALSE,
         \/ /\ task'[t].at \in {"building", "sending"} /\ slot' = slot
            /\ lifecycle' = "running"
         \/ /\ task'[t].at = "saving" /\ slot' = slot
            /\ lifecycle' = "calibrated"
         \/ /\ task'[t].at = "ended" /\ slot' = 0
            /\ lifecycle' # "running"
  PROVE  RunInv'
  <1>1. slot = t /\ \A u \in Tasks \ {t} : ~Live(u)
    BY OnlyRun
  <1>2. \A u \in Tasks \ {t} : ~Live(u)'
    BY <1>1 DEF Live
  <1>3. SlotInv' /\ RunIsCancellable'
    BY <1>1, <1>2 DEF SlotInv, RunIsCancellable, Live
  <1>4. RunningIsTrue'
    <2>1. \A u \in Tasks \ {t} : task'[u].at \notin {"building", "sending", "saving"}
      BY <1>2 DEF Live
    <2>2. QED
      BY <2>1 DEF RunningIsTrue
  <1>5. TaskInv'
    <2>1. task[t].at # "unborn" /\ task'[t].at # "unborn"
      BY DEF Live
    <2>2. \A u \in Tasks : task'[u].at = "unborn" <=> u > runs'
      BY <2>1 DEF RunInv, TaskInv
    <2>3. \A u \in Tasks : task'[u].interrupted => Live(u)'
      BY <1>2 DEF RunInv, TaskInv, Live
    <2>4. \A u \in Tasks : task'[u].at = "saving" => lifecycle' = "calibrated"
      BY <1>2 DEF Live
    <2>5. QED
      BY <2>2, <2>3, <2>4 DEF TaskInv
  <1>6. LaneInv'
    BY <1>1 DEF RunInv, LaneInv, Tasks
  <1>7. RunEndsBeforeCommand'
    <2>1. \A l \in Lanes : lane[l].joins # 0 => lane[l].joins \in Tasks
      BY DEF RunInv, TypeOK, LaneStates
    <2>2. \A u \in Tasks : ~Live(u) => ~Live(u)'
      BY <1>2
    <2>3. QED
      BY <2>1, <2>2 DEF RunInv, RunEndsBeforeCommand
  <1>8. QED
    BY <1>3, <1>4, <1>5, <1>6, <1>7 DEF RunInv

LEMMA TaskPreserves ==
  ASSUME RunInv, NEW t \in Tasks, TaskStep(t)
  PROVE  RunInv'
  <1>1. TypeOK /\ TypeOK' /\ UNCHANGED <<runs, lane>>
    BY TaskType DEF RunInv, TaskStep, Command, Commanded, Fail, Complete, Saved, Interrupted
  <1>2. Live(t)
    BY DEF TaskStep, Command, Commanded, Fail, Complete, Saved, Interrupted, Live,
           RunInv, TaskInv
  <1>3. slot = t /\ (lifecycle = "running" <=> task[t].at \in {"building", "sending"})
    BY <1>2, OnlyRun
  <1>4. CASE Command(t)
    <2>1. /\ task'[t].at = "sending" /\ task'[t].interrupted = FALSE
          /\ \A u \in Tasks \ {t} : task'[u] = task[u]
      BY <1>1, <1>4, CommandEffect
    <2>2. slot' = slot /\ lifecycle' = "running"
      BY <1>3, <1>4 DEF Command
    <2>3. QED
      BY <1>1, <1>2, <2>1, <2>2, RunGoesOn
  <1>5. CASE Commanded(t)
    <2>1. /\ task'[t].at = "building" /\ task'[t].interrupted = FALSE
          /\ \A u \in Tasks \ {t} : task'[u] = task[u]
      BY <1>1, <1>5, CommandedEffect
    <2>2. slot' = slot /\ lifecycle' = "running"
      BY <1>3, <1>5 DEF Commanded
    <2>3. QED
      BY <1>1, <1>2, <2>1, <2>2, RunGoesOn
  <1>6. CASE Complete(t)
    <2>1. /\ task'[t].at = "saving" /\ task'[t].interrupted = FALSE
          /\ \A u \in Tasks \ {t} : task'[u] = task[u]
      BY <1>1, <1>6, CompleteEffect
    <2>2. slot' = slot /\ lifecycle' = "calibrated"
      BY <1>6 DEF Complete
    <2>3. QED
      BY <1>1, <1>2, <2>1, <2>2, RunGoesOn
  <1>7. ASSUME NEW o \in {"returned", "cancelled", "raised"}, Over(t, o),
               lifecycle' # "running"
        PROVE  RunInv'
    <2>1. /\ task'[t].at = "ended" /\ task'[t].interrupted = FALSE /\ slot' = 0
          /\ \A u \in Tasks \ {t} : task'[u] = task[u]
      BY <1>1, <1>3, <1>7, OverEffect
    <2>2. QED
      BY <1>1, <1>2, <1>7, <2>1, RunGoesOn
  <1>8. CASE Fail(t)
    BY <1>7, <1>8 DEF Fail
  <1>9. CASE Saved(t)
    <2>1. lifecycle' # "running"
      BY <1>3, <1>9 DEF Saved
    <2>2. QED
      BY <1>7, <1>9, <2>1 DEF Saved
  <1>10. CASE Interrupted(t)
    BY <1>7, <1>10 DEF Interrupted, Allowed
  <1>11. QED
    BY <1>4, <1>5, <1>6, <1>8, <1>9, <1>10 DEF TaskStep

\* What a step of a service does that leaves calibration alone.
LEMMA ServiceGoesOn ==
  ASSUME RunInv, TypeOK', NEW l \in Lanes, UNCHANGED <<lifecycle, slot, task, runs>>,
         \A m \in Lanes \ {l} : lane'[m] = lane[m],
         lane'[l].at # "joining",
         lane'[l].joins \in {0, lane[l].joins},
         lane'[l].at \in {"asked", "stopping"}
             => lane'[l].op \in {"move", "stop", "reconnect"},
         lane'[l].at = "preparing" => slot = 0 /\ "calibrate" \in Offered[l],
         lane'[l].joins # 0 /\ lane'[l].at \in {"stopping", "sending"}
             => ~Live(lane'[l].joins)
  PROVE  RunInv'
  <1>1. SlotInv' /\ RunIsCancellable' /\ RunningIsTrue' /\ TaskInv'
    BY DEF RunInv, SlotInv, RunIsCancellable, RunningIsTrue, TaskInv, Live
  <1>2. LaneInv'
    <2>1. 0 <= runs
      BY DEF RunInv, TypeOK
    <2>2. lane'[l].joins <= runs
      BY <2>1 DEF RunInv, LaneInv
    <2>3. QED
      BY <2>2 DEF RunInv, LaneInv
  <1>3. RunEndsBeforeCommand'
    BY DEF RunInv, RunEndsBeforeCommand, Live
  <1>4. QED
    BY <1>1, <1>2, <1>3 DEF RunInv

LEMMA AskPreserves ==
  ASSUME RunInv, NEW l \in Lanes, Ask(l)
  PROVE  RunInv'
  <1>1. TypeOK
    BY DEF RunInv
  <1>2. /\ lane' \in [Lanes -> LaneStates]
        /\ lane'[l].at = "asked" /\ lane'[l].joins = 0
        /\ lane'[l].op \in {"move", "stop", "reconnect"}
        /\ \A m \in Lanes \ {l} : lane'[m] = lane[m]
    BY <1>1, AskEffect
  <1>3. UNCHANGED <<lifecycle, slot, task, runs, profile, disk, job, restarts>>
    BY DEF Ask
  <1>4. TypeOK'
    BY <1>1, <1>2, <1>3 DEF TypeOK
  <1>5. QED
    BY <1>2, <1>3, <1>4, ServiceGoesOn

LEMMA AskRunPreserves ==
  ASSUME RunInv, NEW l \in Lanes, AskRun(l)
  PROVE  RunInv'
  <1>1. TypeOK
    BY DEF RunInv
  <1>2. /\ lane' \in [Lanes -> LaneStates] /\ lane'[l].joins = 0
        /\ lane'[l].at = IF StartRefused THEN "idle" ELSE "preparing"
        /\ "calibrate" \in Offered[l]
        /\ \A m \in Lanes \ {l} : lane'[m] = lane[m]
    BY <1>1, AskRunEffect
  <1>3. UNCHANGED <<lifecycle, slot, task, runs, profile, disk, job, restarts>>
    BY DEF AskRun
  <1>4. TypeOK'
    BY <1>1, <1>2, <1>3 DEF TypeOK
  <1>5. ~StartRefused => slot = 0
    BY DEF RunInv, SlotInv, StartRefused
  <1>6. lane'[l].at \in {"idle", "preparing"}
        /\ (lane'[l].at = "preparing" => slot = 0 /\ "calibrate" \in Offered[l])
    BY <1>2, <1>5
  <1>7. QED
    BY <1>2, <1>3, <1>4, <1>6, ServiceGoesOn

LEMMA JoinPreserves ==
  ASSUME RunInv, NEW l \in Lanes, Join(l)
  PROVE  RunInv'
  <1>1. TypeOK /\ lane[l].op \in {"move", "stop", "reconnect"} /\ ~Live(lane[l].joins)
    BY DEF RunInv, LaneInv, Join, Joined
  <1>2. /\ lane' \in [Lanes -> LaneStates] /\ job' \in [Owners -> Answers]
        /\ lane'[l].at \in {"idle", "sending", "stopping"}
        /\ lane'[l].joins = lane[l].joins
        /\ lane'[l].at = "stopping" => lane'[l].op = lane[l].op
        /\ \A m \in Lanes \ {l} : lane'[m] = lane[m]
    BY <1>1, JoinEffect
  <1>3. UNCHANGED <<lifecycle, slot, task, runs, profile, disk, restarts>>
    BY DEF Join
  <1>4. TypeOK'
    BY <1>1, <1>2, <1>3 DEF TypeOK, Answers
  <1>5. QED
    BY <1>1, <1>2, <1>3, <1>4, ServiceGoesOn

LEMMA StoppedPreserves ==
  ASSUME RunInv, NEW l \in Lanes, Stopped(l)
  PROVE  RunInv'
  <1>1. /\ TypeOK /\ lane[l].op \in {"move", "stop", "reconnect"}
        /\ lane[l].joins # 0 => ~Live(lane[l].joins)
    BY DEF RunInv, LaneInv, RunEndsBeforeCommand, Stopped
  <1>2. Act(l)
    BY DEF Stopped
  <1>3. /\ lane' \in [Lanes -> LaneStates] /\ job' \in [Owners -> Answers]
        /\ lane'[l].at \in {"idle", "sending"} /\ lane'[l].joins = lane[l].joins
        /\ \A m \in Lanes \ {l} : lane'[m] = lane[m]
    BY <1>1, <1>2, ActEffect
  <1>4. UNCHANGED <<lifecycle, slot, task, runs, profile, disk, restarts>>
    BY DEF Stopped
  <1>5. TypeOK'
    BY <1>1, <1>3, <1>4 DEF TypeOK, Answers
  <1>6. QED
    BY <1>1, <1>3, <1>4, <1>5, ServiceGoesOn

LEMMA SentPreserves ==
  ASSUME RunInv, NEW l \in Lanes, Sent(l)
  PROVE  RunInv'
  <1>1. TypeOK
    BY DEF RunInv
  <1>2. /\ lane' \in [Lanes -> LaneStates] /\ job' \in [Owners -> Answers]
        /\ lane'[l].at = "idle" /\ lane'[l].joins = lane[l].joins
        /\ \A m \in Lanes \ {l} : lane'[m] = lane[m]
    BY <1>1, SentEffect
  <1>3. UNCHANGED <<lifecycle, slot, task, runs, profile, disk, restarts>>
    BY DEF Sent
  <1>4. TypeOK'
    BY <1>1, <1>2, <1>3 DEF TypeOK, Answers
  <1>5. QED
    BY <1>2, <1>3, <1>4, ServiceGoesOn

\* A command that finds a run interrupts it and joins it; with none, it acts.
LEMMA CancelRunPreserves ==
  ASSUME RunInv, NEW l \in Lanes, CancelRun(l)
  PROVE  RunInv'
  <1>1. TypeOK /\ lane[l].at = "asked" /\ lane[l].op \in {"move", "stop", "reconnect"}
    BY DEF RunInv, LaneInv, CancelRun
  <1>2. UNCHANGED <<lifecycle, runs, profile, disk, restarts>>
    BY DEF CancelRun
  <1>3. CASE ~(slot # 0 /\ Live(slot))
    <2>1. slot' = 0 /\ slot = 0 /\ task' = task /\ Act(l)
      BY <1>3 DEF RunInv, SlotInv, CancelRun
    <2>2. /\ lane' \in [Lanes -> LaneStates] /\ job' \in [Owners -> Answers]
          /\ lane'[l].at \in {"idle", "sending"} /\ lane'[l].joins = lane[l].joins
          /\ \A m \in Lanes \ {l} : lane'[m] = lane[m]
      BY <1>1, <2>1, ActEffect
    <2>3. TypeOK'
      BY <1>1, <1>2, <2>1, <2>2 DEF TypeOK, Answers
    <2>4. \A t \in Tasks : ~Live(t)
      BY <2>1 DEF RunInv, RunIsCancellable, Tasks
    <2>5. lane'[l].joins # 0 => ~Live(lane'[l].joins)
      BY <2>2, <2>4 DEF LaneStates
    <2>6. QED
      BY <1>2, <2>1, <2>2, <2>3, <2>5, ServiceGoesOn
  <1>4. CASE slot # 0 /\ Live(slot)
    <2>1. /\ lane' \in [Lanes -> LaneStates]
          /\ lane'[l].at = "joining" /\ lane'[l].joins = slot
          /\ lane'[l].op = lane[l].op
          /\ \A m \in Lanes \ {l} : lane'[m] = lane[m]
          /\ task' \in [Tasks -> TaskStates]
          /\ task'[slot].at = task[slot].at
          /\ \A t \in Tasks \ {slot} : task'[t] = task[t]
      BY <1>1, <1>4, InterruptEffect
    <2>2. slot' = slot /\ job' = job /\ slot \in Tasks
      BY <1>1, <1>4 DEF CancelRun, TypeOK
    <2>3. TypeOK'
      BY <1>1, <1>2, <2>1, <2>2 DEF TypeOK
    <2>4. \A t \in Tasks : task'[t].at = task[t].at
      BY <2>1, <2>2
    <2>5. \A t \in Tasks : Live(t)' <=> Live(t)
      BY <2>4 DEF Live
    <2>6. SlotInv' /\ RunIsCancellable' /\ RunningIsTrue'
      BY <1>2, <2>2, <2>4, <2>5
      DEF RunInv, SlotInv, RunIsCancellable, RunningIsTrue
    <2>7. TaskInv'
      BY <1>2, <1>4, <2>1, <2>4, <2>5 DEF RunInv, TaskInv
    <2>8. LaneInv'
      <3>1. slot <= runs
        BY <1>4, <2>2 DEF RunInv, TaskInv, Live, TypeOK, Tasks
      <3>2. QED
        BY <1>1, <1>2, <1>4, <2>1, <2>2, <3>1 DEF RunInv, LaneInv
    <2>9. RunEndsBeforeCommand'
      <3>1. \A m \in Lanes : lane[m].joins \in {0} \cup Tasks
        BY <1>1 DEF TypeOK, LaneStates
      <3>2. QED
        BY <2>1, <2>5, <3>1 DEF RunInv, RunEndsBeforeCommand
    <2>10. QED
      BY <2>3, <2>6, <2>7, <2>8, <2>9 DEF RunInv
  <1>5. QED
    BY <1>3, <1>4

\* The run that starts is the only one: the slot was free when the service was
\* asked, and only this lane fills it.
LEMMA StartRunPreserves ==
  ASSUME RunInv, NEW l \in Lanes, StartRun(l)
  PROVE  RunInv'
  <1>1. /\ TypeOK /\ slot = 0 /\ "calibrate" \in Offered[l]
        /\ lane[l].at = "preparing"
    BY DEF RunInv, LaneInv, StartRun
  <1>2. UNCHANGED <<profile, disk, job, restarts>>
    BY DEF StartRun
  <1>3. /\ lane' \in [Lanes -> LaneStates]
        /\ lane'[l].at = "idle" /\ lane'[l].joins = lane[l].joins
        /\ \A m \in Lanes \ {l} : lane'[m] = lane[m]
    BY <1>1, StartEffect
  <1>4. CASE UNCHANGED <<lifecycle, runs, slot, task>>
    <2>1. TypeOK'
      BY <1>1, <1>2, <1>3, <1>4 DEF TypeOK
    <2>2. QED
      BY <1>3, <1>4, <2>1, ServiceGoesOn
  <1>5. ASSUME lifecycle # "running", lifecycle' = "running",
               runs' = runs + 1, runs' \in Tasks, slot' = runs',
               task' \in [Tasks -> TaskStates],
               task'[runs'].at = "building",
               task'[runs'].interrupted = task[runs'].interrupted,
               \A t \in Tasks \ {runs'} : task'[t] = task[t]
        PROVE  RunInv'
    <2>1. TypeOK'
      <3>1. runs' \in 0 .. MaxRuns
        BY <1>5 DEF Tasks
      <3>2. QED
        BY <1>1, <1>2, <1>3, <1>5, <3>1 DEF TypeOK, States
    <2>2. \A t \in Tasks : ~Live(t)
      BY <1>1 DEF RunInv, RunIsCancellable, Tasks
    <2>3. \A t \in Tasks \ {runs'} : ~Live(t)'
      BY <1>5, <2>2 DEF Live
    <2>4. SlotInv' /\ RunIsCancellable'
      BY <1>5, <2>3 DEF SlotInv, RunIsCancellable, Live
    <2>5. RunningIsTrue'
      BY <1>5 DEF RunningIsTrue
    <2>6. runs \in Nat
      BY <1>1 DEF TypeOK
    <2>7. TaskInv'
      <3>1. \A t \in Tasks : task'[t].at = "unborn" <=> t > runs'
        <4>1. \A t \in Tasks : task[t].at = "unborn" <=> t > runs
          BY DEF RunInv, TaskInv
        <4>2. \A t \in Tasks \ {runs'} : t > runs <=> t > runs'
          BY <1>5, <2>6 DEF Tasks
        <4>3. QED
          BY <1>5, <2>6, <4>1, <4>2
      <3>2. \A t \in Tasks : task'[t].interrupted => Live(t)'
        <4>1. \A t \in Tasks : ~task[t].interrupted
          BY <2>2 DEF RunInv, TaskInv
        <4>2. QED
          BY <1>5, <4>1 DEF Live
      <3>3. \A t \in Tasks : task'[t].at # "saving"
        BY <1>5, <2>2 DEF Live
      <3>4. QED
        BY <3>1, <3>2, <3>3 DEF TaskInv
    <2>8. \A m \in Lanes : lane'[m].joins = lane[m].joins
      BY <1>3
    <2>9. \A m \in Lanes : lane[m].joins <= runs /\ lane[m].joins \in {0} \cup Tasks
      BY <1>1 DEF RunInv, LaneInv, TypeOK, LaneStates
    <2>10. LaneInv'
      <3>1. \A m \in Lanes : lane'[m].joins <= runs'
        BY <1>5, <2>6, <2>8, <2>9 DEF Tasks
      <3>2. \A m \in Lanes : lane'[m].at # "preparing"
        BY <1>1, <1>3, OneStarter DEF RunInv, LaneInv
      <3>3. QED
        BY <1>3, <3>1, <3>2 DEF RunInv, LaneInv
    <2>11. RunEndsBeforeCommand'
      <3>1. \A m \in Lanes : lane'[m].joins # runs'
        BY <1>5, <2>6, <2>8, <2>9 DEF Tasks
      <3>2. \A m \in Lanes : lane'[m].joins # 0
                => task'[lane'[m].joins].at \notin {"building", "sending", "saving"}
        BY <2>3, <2>8, <2>9, <3>1 DEF Live
      <3>3. QED
        BY <3>2 DEF RunEndsBeforeCommand, Live
    <2>12. QED
      BY <2>1, <2>4, <2>5, <2>7, <2>10, <2>11 DEF RunInv
  <1>6. QED
    BY <1>1, <1>4, <1>5, StartEffect

LEMMA RestartPreserves ==
  ASSUME RunInv, Restart
  PROVE  RunInv'
  <1>1. TypeOK
    BY DEF RunInv
  <1>2. /\ slot' = 0 /\ runs' = runs
        /\ job' = [o \in Owners |-> "none"]
    BY DEF Restart
  <1>3. \A t \in Tasks :
           /\ task'[t] \in TaskStates /\ ~Live(t)'
           /\ task'[t].at \notin {"building", "sending", "saving"}
           /\ task'[t].interrupted = FALSE
           /\ task'[t].at = "unborn" <=> task[t].at = "unborn"
    <2> TAKE t \in Tasks
    <2>1. task[t] \in TaskStates
      BY <1>1 DEF TypeOK
    <2>2. CASE Live(t)
      <3>1. task'[t] = [at |-> "ended", interrupted |-> FALSE, sent |-> task[t].sent,
                        outcome |-> "killed"]
        BY <2>1, <2>2 DEF Restart, TaskStates
      <3>2. task[t].at # "unborn"
        BY <2>2 DEF Live
      <3>3. task'[t] \in TaskStates
        BY <2>1, <3>1 DEF TaskStates
      <3>4. QED
        BY <3>1, <3>2, <3>3 DEF Live
    <2>3. CASE ~Live(t)
      <3>1. task'[t] = task[t]
        BY <2>3 DEF Restart
      <3>2. task[t].interrupted = FALSE
        BY <2>1, <2>3 DEF RunInv, TaskInv, TaskStates
      <3>3. QED
        BY <2>1, <2>3, <3>1, <3>2 DEF Live
    <2>4. QED
      BY <2>2, <2>3
  <1>4. task' \in [Tasks -> TaskStates]
    <2>1. DOMAIN task' = Tasks /\ task' = [t \in Tasks |-> task'[t]]
      BY DEF Restart
    <2>2. QED
      BY <1>3, <2>1
  <1>5. \A l \in Lanes :
           /\ lane'[l] \in LaneStates
           /\ lane'[l].at = "idle" /\ lane'[l].joins = 0
    <2> TAKE l \in Lanes
    <2>1. lane[l] \in LaneStates
      BY <1>1 DEF TypeOK
    <2>2. lane'[l] = [at |-> "idle", op |-> "none", joins |-> 0,
                      asked |-> lane[l].asked, result |-> "none"]
      BY DEF Restart, FreshLane
    <2>3. QED
      BY <2>1, <2>2 DEF LaneStates
  <1>6. lane' \in [Lanes -> LaneStates]
    <2>1. lane' = [l \in Lanes |-> lane'[l]]
      BY DEF Restart
    <2>2. QED
      BY <1>5, <2>1
  <1>7. PICK file \in {disk, profile} : Load(file)
    BY DEF Restart
  <1>8. file \in Stored
    BY <1>1, <1>7 DEF TypeOK
  <1>9. /\ profile' \in Stored /\ disk' \in Stored
        /\ lifecycle' \in {"calibrated", "not_calibrated"}
    BY <1>7, <1>8, LoadingIsStable DEF Load
  <1>10. restarts' \in 0 .. MaxRestarts
    <2>1. restarts \in 0 .. MaxRestarts /\ restarts < MaxRestarts /\ restarts' = restarts + 1
      BY <1>1 DEF Restart, TypeOK
    <2>2. QED
      BY <2>1, BoundsAssumption
  <1>11. TypeOK'
    BY <1>1, <1>2, <1>4, <1>6, <1>9, <1>10 DEF TypeOK, States
  <1>12. SlotInv' /\ RunIsCancellable' /\ RunningIsTrue'
    BY <1>2, <1>3, <1>9 DEF SlotInv, RunIsCancellable, RunningIsTrue
  <1>13. TaskInv'
    BY <1>2, <1>3 DEF RunInv, TaskInv
  <1>14. LaneInv' /\ RunEndsBeforeCommand'
    <2>1. 0 <= runs'
      BY <1>1, <1>2 DEF TypeOK
    <2>2. QED
      BY <1>5, <2>1 DEF LaneInv, RunEndsBeforeCommand
  <1>15. QED
    BY <1>11, <1>12, <1>13, <1>14 DEF RunInv

LEMMA AnswerPreserves ==
  ASSUME RunInv, NEW o \in Owners, Answer(o)
  PROVE  RunInv'
  <1>1. TypeOK'
    BY DEF RunInv, TypeOK, Answer
  <1>2. UNCHANGED <<lifecycle, slot, task, runs, lane>>
    BY DEF Answer
  <1>3. QED
    BY <1>1, <1>2 DEF RunInv, SlotInv, TaskInv, LaneInv, RunningIsTrue,
                      RunIsCancellable, RunEndsBeforeCommand, Live

LEMMA NextPreserves == RunInv /\ [Next]_vars => RunInv'
  <1> SUFFICES ASSUME RunInv, [Next]_vars PROVE RunInv'
    OBVIOUS
  <1>1. CASE UNCHANGED vars
    BY <1>1 DEF vars, RunInv, TypeOK, SlotInv, TaskInv, LaneInv, RunningIsTrue,
                RunIsCancellable, RunEndsBeforeCommand, Live
  <1>2. CASE Next
    BY <1>2, RestartPreserves, AnswerPreserves, TaskPreserves, AskPreserves,
       AskRunPreserves, CancelRunPreserves, JoinPreserves, StoppedPreserves,
       SentPreserves, StartRunPreserves
    DEF Next, LaneStep
  <1>3. QED
    BY <1>1, <1>2

\* The inductive invariant holds in every reachable state.
THEOREM RunInvariant == Spec => []RunInv
  BY InitInv, NextPreserves, PTL DEF Spec

\* Every variable keeps its type.
THEOREM CalibrationTypes == Spec => []TypeOK
  <1>1. RunInv => TypeOK
    BY DEF RunInv
  <1>2. QED
    BY <1>1, RunInvariant, PTL

\* The lifecycle says running exactly while a run measures.
THEOREM LifecycleCorrect == Spec => []RunningIsTrue
  <1>1. RunInv => RunningIsTrue
    BY DEF RunInv
  <1>2. QED
    BY <1>1, RunInvariant, PTL

\* A run under way is always the one in the slot.
THEOREM NoOrphan == Spec => []RunIsCancellable
  <1>1. RunInv => RunIsCancellable
    BY DEF RunInv
  <1>2. QED
    BY <1>1, RunInvariant, PTL

\* A command that interrupts a run acts only once the run's coroutine is over.
THEOREM CommandsWait == Spec => []RunEndsBeforeCommand
  <1>1. RunInv => RunEndsBeforeCommand
    BY DEF RunInv
  <1>2. QED
    BY <1>1, RunInvariant, PTL

-----------------------------------------------------------------------------
(* The store.  A timed run writes a version that loading refuses, so the   *)
(* property holds where no run is timed.                                   *)

LEMMA InitStore == Init => StoreInv
  <1> SUFFICES ASSUME Init PROVE StoreInv
    OBVIOUS
  <1>1. PICK file \in {NoProfile} \cup
                [mode : Modes, version : OldVersions, run : {0}] :
           /\ lifecycle = IF Supported(file) THEN "calibrated" ELSE "not_calibrated"
           /\ profile = LoadedFrom(file)
           /\ disk = IF Supported(file) THEN Migrated(file) ELSE file
    BY DEF Init
  <1>2. file \in Stored
    BY ModesAssumption, BoundsAssumption DEF Stored, Profiles
  <1>3. LoadedFrom(profile) = profile
    BY <1>1, <1>2, LoadingIsStable
  <1>4. lifecycle = "calibrated" => disk = profile
    BY <1>1, <1>2, LoadingIsStable
  <1>5. QED
    BY <1>3, <1>4 DEF StoreInv

\* Loading leaves what it shows as calibrated in the file.
LEMMA LoadStores ==
  ASSUME NEW file \in Stored, Load(file)
  PROVE  StoreInv'
  <1>1. LoadedFrom(profile') = profile'
    BY LoadingIsStable DEF Load
  <1>2. lifecycle' = "calibrated" => disk' = profile'
    BY LoadingIsStable DEF Load
  <1>3. QED
    BY <1>1, <1>2 DEF StoreInv, LoadedFrom, Supported, Migrated

LEMMA TaskStores ==
  ASSUME "time" \notin Modes, RunInv, StoreInv, NEW t \in Tasks, TaskStep(t)
  PROVE  StoreInv'
  <1>1. TypeOK
    BY DEF RunInv
  <1>2. CASE Command(t) \/ Commanded(t)
    <2>1. Live(t) /\ task[t].at # "saving"
      BY <1>2 DEF Command, Commanded, Live
    <2>2. lifecycle = "running"
      BY <2>1, OnlyRun DEF Live
    <2>3. lifecycle' = "running" /\ profile' = profile
      BY <1>2, <2>2 DEF Command, Commanded
    <2>4. QED
      BY <2>3 DEF StoreInv, LoadedFrom, Supported, Migrated
  <1>3. CASE Fail(t)
    <2>1. lifecycle' = "failed" /\ profile' = profile
      BY <1>3 DEF Fail
    <2>2. QED
      BY <2>1 DEF StoreInv, LoadedFrom, Supported, Migrated
  <1>4. CASE Complete(t)
    <2>1. LoadedFrom(profile') = profile'
      BY <1>4, BuiltIsLoaded DEF Complete
    <2>2. task'[t].at = "saving"
      BY <1>1, <1>4, CompleteEffect
    <2>3. QED
      BY <2>1, <2>2 DEF StoreInv, LoadedFrom, Supported, Migrated
  <1>5. CASE Saved(t)
    <2>1. disk' = profile /\ profile' = profile
      BY <1>5 DEF Saved
    <2>2. QED
      BY <2>1 DEF StoreInv, LoadedFrom, Supported, Migrated
  <1>6. CASE Interrupted(t)
    <2>1. profile' = profile
      BY <1>6 DEF Interrupted
    <2>2. lifecycle' = "cancelled" \/ Over(t, "raised")
      BY <1>6 DEF Interrupted
    <2>3. lifecycle' = "cancelled" \/ task'[t].outcome = "raised"
      BY <1>1, <2>2, OverEffect
    <2>4. QED
      BY <2>1, <2>3 DEF StoreInv, LoadedFrom, Supported, Migrated
  <1>7. QED
    BY <1>2, <1>3, <1>4, <1>5, <1>6 DEF TaskStep

\* A step that changes neither what is stored nor how any run stands.
LEMMA StoreUntouched ==
  ASSUME StoreInv, UNCHANGED <<lifecycle, profile, disk>>,
         \A t \in Tasks : /\ task'[t].at = task[t].at
                          /\ task'[t].outcome = task[t].outcome
  PROVE  StoreInv'
  BY DEF StoreInv, LoadedFrom, Supported, Migrated

LEMMA LaneStores ==
  ASSUME RunInv, StoreInv, NEW l \in Lanes, Ask(l) \/ AskRun(l) \/ LaneStep(l)
  PROVE  StoreInv'
  <1>1. TypeOK
    BY DEF RunInv
  <1>2. CASE Ask(l) \/ AskRun(l) \/ Join(l) \/ Stopped(l) \/ Sent(l)
    <2>1. UNCHANGED <<lifecycle, profile, disk, task>>
      BY <1>2 DEF Ask, AskRun, Join, Stopped, Sent
    <2>2. QED
      BY <2>1, StoreUntouched
  <1>3. CASE CancelRun(l)
    <2>1. UNCHANGED <<lifecycle, profile, disk>>
      BY <1>3 DEF CancelRun
    <2>2. CASE slot # 0 /\ Live(slot)
      <3>1. /\ task'[slot].at = task[slot].at
            /\ task'[slot].outcome = task[slot].outcome
            /\ \A t \in Tasks \ {slot} : task'[t] = task[t]
        BY <1>1, <1>3, <2>2, InterruptEffect
      <3>2. QED
        BY <2>1, <3>1, StoreUntouched
    <2>3. CASE ~(slot # 0 /\ Live(slot))
      <3>1. task' = task
        BY <1>3, <2>3 DEF CancelRun
      <3>2. QED
        BY <2>1, <3>1, StoreUntouched
    <2>4. QED
      BY <2>2, <2>3
  <1>4. CASE StartRun(l)
    <2>1. UNCHANGED <<profile, disk>>
      BY <1>4 DEF StartRun
    <2>2. UNCHANGED <<lifecycle, task>> \/ lifecycle' = "running"
      BY <1>1, <1>4, StartEffect
    <2>3. CASE UNCHANGED <<lifecycle, task>>
      BY <2>1, <2>3, StoreUntouched
    <2>4. CASE lifecycle' = "running"
      BY <2>1, <2>4 DEF StoreInv, LoadedFrom, Supported, Migrated
    <2>5. QED
      BY <2>2, <2>3, <2>4
  <1>5. QED
    BY <1>2, <1>3, <1>4 DEF LaneStep

LEMMA NextStores ==
  ASSUME "time" \notin Modes
  PROVE  RunInv /\ StoreInv /\ [Next]_vars => StoreInv'
  <1> SUFFICES ASSUME RunInv, StoreInv, [Next]_vars PROVE StoreInv'
    OBVIOUS
  <1>1. CASE UNCHANGED vars
    BY <1>1, StoreUntouched DEF vars
  <1>2. CASE Restart
    <2>1. PICK file \in {disk, profile} : Load(file)
      BY <1>2 DEF Restart
    <2>2. file \in Stored
      BY <2>1 DEF RunInv, TypeOK
    <2>3. QED
      BY <2>1, <2>2, LoadStores
  <1>3. CASE \E o \in Owners : Answer(o)
    BY <1>3, StoreUntouched DEF Answer
  <1>4. CASE \E t \in Tasks : TaskStep(t)
    BY <1>4, TaskStores
  <1>5. CASE \E l \in Lanes : Ask(l) \/ AskRun(l) \/ LaneStep(l)
    BY <1>5, LaneStores
  <1>6. QED
    BY <1>1, <1>2, <1>3, <1>4, <1>5 DEF Next

\* What is shown as calibrated is what a restart brings back, where no run is
\* timed: loading refuses the version a timed run writes.
THEOREM ProfileSurvives ==
  ASSUME "time" \notin Modes
  PROVE  Spec => []CalibratedSurvivesRestart
  <1>1. StoreInv => CalibratedSurvivesRestart
    <2> SUFFICES ASSUME StoreInv, lifecycle = "calibrated", Quiet
                 PROVE  disk = profile /\ LoadedFrom(disk) = profile
      BY DEF CalibratedSurvivesRestart
    <2>1. disk = profile
      BY DEF StoreInv, Quiet, Live
    <2>2. QED
      BY <2>1 DEF StoreInv
  <1>2. RunInv /\ StoreInv /\ [Next]_vars => StoreInv'
    BY NextStores
  <1>3. QED
    BY <1>1, <1>2, InitStore, RunInvariant, PTL DEF Spec
=============================================================================
