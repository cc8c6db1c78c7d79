-------------------------- MODULE ConnectionRouter --------------------------
(***************************************************************************)
(* connection_router.py, connection.py and the coordinator's handling of a *)
(* call's outcome.                                                         *)
(*                                                                         *)
(* Every caller is one coroutine of the integration: it runs on the event  *)
(* loop, sends one blocking operation to an executor thread, where the     *)
(* router serves it under its lock, and handles the outcome back on the    *)
(* event loop.  The health object (active route, state of each route) is   *)
(* written by the executor thread and by the event loop with no lock, so   *)
(* the two assignments of set_route_state are two steps.                   *)
(*                                                                         *)
(* Time is counted in ticks of LOCAL_PROBE_INTERVAL_SECONDS;               *)
(* _next_local_probe is kept as the number of ticks left until the next    *)
(* probe is due.                                                           *)
(***************************************************************************)
EXTENDS Naturals, FiniteSets

CONSTANTS Callers,                   \* coroutines that use the client
          NoCaller,                  \* nobody holds the lock / the event loop
          Modes,                     \* the entry's possible connection modes
          Kinds,                     \* what each caller asks for
          LinkStates,                \* how a route may behave
          LOCAL_FAILURE_THRESHOLD,
          LOCAL_RECOVERY_THRESHOLD,
          PROBE_MAX_TICKS,           \* LOCAL_PROBE_MAX_INTERVAL_SECONDS
          StreakCap,                 \* bound: failures are counted up to it
          Pollers                    \* the callers HA schedules again and again

ASSUME RouterAssumption ==
    /\ NoCaller \notin Callers
    /\ Modes \subseteq {"local_only", "local_with_cloud_fallback", "cloud_only"}
    /\ Kinds \in [Callers -> SUBSET {"read", "info", "write", "reconnect"}]
    /\ LinkStates \subseteq {"up", "down", "rejects"}
    /\ LOCAL_FAILURE_THRESHOLD \in Nat \ {0}
    /\ LOCAL_RECOVERY_THRESHOLD \in Nat \ {0}
    /\ PROBE_MAX_TICKS \in Nat \ {0}
    /\ Pollers \subseteq Callers
    /\ StreakCap \in Nat
    /\ StreakCap >= LOCAL_FAILURE_THRESHOLD
    /\ StreakCap >= LOCAL_RECOVERY_THRESHOLD

Routes == {"local", "cloud"}
Fallback == "local_with_cloud_fallback"

VARIABLES
    mode,             \* NiceConnectionPolicy.mode, fixed for an entry
    link,             \* environment: how each route behaves now
    \* NiceConnectionRouter, written under its lock
    selected,         \* _selected
    localFailures,    \* _local_failures
    recoverySuccesses,\* _local_recovery_successes
    probeInterval,    \* _probe_interval, in ticks
    probeIn,          \* ticks until _next_local_probe
    holder,           \* the caller whose operation holds _lock
    route,            \* route of the operation's current client call
    outcome,          \* what that call returned
    probing,          \* the current call is a recovery probe (active=False)
    sinceProbe,       \* ticks since the current probe read the clock
    \* NiceConnectionHealth, written without a lock
    active,
    routeState,
    \* coordinator and event loop
    connectionState,  \* coordinator.connection_state
    loop,             \* the caller whose code runs on the event loop
    loopRoute,        \* the route _set_connection_state reports about
    pc, kind, result, \* per caller: where it is, what it does, what came of it
    \* history
    callCount,        \* client calls made by the current operation, per route
    authSeen,         \* the current operation has met an authentication error
    lastCall,         \* outcome of the latest client call on each route
    failStreak, okStreak, stay

routerVars == <<selected, localFailures, recoverySuccesses, probeInterval, probeIn>>
callVars   == <<holder, route, outcome, probing, sinceProbe>>
healthVars == <<active, routeState>>
loopVars   == <<connectionState, loop, loopRoute>>
callerVars == <<pc, kind, result>>
lanVars    == <<failStreak, okStreak, lastCall>>
historyVars == <<callCount, authSeen, stay>>
vars == <<mode, link, routerVars, callVars, healthVars, loopVars, callerVars,
          lanVars, historyVars>>

CountUpTo(n, cap) == IF n < cap THEN n + 1 ELSE n
AtMostUncapped(n, cap) == n     \* fault: the interval doubles for ever
AtMost(n, cap) == IF n <= cap THEN n ELSE cap
Remaining(ticks, elapsed) == IF elapsed < ticks THEN ticks - elapsed ELSE 0

(***************************************************************************)
(* A route the policy configures starts unknown, the other is never used.  *)
(***************************************************************************)
Configured(m, r) ==
    \/ m = Fallback
    \/ m = "local_only" /\ r = "local"
    \/ m = "cloud_only" /\ r = "cloud"

Init ==
    /\ mode \in Modes
    /\ link \in [Routes -> LinkStates]
    /\ selected = IF mode = "cloud_only" THEN "cloud" ELSE "local"
    /\ localFailures = 0
    /\ recoverySuccesses = 0
    /\ probeInterval = 1
    /\ probeIn = 0
    /\ holder = NoCaller
    /\ route = "local"
    /\ outcome = "none"
    /\ probing = FALSE
    /\ sinceProbe = 0
    /\ active = "none"
    /\ routeState = [r \in Routes |->
                        IF Configured(mode, r) THEN "unknown" ELSE "not_configured"]
    /\ connectionState = "unknown"
    /\ loop = NoCaller
    /\ loopRoute = "none"
    /\ pc = [c \in Callers |-> "idle"]
    /\ kind = [c \in Callers |-> "none"]
    /\ result = [c \in Callers |-> "none"]
    /\ callCount = [r \in Routes |-> 0]
    /\ authSeen = FALSE
    /\ lastCall = [r \in Routes |-> "none"]
    /\ failStreak = 0
    /\ okStreak = 0
    /\ stay = 0

-----------------------------------------------------------------------------
(* The event loop.                                                         *)

GoTo(c, label) == pc' = [pc EXCEPT ![c] = label]

(***************************************************************************)
(* _set_connection_state: the coordinator's state changes and the active   *)
(* route, if there is one, is the route the health is updated for.  Label  *)
(* `after` is where the caller goes when no route is active.               *)
(***************************************************************************)
SetConnectionState(c, state, after) ==
    /\ connectionState' = state
    /\ loopRoute' = active
    /\ IF active = "none"
         THEN GoTo(c, after) /\ loop' = NoCaller
         ELSE GoTo(c, "loop_state") /\ loop' = c

(***************************************************************************)
(* A caller starts.  A read whose coordinator is in the failed state, and  *)
(* a forced reconnect, first report that the connection is reconnecting.   *)
(***************************************************************************)
Request(c, k) ==
    /\ pc[c] = "idle"
    /\ loop = NoCaller
    /\ kind' = [kind EXCEPT ![c] = k]
    /\ result' = [result EXCEPT ![c] = "none"]
    /\ IF k = "reconnect" \/ (k = "read" /\ connectionState = "failed")
         THEN SetConnectionState(c, "reconnecting", "acquire")
         ELSE GoTo(c, "acquire") /\ UNCHANGED loopVars
    /\ UNCHANGED <<mode, link, routerVars, callVars, healthVars, lanVars, historyVars>>

HandleSuccess(c) ==
    /\ pc[c] = "handle"
    /\ result[c] = "ok"
    /\ loop = NoCaller
    /\ SetConnectionState(c, "connected", "idle")
    /\ UNCHANGED <<mode, link, routerVars, callVars, healthVars, kind, result,
                   lanVars, historyVars>>

(***************************************************************************)
(* After an error the event loop calls client.close(), which waits for the *)
(* router's lock while an executor thread holds it.                        *)
(***************************************************************************)
HandleFailure(c) ==
    /\ pc[c] = "handle"
    /\ result[c] # "ok"
    /\ loop = NoCaller
    /\ loop' = c
    /\ GoTo(c, "closing")
    /\ UNCHANGED <<mode, link, routerVars, callVars, healthVars, connectionState,
                   loopRoute, kind, result, lanVars, historyVars>>

CloseClients(c) ==
    /\ pc[c] = "closing"
    /\ holder = NoCaller
    /\ SetConnectionState(c, IF result[c] = "auth" THEN "auth_failed" ELSE "failed",
                          "idle")
    /\ UNCHANGED <<mode, link, routerVars, callVars, healthVars, kind, result,
                   lanVars, historyVars>>

(***************************************************************************)
(* The two assignments of set_route_state, on the event loop.              *)
(***************************************************************************)
LoopState(c) ==
    /\ pc[c] = "loop_state"
    /\ routeState' = [routeState EXCEPT ![loopRoute] =
                        IF connectionState = "connected" THEN "connected"
                                                         ELSE "disconnected"]
    /\ GoTo(c, "loop_active")
    /\ UNCHANGED <<mode, link, routerVars, callVars, active, loopVars, kind, result,
                   lanVars, historyVars>>

LoopActiveKept(c) ==            \* fault: a route that failed stays the active one
    /\ pc[c] = "loop_active"
    /\ active' = IF connectionState = "connected" THEN loopRoute ELSE active
    /\ GoTo(c, IF connectionState = "reconnecting" THEN "acquire" ELSE "idle")
    /\ loop' = NoCaller
    /\ UNCHANGED <<mode, link, routerVars, callVars, routeState, connectionState,
                   loopRoute, kind, result, lanVars, historyVars>>

LoopActive(c) ==
    /\ pc[c] = "loop_active"
    /\ active' = IF connectionState = "connected" THEN loopRoute
                 ELSE IF active = loopRoute THEN "none" ELSE active
    /\ GoTo(c, IF connectionState = "reconnecting" THEN "acquire" ELSE "idle")
    /\ loop' = NoCaller
    /\ UNCHANGED <<mode, link, routerVars, callVars, routeState, connectionState,
                   loopRoute, kind, result, lanVars, historyVars>>

-----------------------------------------------------------------------------
(* The executor thread, inside the router's lock.                          *)

(***************************************************************************)
(* _read and _write up to the first client call.  A write uses the         *)
(* selected route; a read in fallback mode probes the LAN first when the   *)
(* relay is selected and the probe is due.                                 *)
(***************************************************************************)
ProbeDueForWrites(k) ==         \* fault: a command probes the LAN, too
    mode = Fallback /\ selected = "cloud" /\ probeIn = 0

ProbeDue(k) ==
    k # "write" /\ mode = Fallback /\ selected = "cloud" /\ probeIn = 0

FirstRoute(k) ==
    IF ProbeDue(k) THEN "local"
    ELSE IF k = "write" \/ mode = Fallback THEN selected
    ELSE IF mode = "local_only" THEN "local" ELSE "cloud"

StartCall(c, r) ==
    /\ route' = r
    /\ outcome' = "none"
    /\ callCount' = [callCount EXCEPT ![r] = @ + 1]
    /\ GoTo(c, "call")

Acquire(c) ==
    /\ pc[c] = "acquire"
    /\ holder = NoCaller
    /\ holder' = c
    /\ route' = FirstRoute(kind[c])
    /\ outcome' = "none"
    /\ probing' = ProbeDue(kind[c])
    /\ callCount' = [r \in Routes |-> IF r = FirstRoute(kind[c]) THEN 1 ELSE 0]
    /\ authSeen' = FALSE
    /\ GoTo(c, "call")
    /\ UNCHANGED <<mode, link, routerVars, sinceProbe, healthVars, loopVars, kind,
                   result, lanVars, stay>>

(***************************************************************************)
(* The client call of _call returns or raises, as the route behaves now.   *)
(***************************************************************************)
CallOutcome(state) ==
    IF state = "up" THEN "ok" ELSE IF state = "down" THEN "conn" ELSE "auth"

CallReturns(c) ==
    /\ pc[c] = "call"
    /\ outcome' = CallOutcome(link[route])
    /\ lastCall' = [lastCall EXCEPT ![route] = outcome']
    /\ authSeen' = (authSeen \/ outcome' = "auth")
    /\ \/ route = "cloud" /\ UNCHANGED <<failStreak, okStreak>>
       \/ /\ route = "local" /\ outcome' = "ok"
          /\ okStreak' = CountUpTo(okStreak, StreakCap)
          /\ failStreak' = 0
       \/ /\ route = "local" /\ outcome' # "ok"
          /\ failStreak' = CountUpTo(failStreak, StreakCap)
          /\ okStreak' = 0
    /\ GoTo(c, "mark_state")
    /\ UNCHANGED <<mode, link, routerVars, holder, route, probing, sinceProbe,
                   healthVars, loopVars, kind, result, callCount, stay>>

(***************************************************************************)
(* _mark_success and _mark_failure: first the route's state, then, in the  *)
(* steps below, the active route and the router's counters.                *)
(***************************************************************************)
MarkState(c) ==
    /\ pc[c] = "mark_state"
    /\ routeState' = [routeState EXCEPT ![route] =
                        IF outcome = "ok" THEN "connected" ELSE "disconnected"]
    /\ GoTo(c, "mark_active")
    /\ UNCHANGED <<mode, link, routerVars, callVars, active, loopVars, kind, result,
                   lanVars, historyVars>>

MarkedActive ==
    IF outcome # "ok" THEN IF active = route THEN "none" ELSE active
    ELSE IF probing THEN active ELSE route

CountedFailuresStuck ==         \* fault: "=+ 1" for "+= 1"
    IF route = "cloud" THEN localFailures ELSE IF outcome = "ok" THEN 0 ELSE 1

CountedFailures ==
    IF route = "cloud" THEN localFailures
    ELSE IF outcome = "ok" THEN 0 ELSE CountUpTo(localFailures, StreakCap)

CountedRecoveryKept ==          \* fault: a failure does not break the streak
    recoverySuccesses

CountedRecovery ==
    IF route = "local" /\ outcome # "ok" THEN 0 ELSE recoverySuccesses

(***************************************************************************)
(* Every step of this group completes the marking of the current call.     *)
(***************************************************************************)
Marked(c) ==
    /\ pc[c] = "mark_active"
    /\ active' = MarkedActive
    /\ localFailures' = CountedFailures
    /\ sinceProbe' = 0
    /\ UNCHANGED <<mode, link, routeState, loopVars, lanVars, authSeen>>

ReleaseUnlessRaised ==          \* fault: release() after the body, not `with`
    holder' = IF outcome = "ok" THEN NoCaller ELSE holder

Release == holder' = NoCaller

(***************************************************************************)
(* The operation returns or raises and the lock is released.  A status     *)
(* read may be followed, in the same executor job, by an INFO read whose   *)
(* errors are swallowed.                                                   *)
(***************************************************************************)
Finish(c) ==
    /\ Release
    /\ outcome' = "none"
    /\ probing' = FALSE
    /\ route' = "local"
    /\ callCount' = [r \in Routes |-> 0]
    /\ \/ /\ GoTo(c, "handle")
          /\ result' = [result EXCEPT ![c] = IF kind[c] = "info" THEN "ok" ELSE outcome]
          /\ UNCHANGED kind
       \/ /\ kind[c] = "read" /\ outcome = "ok" /\ "info" \in Kinds[c]
          /\ kind' = [kind EXCEPT ![c] = "info"]
          /\ GoTo(c, "acquire")
          /\ UNCHANGED result

(***************************************************************************)
(* A second call of the same operation, on the relay.                      *)
(***************************************************************************)
ContinueOnCloud(c) ==
    /\ StartCall(c, "cloud")
    /\ probing' = FALSE
    /\ UNCHANGED <<holder, kind, result>>

FailsOver(c) ==
    /\ mode = Fallback
    /\ selected = "local"
    /\ route = "local"
    /\ outcome = "conn"
    /\ CountedFailures >= LOCAL_FAILURE_THRESHOLD

SelectCloud ==
    /\ selected' = "cloud"
    /\ probeIn' = probeInterval
    /\ stay' = 0

(***************************************************************************)
(* The call answered, or its error is raised to the caller at once.        *)
(***************************************************************************)
OperationEnds(c) ==
    /\ Marked(c)
    /\ ~probing \/ outcome = "auth"
    /\ ~FailsOver(c)
    /\ recoverySuccesses' = CountedRecovery
    /\ UNCHANGED <<selected, probeInterval, probeIn, stay>>
    /\ Finish(c)

ReadFailsOver(c) ==
    /\ Marked(c)
    /\ kind[c] # "write"
    /\ FailsOver(c)
    /\ recoverySuccesses' = CountedRecovery
    /\ SelectCloud
    /\ UNCHANGED probeInterval
    /\ ContinueOnCloud(c)

(***************************************************************************)
(* A write that fails may select the relay for later operations; its error *)
(* is raised and the command is not sent again.                            *)
(***************************************************************************)
WriteFailsOver(c) ==
    /\ Marked(c)
    /\ kind[c] = "write"
    /\ FailsOver(c)
    /\ recoverySuccesses' = CountedRecovery
    /\ SelectCloud
    /\ UNCHANGED probeInterval
    /\ Finish(c)

ProbeFails(c) ==
    /\ Marked(c)
    /\ probing
    /\ outcome = "conn"
    /\ recoverySuccesses' = CountedRecovery
    /\ probeInterval' = AtMost(probeInterval * 2, PROBE_MAX_TICKS)
    /\ probeIn' = Remaining(probeInterval', sinceProbe)
    /\ UNCHANGED <<selected, stay>>
    /\ ContinueOnCloud(c)

ProbeSucceeds(c) ==
    /\ Marked(c)
    /\ probing
    /\ outcome = "ok"
    /\ recoverySuccesses' = recoverySuccesses + 1
    /\ probeIn' = Remaining(1, sinceProbe)
    /\ IF recoverySuccesses' < LOCAL_RECOVERY_THRESHOLD
         THEN /\ ContinueOnCloud(c)
              /\ UNCHANGED <<selected, probeInterval>>
         ELSE \* the LAN is selected and marked again, as the active route
              /\ selected' = "local"
              /\ probeInterval' = 1
              /\ probing' = FALSE
              /\ GoTo(c, "mark_state")
              /\ UNCHANGED <<holder, route, outcome, kind, result, callCount>>
    /\ UNCHANGED stay

-----------------------------------------------------------------------------
(* The environment.                                                        *)

Tick ==
    /\ probeIn' = IF probeIn > 0 THEN probeIn - 1 ELSE 0
    /\ sinceProbe' = IF probing THEN CountUpTo(sinceProbe, PROBE_MAX_TICKS) ELSE 0
    /\ stay' = CountUpTo(stay, LOCAL_RECOVERY_THRESHOLD)
    /\ UNCHANGED <<mode, link, selected, localFailures, recoverySuccesses,
                   probeInterval, holder, route, outcome, probing, healthVars, loopVars,
                   callerVars, lanVars, callCount, authSeen>>

LinkChanges ==
    /\ \E r \in Routes, state \in LinkStates : link' = [link EXCEPT ![r] = state]
    /\ UNCHANGED <<mode, routerVars, callVars, healthVars, loopVars, callerVars,
                   lanVars, historyVars>>

LoopStep(c) ==
    HandleSuccess(c) \/ HandleFailure(c) \/ CloseClients(c) \/ LoopState(c) \/ LoopActive(c)

ExecutorStep(c) ==
    \/ Acquire(c) \/ CallReturns(c) \/ MarkState(c)
    \/ OperationEnds(c) \/ ReadFailsOver(c) \/ WriteFailsOver(c)
    \/ ProbeFails(c) \/ ProbeSucceeds(c)

Next ==
    \/ \E c \in Callers : \/ \E k \in Kinds[c] \ {"info"} : Request(c, k)
                          \/ LoopStep(c)
                          \/ ExecutorStep(c)
    \/ Tick
    \/ LinkChanges

Spec == Init /\ [][Next]_vars

(***************************************************************************)
(* The event loop runs its ready callbacks in order and the executor its   *)
(* jobs, so a caller that can step again and again does step, also past    *)
(* the lock; Home Assistant schedules the next poll after each one, unless *)
(* that one ended with an authentication failure; time passes.  Users, and *)
(* the routes, owe nothing.                                                *)
(***************************************************************************)
Fairness ==
    /\ \A c \in Callers : SF_vars(LoopStep(c) \/ ExecutorStep(c))
    /\ \A c \in Pollers :
          SF_vars(connectionState # "auth_failed" /\ Request(c, "read"))
    /\ WF_vars(Tick)

FairSpec == Spec /\ Fairness

-----------------------------------------------------------------------------
(* Properties.                                                             *)

Selection == INSTANCE RouteSelection WITH
                FailureThreshold <- LOCAL_FAILURE_THRESHOLD,
                RecoveryThreshold <- LOCAL_RECOVERY_THRESHOLD,
                MinimumStay <- LOCAL_RECOVERY_THRESHOLD

Labels == {"idle", "acquire", "call", "mark_state", "mark_active", "handle",
           "closing", "loop_state", "loop_active"}

RouterType ==
    /\ mode \in Modes
    /\ link \in [Routes -> LinkStates]
    /\ selected \in Routes
    /\ localFailures \in 0..StreakCap
    /\ recoverySuccesses \in 0..LOCAL_RECOVERY_THRESHOLD
    /\ probeInterval \in 1..PROBE_MAX_TICKS
    /\ probeIn \in 0..PROBE_MAX_TICKS
    /\ sinceProbe \in 0..PROBE_MAX_TICKS

CallType ==
    /\ holder \in Callers \cup {NoCaller}
    /\ route \in Routes
    /\ outcome \in {"none", "ok", "conn", "auth"}
    /\ callCount \in [Routes -> Nat]
    /\ pc \in [Callers -> Labels]
    /\ kind \in [Callers -> {"none", "read", "info", "write", "reconnect"}]
    /\ result \in [Callers -> {"none", "ok", "conn", "auth"}]

FlagType == probing \in BOOLEAN /\ authSeen \in BOOLEAN

HealthType ==
    /\ active \in Routes \cup {"none"}
    /\ routeState \in
         [Routes -> {"not_configured", "unknown", "connected", "disconnected"}]
    /\ connectionState \in
         {"unknown", "connected", "failed", "auth_failed", "reconnecting"}
    /\ loop \in Callers \cup {NoCaller}
    /\ loopRoute \in Routes \cup {"none"}

HistoryType ==
    /\ lastCall \in [Routes -> {"none", "ok", "conn", "auth"}]
    /\ failStreak \in 0..StreakCap
    /\ okStreak \in 0..StreakCap
    /\ stay \in 0..LOCAL_RECOVERY_THRESHOLD

(***************************************************************************)
(* Every variable of the router, its calls, the health and the callers has *)
(* its type.                                                               *)
(***************************************************************************)
TypeOK == RouterType /\ CallType /\ FlagType /\ HealthType /\ HistoryType

(***************************************************************************)
(* What one operation may do to the routes: a mode that configures one     *)
(* route never calls the other ("fully local never opens a cloud           *)
(* connection, fully cloud never opens a LAN connection"), no route is     *)
(* called twice, a command is sent on one route only ("commands with an    *)
(* ambiguous outcome are never replayed on a second route"), and nothing   *)
(* is called after an authentication error.                                *)
(***************************************************************************)
OperationDiscipline ==
    holder # NoCaller =>
        /\ \A r \in Routes : callCount[r] <= IF Configured(mode, r) THEN 1 ELSE 0
        /\ kind[holder] = "write" => callCount["local"] + callCount["cloud"] = 1
        /\ authSeen => pc[holder] # "call"

(***************************************************************************)
(* The routes of the fallback policy, seen from outside: the LAN history   *)
(* alone decides when the relay is selected and when the LAN comes back,   *)
(* whatever the counters and the probe timer did (the thresholds and the   *)
(* hysteresis of _read and _write).                                        *)
(***************************************************************************)
SelectionFollowsHistory == Selection!SelectionSpec

(***************************************************************************)
(* The promise of set_route_state, "keep the active route consistent":     *)
(* once neither thread is writing the health, its active route is one it   *)
(* calls connected.  It does not hold: the executor thread of one caller   *)
(* and the event loop for another write the two fields in turns.           *)
(***************************************************************************)
HealthAtRest == holder = NoCaller /\ loop = NoCaller

ActiveIsConnected ==
    HealthAtRest /\ active # "none" => routeState[active] = "connected"

(***************************************************************************)
(* What holds instead, for any number of callers: such a mismatch does not *)
(* outlast the calls that overlapped.  Whoever made it has still to report *)
(* its outcome through _set_connection_state, which repairs it, so once    *)
(* every caller is done the active route is connected.                     *)
(***************************************************************************)
RestingRouteIsConnected ==
    (\A c \in Callers : pc[c] = "idle") =>
        active = "none" \/ routeState[active] = "connected"

(***************************************************************************)
(* With all callers idle, the state shown for a route is what the latest   *)
(* call on that route showed ("active-route, local-route, and cloud-route  *)
(* sensors reflect actual behavior").                                      *)
(***************************************************************************)
RouteStatesReflectCalls ==
    (\A c \in Callers : pc[c] = "idle") =>
        \A r \in Routes : lastCall[r] # "none" =>
            (routeState[r] = "connected" <=> lastCall[r] = "ok")

(***************************************************************************)
(* The inductive invariant behind OperationDiscipline and                  *)
(* SelectionFollowsHistory: who is inside the lock, which routes the       *)
(* operation has called, how the router's counters stand to the LAN's      *)
(* history (a call that has returned but is not counted yet is pending),   *)
(* and how long the relay has been selected when a probe is due.           *)
(***************************************************************************)
Marking == holder # NoCaller /\ pc[holder] \in {"mark_state", "mark_active"}
Pending == Marking /\ route = "local"

LockInv ==
    \A c \in Callers : pc[c] \in {"call", "mark_state", "mark_active"} <=> holder = c

ModeInv ==
    /\ mode = "local_only" => selected = "local"
    /\ mode = "cloud_only" => selected = "cloud"
    /\ probing => /\ holder # NoCaller
                  /\ kind[holder] # "write"
                  /\ mode = Fallback
                  /\ selected = "cloud"
                  /\ route = "local"

CallInv ==
    holder # NoCaller =>
        /\ Configured(mode, route)
        /\ outcome = "none" <=> pc[holder] = "call"
        /\ authSeen <=> outcome = "auth"
        /\ selected = "cloud" /\ route = "local" => probing
        /\ callCount[route] = 1
        /\ \A r \in Routes \ {route} :
              \/ callCount[r] = 0
              \/ /\ callCount[r] = 1 /\ kind[holder] # "write"
                 /\ mode = Fallback /\ route = "cloud"

StreakInv ==
    /\ ~Pending => failStreak = localFailures
    /\ Pending /\ outcome = "ok" => failStreak = 0
    /\ Pending /\ outcome # "ok" =>
           failStreak = CountUpTo(localFailures, StreakCap) /\ okStreak = 0
    /\ selected = "cloud" => recoverySuccesses < LOCAL_RECOVERY_THRESHOLD
    /\ selected = "cloud" /\ ~Pending => okStreak >= recoverySuccesses
    /\ Pending /\ probing /\ outcome = "ok" => okStreak > recoverySuccesses

StayInv ==
    /\ ~probing => sinceProbe = 0
    /\ stay < LOCAL_RECOVERY_THRESHOLD =>
        /\ selected = "cloud" /\ mode = Fallback /\ ~probing =>
               stay + probeIn > recoverySuccesses
        /\ probing => stay > recoverySuccesses + sinceProbe

RouterInv == TypeOK /\ LockInv /\ ModeInv /\ CallInv /\ StreakInv /\ StayInv

(***************************************************************************)
(* An operation that was dispatched comes back and is handled, although    *)
(* the event loop itself waits for the router's lock in client.close().    *)
(***************************************************************************)
OperationsFinish == \A c \in Callers : pc[c] = "acquire" ~> pc[c] = "idle"

(***************************************************************************)
(* In fallback mode, a LAN that is dead for good ends with the relay       *)
(* selected, one that is back for good with the LAN selected.              *)
(***************************************************************************)
SelectionSettles ==
    mode = Fallback =>
        /\ <>[](link["local"] = "down") => <>[](selected = "cloud")
        /\ <>[](link["local"] = "up") => <>[](selected = "local")

(***************************************************************************)
(* While the relay works, operations go on succeeding whatever the LAN     *)
(* does, in every pattern of going up and down.  (Not one given caller's:  *)
(* a success of another caller on the LAN resets the failure count.)       *)
(***************************************************************************)
ServiceContinues ==
    mode = Fallback /\ <>[](link["cloud"] = "up") =>
        []<>(\E c \in Callers : result[c] = "ok")
=============================================================================
