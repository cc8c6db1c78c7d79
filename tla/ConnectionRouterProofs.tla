----------------------- MODULE ConnectionRouterProofs -----------------------
(***************************************************************************)
(* Proofs about ConnectionRouter, for every set of callers and modes and   *)
(* every value of the thresholds.                                          *)
(***************************************************************************)
EXTENDS ConnectionRouter, TLAPS

LEMMA InitType == Init => TypeOK
  <1> SUFFICES ASSUME Init
               PROVE  TypeOK
    OBVIOUS
  <1>1. RouterType
    BY RouterAssumption DEF Init, RouterType, Routes
  <1>2. CallType
    BY DEF Init, CallType, Routes, Labels
  <1>3. FlagType
    BY DEF Init, FlagType
  <1>4. HealthType
    BY DEF Init, HealthType, Routes
  <1>5. HistoryType
    BY RouterAssumption DEF Init, HistoryType
  <1>6. QED
    BY <1>1, <1>2, <1>3, <1>4, <1>5 DEF TypeOK

LEMMA LoopType ==
  ASSUME TypeOK, NEW c \in Callers,
         LoopStep(c) \/ \E k \in Kinds[c] \ {"info"} : Request(c, k)
  PROVE  TypeOK'
  <1>1. CASE \E k \in Kinds[c] \ {"info"} : Request(c, k)
    <2>0. PICK k \in {"none", "read", "info", "write", "reconnect"} : Request(c, k)
      BY <1>1, RouterAssumption
    <2>1. RouterType'
      BY <1>1, <2>0 DEF Request, SetConnectionState, GoTo, TypeOK, RouterType,
         routerVars, callVars, healthVars, loopVars, callerVars, lanVars, historyVars
    <2>2. CallType'
      BY <1>1, <2>0 DEF Request, SetConnectionState, GoTo, TypeOK, CallType, Labels,
         Routes,
         routerVars, callVars, healthVars, loopVars, callerVars, lanVars, historyVars
    <2>3. FlagType'
      BY <1>1, <2>0 DEF Request, SetConnectionState, GoTo, TypeOK, FlagType,
         routerVars, callVars, healthVars, loopVars, callerVars, lanVars, historyVars
    <2>4. HealthType'
      BY <1>1, <2>0 DEF Request, SetConnectionState, GoTo, TypeOK, HealthType, Routes,
         routerVars, callVars, healthVars, loopVars, callerVars, lanVars, historyVars
    <2>5. HistoryType'
      BY <1>1, <2>0 DEF Request, SetConnectionState, GoTo, TypeOK, HistoryType,
         routerVars, callVars, healthVars, loopVars, callerVars, lanVars, historyVars
    <2>6. QED
      BY <2>1, <2>2, <2>3, <2>4, <2>5 DEF TypeOK
  <1>2. CASE HandleSuccess(c)
    <2>1. RouterType'
      BY <1>2 DEF HandleSuccess, SetConnectionState, GoTo, TypeOK, RouterType,
         routerVars, callVars, healthVars, loopVars, callerVars, lanVars, historyVars
    <2>2. CallType'
      BY <1>2 DEF HandleSuccess, SetConnectionState, GoTo, TypeOK, CallType, Labels,
         Routes,
         routerVars, callVars, healthVars, loopVars, callerVars, lanVars, historyVars
    <2>3. FlagType'
      BY <1>2 DEF HandleSuccess, SetConnectionState, GoTo, TypeOK, FlagType,
         routerVars, callVars, healthVars, loopVars, callerVars, lanVars, historyVars
    <2>4. HealthType'
      BY <1>2 DEF HandleSuccess, SetConnectionState, GoTo, TypeOK, HealthType, Routes,
         routerVars, callVars, healthVars, loopVars, callerVars, lanVars, historyVars
    <2>5. HistoryType'
      BY <1>2 DEF HandleSuccess, SetConnectionState, GoTo, TypeOK, HistoryType,
         routerVars, callVars, healthVars, loopVars, callerVars, lanVars, historyVars
    <2>6. QED
      BY <2>1, <2>2, <2>3, <2>4, <2>5 DEF TypeOK
  <1>3. CASE HandleFailure(c)
    <2>1. RouterType'
      BY <1>3 DEF HandleFailure, GoTo, TypeOK, RouterType,
         routerVars, callVars, healthVars, loopVars, callerVars, lanVars, historyVars
    <2>2. CallType'
      BY <1>3 DEF HandleFailure, GoTo, TypeOK, CallType, Labels, Routes,
         routerVars, callVars, healthVars, loopVars, callerVars, lanVars, historyVars
    <2>3. FlagType'
      BY <1>3 DEF HandleFailure, GoTo, TypeOK, FlagType,
         routerVars, callVars, healthVars, loopVars, callerVars, lanVars, historyVars
    <2>4. HealthType'
      BY <1>3 DEF HandleFailure, GoTo, TypeOK, HealthType, Routes,
         routerVars, callVars, healthVars, loopVars, callerVars, lanVars, historyVars
    <2>5. HistoryType'
      BY <1>3 DEF HandleFailure, GoTo, TypeOK, HistoryType,
         routerVars, callVars, healthVars, loopVars, callerVars, lanVars, historyVars
    <2>6. QED
      BY <2>1, <2>2, <2>3, <2>4, <2>5 DEF TypeOK
  <1>4. CASE CloseClients(c)
    <2>1. RouterType'
      BY <1>4 DEF CloseClients, SetConnectionState, GoTo, TypeOK, RouterType,
         routerVars, callVars, healthVars, loopVars, callerVars, lanVars, historyVars
    <2>2. CallType'
      BY <1>4 DEF CloseClients, SetConnectionState, GoTo, TypeOK, CallType, Labels,
         Routes,
         routerVars, callVars, healthVars, loopVars, callerVars, lanVars, historyVars
    <2>3. FlagType'
      BY <1>4 DEF CloseClients, SetConnectionState, GoTo, TypeOK, FlagType,
         routerVars, callVars, healthVars, loopVars, callerVars, lanVars, historyVars
    <2>4. HealthType'
      BY <1>4 DEF CloseClients, SetConnectionState, GoTo, TypeOK, HealthType, Routes,
         routerVars, callVars, healthVars, loopVars, callerVars, lanVars, historyVars
    <2>5. HistoryType'
      BY <1>4 DEF CloseClients, SetConnectionState, GoTo, TypeOK, HistoryType,
         routerVars, callVars, healthVars, loopVars, callerVars, lanVars, historyVars
    <2>6. QED
      BY <2>1, <2>2, <2>3, <2>4, <2>5 DEF TypeOK
  <1>5. CASE LoopState(c)
    <2>1. RouterType'
      BY <1>5 DEF LoopState, GoTo, TypeOK, RouterType,
         routerVars, callVars, healthVars, loopVars, callerVars, lanVars, historyVars
    <2>2. CallType'
      BY <1>5 DEF LoopState, GoTo, TypeOK, CallType, Labels, Routes,
         routerVars, callVars, healthVars, loopVars, callerVars, lanVars, historyVars
    <2>3. FlagType'
      BY <1>5 DEF LoopState, GoTo, TypeOK, FlagType,
         routerVars, callVars, healthVars, loopVars, callerVars, lanVars, historyVars
    <2>4. HealthType'
      BY <1>5 DEF LoopState, GoTo, TypeOK, HealthType, Routes,
         routerVars, callVars, healthVars, loopVars, callerVars, lanVars, historyVars
    <2>5. HistoryType'
      BY <1>5 DEF LoopState, GoTo, TypeOK, HistoryType,
         routerVars, callVars, healthVars, loopVars, callerVars, lanVars, historyVars
    <2>6. QED
      BY <2>1, <2>2, <2>3, <2>4, <2>5 DEF TypeOK
  <1>6. CASE LoopActive(c)
    <2>1. RouterType'
      BY <1>6 DEF LoopActive, GoTo, TypeOK, RouterType,
         routerVars, callVars, healthVars, loopVars, callerVars, lanVars, historyVars
    <2>2. CallType'
      BY <1>6 DEF LoopActive, GoTo, TypeOK, CallType, Labels, Routes,
         routerVars, callVars, healthVars, loopVars, callerVars, lanVars, historyVars
    <2>3. FlagType'
      BY <1>6 DEF LoopActive, GoTo, TypeOK, FlagType,
         routerVars, callVars, healthVars, loopVars, callerVars, lanVars, historyVars
    <2>4. HealthType'
      BY <1>6 DEF LoopActive, GoTo, TypeOK, HealthType, Routes,
         routerVars, callVars, healthVars, loopVars, callerVars, lanVars, historyVars
    <2>5. HistoryType'
      BY <1>6 DEF LoopActive, GoTo, TypeOK, HistoryType,
         routerVars, callVars, healthVars, loopVars, callerVars, lanVars, historyVars
    <2>6. QED
      BY <2>1, <2>2, <2>3, <2>4, <2>5 DEF TypeOK
  <1>7. QED
    BY <1>1, <1>2, <1>3, <1>4, <1>5, <1>6 DEF LoopStep

LEMMA MarkedType ==
  ASSUME TypeOK, NEW c \in Callers, Marked(c), outcome # "none"
  PROVE  /\ active' \in Routes \cup {"none"}
         /\ localFailures' \in 0..StreakCap
         /\ CountedRecovery \in 0..LOCAL_RECOVERY_THRESHOLD
  <1>1. active' \in Routes \cup {"none"}
    BY DEF Marked, MarkedActive, TypeOK, CallType, HealthType
  <1>2. localFailures' \in 0..StreakCap
    BY RouterAssumption DEF Marked, CountedFailures, CountUpTo, TypeOK, RouterType, Routes
  <1>3. CountedRecovery \in 0..LOCAL_RECOVERY_THRESHOLD
    BY RouterAssumption DEF CountedRecovery, TypeOK, RouterType
  <1>4. QED
    BY <1>1, <1>2, <1>3

LEMMA ExecutorType ==
  ASSUME TypeOK, NEW c \in Callers, ExecutorStep(c),
         probing => recoverySuccesses < LOCAL_RECOVERY_THRESHOLD,
         pc[c] = "mark_active" => outcome # "none"
  PROVE  TypeOK'
  <1>1. CASE Acquire(c)
    <2>0. FirstRoute(kind[c]) \in Routes
      BY DEF FirstRoute, TypeOK, RouterType, Routes
    <2>1. RouterType'
      BY <1>1, RouterAssumption DEF Acquire, GoTo, TypeOK, RouterType,
         routerVars, callVars, healthVars, loopVars, callerVars, lanVars, historyVars
    <2>2. CallType'
      BY <1>1, <2>0 DEF Acquire, GoTo, TypeOK, CallType, Labels, Routes,
         routerVars, callVars, healthVars, loopVars, callerVars, lanVars, historyVars
    <2>3. FlagType'
      BY <1>1 DEF Acquire, GoTo, ProbeDue, TypeOK, FlagType,
         routerVars, callVars, healthVars, loopVars, callerVars, lanVars, historyVars
    <2>4. HealthType'
      BY <1>1 DEF Acquire, GoTo, TypeOK, HealthType, Routes,
         routerVars, callVars, healthVars, loopVars, callerVars, lanVars, historyVars
    <2>5. HistoryType'
      BY <1>1 DEF Acquire, GoTo, TypeOK, HistoryType,
         routerVars, callVars, healthVars, loopVars, callerVars, lanVars, historyVars
    <2>6. QED
      BY <2>1, <2>2, <2>3, <2>4, <2>5 DEF TypeOK
  <1>2. CASE CallReturns(c)
    <2>0. outcome' \in {"ok", "conn", "auth"}
      BY <1>2 DEF CallReturns, CallOutcome
    <2>1. RouterType'
      BY <1>2 DEF CallReturns, GoTo, CountUpTo, TypeOK, RouterType,
         routerVars, callVars, healthVars, loopVars, callerVars, lanVars, historyVars
    <2>2. CallType'
      BY <1>2, <2>0 DEF CallReturns, GoTo, CountUpTo, TypeOK, CallType, Labels, Routes,
         routerVars, callVars, healthVars, loopVars, callerVars, lanVars, historyVars
    <2>3. FlagType'
      BY <1>2 DEF CallReturns, GoTo, CountUpTo, TypeOK, FlagType,
         routerVars, callVars, healthVars, loopVars, callerVars, lanVars, historyVars
    <2>4. HealthType'
      BY <1>2 DEF CallReturns, GoTo, CountUpTo, TypeOK, HealthType, Routes,
         routerVars, callVars, healthVars, loopVars, callerVars, lanVars, historyVars
    <2>5. HistoryType'
      <3>1. lastCall' \in [Routes -> {"none", "ok", "conn", "auth"}]
        BY <1>2, <2>0 DEF CallReturns, TypeOK, HistoryType
      <3>2. failStreak' \in 0..StreakCap /\ okStreak' \in 0..StreakCap
        BY <1>2, RouterAssumption DEF CallReturns, CountUpTo, TypeOK, HistoryType
      <3>3. stay' \in 0..LOCAL_RECOVERY_THRESHOLD
        BY <1>2 DEF CallReturns, TypeOK, HistoryType
      <3>4. QED
        BY <3>1, <3>2, <3>3 DEF HistoryType
    <2>6. QED
      BY <2>1, <2>2, <2>3, <2>4, <2>5 DEF TypeOK
  <1>3. CASE MarkState(c)
    <2>1. RouterType'
      BY <1>3 DEF MarkState, GoTo, TypeOK, RouterType,
         routerVars, callVars, healthVars, loopVars, callerVars, lanVars, historyVars
    <2>2. CallType'
      BY <1>3 DEF MarkState, GoTo, TypeOK, CallType, Labels, Routes,
         routerVars, callVars, healthVars, loopVars, callerVars, lanVars, historyVars
    <2>3. FlagType'
      BY <1>3 DEF MarkState, GoTo, TypeOK, FlagType,
         routerVars, callVars, healthVars, loopVars, callerVars, lanVars, historyVars
    <2>4. HealthType'
      BY <1>3 DEF MarkState, GoTo, TypeOK, HealthType, Routes,
         routerVars, callVars, healthVars, loopVars, callerVars, lanVars, historyVars
    <2>5. HistoryType'
      BY <1>3 DEF MarkState, GoTo, TypeOK, HistoryType,
         routerVars, callVars, healthVars, loopVars, callerVars, lanVars, historyVars
    <2>6. QED
      BY <2>1, <2>2, <2>3, <2>4, <2>5 DEF TypeOK
  <1>4. CASE OperationEnds(c)
    <2>0. /\ outcome # "none"
          /\ active' \in Routes \cup {"none"}
          /\ localFailures' \in 0..StreakCap
          /\ CountedRecovery \in 0..LOCAL_RECOVERY_THRESHOLD
      BY <1>4, MarkedType DEF OperationEnds, Marked
    <2>1. RouterType'
      BY <1>4, <2>0, RouterAssumption DEF OperationEnds, Finish, Release, Marked, GoTo,
         TypeOK, RouterType, Routes,
         routerVars, callVars, healthVars, loopVars, callerVars, lanVars, historyVars
    <2>2. CallType'
      BY <1>4, <2>0 DEF OperationEnds, Finish, Release, Marked, GoTo, TypeOK, CallType,
         Labels, Routes,
         routerVars, callVars, healthVars, loopVars, callerVars, lanVars, historyVars
    <2>3. FlagType'
      BY <1>4 DEF OperationEnds, Finish, Release, Marked, GoTo, TypeOK, FlagType,
         routerVars, callVars, healthVars, loopVars, callerVars, lanVars, historyVars
    <2>4. HealthType'
      BY <1>4, <2>0 DEF OperationEnds, Finish, Release, Marked, GoTo, TypeOK,
         HealthType, Routes,
         routerVars, callVars, healthVars, loopVars, callerVars, lanVars, historyVars
    <2>5. HistoryType'
      BY <1>4, RouterAssumption DEF OperationEnds, Finish, Release, Marked, GoTo,
         TypeOK, HistoryType,
         routerVars, callVars, healthVars, loopVars, callerVars, lanVars, historyVars
    <2>6. QED
      BY <2>1, <2>2, <2>3, <2>4, <2>5 DEF TypeOK
  <1>5. CASE ReadFailsOver(c)
    <2>0. /\ outcome # "none"
          /\ active' \in Routes \cup {"none"}
          /\ localFailures' \in 0..StreakCap
          /\ CountedRecovery \in 0..LOCAL_RECOVERY_THRESHOLD
      BY <1>5, MarkedType DEF ReadFailsOver, Marked
    <2>1. RouterType'
      BY <1>5, <2>0, RouterAssumption DEF ReadFailsOver, SelectCloud, ContinueOnCloud,
         StartCall, Marked, GoTo, TypeOK, RouterType, Routes,
         routerVars, callVars, healthVars, loopVars, callerVars, lanVars, historyVars
    <2>2. CallType'
      BY <1>5, <2>0 DEF ReadFailsOver, SelectCloud, ContinueOnCloud, StartCall, Marked,
         GoTo, TypeOK, CallType, Labels, Routes,
         routerVars, callVars, healthVars, loopVars, callerVars, lanVars, historyVars
    <2>3. FlagType'
      BY <1>5 DEF ReadFailsOver, SelectCloud, ContinueOnCloud, StartCall, Marked, GoTo,
         TypeOK, FlagType,
         routerVars, callVars, healthVars, loopVars, callerVars, lanVars, historyVars
    <2>4. HealthType'
      BY <1>5, <2>0 DEF ReadFailsOver, SelectCloud, ContinueOnCloud, StartCall, Marked,
         GoTo, TypeOK, HealthType, Routes,
         routerVars, callVars, healthVars, loopVars, callerVars, lanVars, historyVars
    <2>5. HistoryType'
      BY <1>5, RouterAssumption DEF ReadFailsOver, SelectCloud, ContinueOnCloud,
         StartCall, Marked, GoTo, TypeOK, HistoryType,
         routerVars, callVars, healthVars, loopVars, callerVars, lanVars, historyVars
    <2>6. QED
      BY <2>1, <2>2, <2>3, <2>4, <2>5 DEF TypeOK
  <1>6. CASE WriteFailsOver(c)
    <2>0. /\ outcome # "none"
          /\ active' \in Routes \cup {"none"}
          /\ localFailures' \in 0..StreakCap
          /\ CountedRecovery \in 0..LOCAL_RECOVERY_THRESHOLD
      BY <1>6, MarkedType DEF WriteFailsOver, Marked
    <2>1. RouterType'
      BY <1>6, <2>0, RouterAssumption DEF WriteFailsOver, SelectCloud, Finish, Release,
         Marked, GoTo, TypeOK, RouterType, Routes,
         routerVars, callVars, healthVars, loopVars, callerVars, lanVars, historyVars
    <2>2. CallType'
      BY <1>6, <2>0 DEF WriteFailsOver, SelectCloud, Finish, Release, Marked, GoTo,
         TypeOK, CallType, Labels, Routes,
         routerVars, callVars, healthVars, loopVars, callerVars, lanVars, historyVars
    <2>3. FlagType'
      BY <1>6 DEF WriteFailsOver, SelectCloud, Finish, Release, Marked, GoTo, TypeOK,
         FlagType,
         routerVars, callVars, healthVars, loopVars, callerVars, lanVars, historyVars
    <2>4. HealthType'
      BY <1>6, <2>0 DEF WriteFailsOver, SelectCloud, Finish, Release, Marked, GoTo,
         TypeOK, HealthType, Routes,
         routerVars, callVars, healthVars, loopVars, callerVars, lanVars, historyVars
    <2>5. HistoryType'
      BY <1>6, RouterAssumption DEF WriteFailsOver, SelectCloud, Finish, Release,
         Marked, GoTo, TypeOK, HistoryType,
         routerVars, callVars, healthVars, loopVars, callerVars, lanVars, historyVars
    <2>6. QED
      BY <2>1, <2>2, <2>3, <2>4, <2>5 DEF TypeOK
  <1>7. CASE ProbeFails(c)
    <2>0. /\ outcome # "none"
          /\ active' \in Routes \cup {"none"}
          /\ localFailures' \in 0..StreakCap
          /\ CountedRecovery \in 0..LOCAL_RECOVERY_THRESHOLD
      BY <1>7, MarkedType DEF ProbeFails, Marked
    <2>1. RouterType'
      BY <1>7, <2>0, RouterAssumption DEF ProbeFails, ContinueOnCloud, StartCall,
         Marked, GoTo, TypeOK, RouterType, AtMost, Remaining, Routes,
         routerVars, callVars, healthVars, loopVars, callerVars, lanVars, historyVars
    <2>2. CallType'
      BY <1>7, <2>0 DEF ProbeFails, ContinueOnCloud, StartCall, Marked, GoTo, TypeOK,
         CallType, Labels, Routes,
         routerVars, callVars, healthVars, loopVars, callerVars, lanVars, historyVars
    <2>3. FlagType'
      BY <1>7 DEF ProbeFails, ContinueOnCloud, StartCall, Marked, GoTo, TypeOK, FlagType,
         routerVars, callVars, healthVars, loopVars, callerVars, lanVars, historyVars
    <2>4. HealthType'
      BY <1>7, <2>0 DEF ProbeFails, ContinueOnCloud, StartCall, Marked, GoTo, TypeOK,
         HealthType, Routes,
         routerVars, callVars, healthVars, loopVars, callerVars, lanVars, historyVars
    <2>5. HistoryType'
      BY <1>7, RouterAssumption DEF ProbeFails, ContinueOnCloud, StartCall, Marked,
         GoTo, TypeOK, HistoryType,
         routerVars, callVars, healthVars, loopVars, callerVars, lanVars, historyVars
    <2>6. QED
      BY <2>1, <2>2, <2>3, <2>4, <2>5 DEF TypeOK
  <1>8. CASE ProbeSucceeds(c)
    <2>0. /\ outcome # "none"
          /\ active' \in Routes \cup {"none"}
          /\ localFailures' \in 0..StreakCap
          /\ CountedRecovery \in 0..LOCAL_RECOVERY_THRESHOLD
      BY <1>8, MarkedType DEF ProbeSucceeds, Marked
    <2>1. RouterType'
      BY <1>8, <2>0, RouterAssumption DEF ProbeSucceeds, ContinueOnCloud, StartCall,
         Marked, GoTo, TypeOK, RouterType, AtMost, Remaining, Routes,
         routerVars, callVars, healthVars, loopVars, callerVars, lanVars, historyVars
    <2>2. CallType'
      BY <1>8, <2>0 DEF ProbeSucceeds, ContinueOnCloud, StartCall, Marked, GoTo,
         TypeOK, CallType, Labels, Routes,
         routerVars, callVars, healthVars, loopVars, callerVars, lanVars, historyVars
    <2>3. FlagType'
      BY <1>8 DEF ProbeSucceeds, ContinueOnCloud, StartCall, Marked, GoTo, TypeOK,
         FlagType,
         routerVars, callVars, healthVars, loopVars, callerVars, lanVars, historyVars
    <2>4. HealthType'
      BY <1>8, <2>0 DEF ProbeSucceeds, ContinueOnCloud, StartCall, Marked, GoTo,
         TypeOK, HealthType, Routes,
         routerVars, callVars, healthVars, loopVars, callerVars, lanVars, historyVars
    <2>5. HistoryType'
      BY <1>8, RouterAssumption DEF ProbeSucceeds, ContinueOnCloud, StartCall, Marked,
         GoTo, TypeOK, HistoryType,
         routerVars, callVars, healthVars, loopVars, callerVars, lanVars, historyVars
    <2>6. QED
      BY <2>1, <2>2, <2>3, <2>4, <2>5 DEF TypeOK
  <1>9. QED
    BY <1>1, <1>2, <1>3, <1>4, <1>5, <1>6, <1>7, <1>8 DEF ExecutorStep

LEMMA EnvironmentType ==
  ASSUME TypeOK, Tick \/ LinkChanges \/ UNCHANGED vars
  PROVE  TypeOK'
  <1>1. CASE Tick
    <2>1. RouterType'
      BY <1>1, RouterAssumption DEF Tick, CountUpTo, TypeOK, RouterType,
         routerVars, callVars, healthVars, loopVars, callerVars, lanVars, historyVars
    <2>2. CallType'
      BY <1>1 DEF Tick, CountUpTo, TypeOK, CallType, Labels, Routes,
         routerVars, callVars, healthVars, loopVars, callerVars, lanVars, historyVars
    <2>3. FlagType'
      BY <1>1 DEF Tick, CountUpTo, TypeOK, FlagType,
         routerVars, callVars, healthVars, loopVars, callerVars, lanVars, historyVars
    <2>4. HealthType'
      BY <1>1 DEF Tick, CountUpTo, TypeOK, HealthType, Routes,
         routerVars, callVars, healthVars, loopVars, callerVars, lanVars, historyVars
    <2>5. HistoryType'
      BY <1>1, RouterAssumption DEF Tick, CountUpTo, TypeOK, HistoryType,
         routerVars, callVars, healthVars, loopVars, callerVars, lanVars, historyVars
    <2>6. QED
      BY <2>1, <2>2, <2>3, <2>4, <2>5 DEF TypeOK
  <1>2. CASE LinkChanges
    <2>1. RouterType'
      BY <1>2, RouterAssumption DEF LinkChanges, TypeOK, RouterType,
         routerVars, callVars, healthVars, loopVars, callerVars, lanVars, historyVars
    <2>2. CallType'
      BY <1>2 DEF LinkChanges, TypeOK, CallType, Labels, Routes,
         routerVars, callVars, healthVars, loopVars, callerVars, lanVars, historyVars
    <2>3. FlagType'
      BY <1>2 DEF LinkChanges, TypeOK, FlagType,
         routerVars, callVars, healthVars, loopVars, callerVars, lanVars, historyVars
    <2>4. HealthType'
      BY <1>2 DEF LinkChanges, TypeOK, HealthType, Routes,
         routerVars, callVars, healthVars, loopVars, callerVars, lanVars, historyVars
    <2>5. HistoryType'
      BY <1>2, RouterAssumption DEF LinkChanges, TypeOK, HistoryType,
         routerVars, callVars, healthVars, loopVars, callerVars, lanVars, historyVars
    <2>6. QED
      BY <2>1, <2>2, <2>3, <2>4, <2>5 DEF TypeOK
  <1>3. CASE UNCHANGED vars
    <2>1. RouterType'
      BY <1>3, RouterAssumption DEF vars, TypeOK, RouterType,
         routerVars, callVars, healthVars, loopVars, callerVars, lanVars, historyVars
    <2>2. CallType'
      BY <1>3 DEF vars, TypeOK, CallType, Labels, Routes,
         routerVars, callVars, healthVars, loopVars, callerVars, lanVars, historyVars
    <2>3. FlagType'
      BY <1>3 DEF vars, TypeOK, FlagType,
         routerVars, callVars, healthVars, loopVars, callerVars, lanVars, historyVars
    <2>4. HealthType'
      BY <1>3 DEF vars, TypeOK, HealthType, Routes,
         routerVars, callVars, healthVars, loopVars, callerVars, lanVars, historyVars
    <2>5. HistoryType'
      BY <1>3, RouterAssumption DEF vars, TypeOK, HistoryType,
         routerVars, callVars, healthVars, loopVars, callerVars, lanVars, historyVars
    <2>6. QED
      BY <2>1, <2>2, <2>3, <2>4, <2>5 DEF TypeOK
  <1>4. QED
    BY <1>1, <1>2, <1>3

-----------------------------------------------------------------------------
(* The inductive invariant.                                                *)

LEMMA InitInv == Init => RouterInv
  <1> SUFFICES ASSUME Init
               PROVE  RouterInv
    OBVIOUS
  <1>1. TypeOK
    BY InitType
  <1>2. LockInv /\ ModeInv /\ CallInv
    BY RouterAssumption DEF Init, LockInv, ModeInv, CallInv, Fallback
  <1>3. StreakInv /\ StayInv
    BY RouterAssumption DEF Init, StreakInv, StayInv, Pending, Marking, Fallback
  <1>4. QED
    BY <1>1, <1>2, <1>3 DEF RouterInv

(***************************************************************************)
(* A step of the event loop touches neither the router nor the operation   *)
(* in its lock: the caller that takes it is not the holder, before or      *)
(* after.                                                                  *)
(***************************************************************************)
LEMMA LoopFrame ==
  ASSUME RouterInv, NEW c \in Callers,
         LoopStep(c) \/ \E k \in Kinds[c] \ {"info"} : Request(c, k)
  PROVE  /\ UNCHANGED <<mode, routerVars, callVars, callCount, authSeen, stay,
                        failStreak, okStreak>>
         /\ c # holder
         /\ pc'[c] \notin {"call", "mark_state", "mark_active"}
         /\ \A d \in Callers \ {c} : pc'[d] = pc[d] /\ kind'[d] = kind[d]
  <1> USE DEF RouterInv, LockInv, TypeOK, CallType, GoTo, SetConnectionState, callVars,
          routerVars, historyVars, lanVars
  <1>1. CASE \E k \in Kinds[c] \ {"info"} : Request(c, k)
    BY <1>1 DEF Request, loopVars
  <1>2. CASE HandleSuccess(c)
    BY <1>2 DEF HandleSuccess
  <1>3. CASE HandleFailure(c)
    BY <1>3 DEF HandleFailure
  <1>4. CASE CloseClients(c)
    BY <1>4 DEF CloseClients
  <1>5. CASE LoopState(c)
    BY <1>5 DEF LoopState
  <1>6. CASE LoopActive(c)
    BY <1>6 DEF LoopActive
  <1>7. QED
    BY <1>1, <1>2, <1>3, <1>4, <1>5, <1>6 DEF LoopStep

LEMMA LoopInv ==
  ASSUME RouterInv, NEW c \in Callers,
         LoopStep(c) \/ \E k \in Kinds[c] \ {"info"} : Request(c, k)
  PROVE  RouterInv'
  <1>1. TypeOK'
    BY LoopType DEF RouterInv
  <1>2. /\ UNCHANGED <<mode, selected, localFailures, recoverySuccesses, probeInterval,
                       probeIn, holder, route, outcome, probing, sinceProbe, callCount,
                       authSeen, stay, failStreak, okStreak>>
        /\ c # holder
        /\ pc'[c] \notin {"call", "mark_state", "mark_active"}
        /\ \A d \in Callers \ {c} : pc'[d] = pc[d] /\ kind'[d] = kind[d]
    BY LoopFrame DEF routerVars, callVars
  <1>3. LockInv'
    BY <1>2 DEF RouterInv, LockInv
  <1>4. holder # NoCaller => pc'[holder] = pc[holder] /\ kind'[holder] = kind[holder]
    BY <1>2 DEF RouterInv, TypeOK, CallType
  <1>5. ModeInv'
    BY <1>2, <1>4 DEF RouterInv, ModeInv
  <1>6. CallInv'
    BY <1>2, <1>4 DEF RouterInv, CallInv, Configured
  <1>7. StreakInv'
    BY <1>2, <1>4 DEF RouterInv, StreakInv, Pending, Marking
  <1>8. StayInv'
    BY <1>2 DEF RouterInv, StayInv
  <1>9. QED
    BY <1>1, <1>3, <1>5, <1>6, <1>7, <1>8 DEF RouterInv

LEMMA EnvironmentInv ==
  ASSUME RouterInv, Tick \/ LinkChanges \/ UNCHANGED vars
  PROVE  RouterInv'
  <1>1. TypeOK'
    BY EnvironmentType DEF RouterInv
  <1>2. UNCHANGED <<mode, selected, localFailures, recoverySuccesses, holder, route,
                    outcome, probing, callCount, authSeen, failStreak, okStreak, pc,
         kind>>
    BY DEF Tick, LinkChanges, vars, routerVars, callVars, callerVars, lanVars, historyVars
  <1>3. LockInv' /\ ModeInv' /\ CallInv'
    BY <1>2 DEF RouterInv, LockInv, ModeInv, CallInv, Configured
  <1>4. StreakInv'
    BY <1>2 DEF RouterInv, StreakInv, Pending, Marking
  <1>5. StayInv'
    <2>1. CASE Tick
      BY <1>2, <2>1 DEF Tick, CountUpTo, RouterInv, StayInv, TypeOK, RouterType,
         HistoryType
    <2>2. CASE LinkChanges \/ UNCHANGED vars
      BY <1>2, <2>2 DEF LinkChanges, vars, routerVars, callVars, historyVars, RouterInv,
         StayInv
    <2>3. QED
      BY <2>1, <2>2
  <1>6. QED
    BY <1>1, <1>3, <1>4, <1>5 DEF RouterInv

(***************************************************************************)
(* What LockInv gives a step of the executor: the caller that takes it is  *)
(* the holder, unless the step is the one that acquires the lock.          *)
(***************************************************************************)
LEMMA ExecutorHolds ==
  ASSUME RouterInv, NEW c \in Callers
  PROVE  /\ pc[c] \in {"call", "mark_state", "mark_active"} =>
                holder = c /\ holder # NoCaller
         /\ pc[c] = "mark_active" => outcome # "none"
         /\ probing => recoverySuccesses < LOCAL_RECOVERY_THRESHOLD
  BY RouterAssumption DEF RouterInv, LockInv, CallInv, ModeInv, StreakInv

LEMMA ExecutorInv ==
  ASSUME RouterInv, NEW c \in Callers, ExecutorStep(c)
  PROVE  RouterInv'
  <1>0. TypeOK'
    BY ExecutorHolds, ExecutorType DEF RouterInv
  <1>1. CASE Acquire(c)
    <2>0. holder = NoCaller /\ holder' = c /\ c # NoCaller
      BY <1>1, RouterAssumption DEF Acquire
    <2>1. LockInv'
      BY <1>1, <2>0, RouterAssumption DEF Acquire, GoTo, ProbeDue, FirstRoute,
         RouterInv, LockInv, TypeOK, CallType, routerVars, callVars, healthVars,
         loopVars, callerVars, lanVars, historyVars
    <2>2. ModeInv'
      BY <1>1, <2>0, RouterAssumption DEF Acquire, GoTo, ProbeDue, FirstRoute,
         RouterInv, ModeInv, Fallback, TypeOK, CallType, CallInv, StreakInv, LockInv,
         Routes,
         RouterType, routerVars, callVars, healthVars, loopVars, callerVars, lanVars,
         historyVars
    <2>a. /\ probing' => /\ kind[c] # "write" /\ mode = Fallback /\ selected = "cloud"
                         /\ probeIn = 0 /\ route' = "local"
          /\ ~probing' => ~ProbeDue(kind[c])
          /\ sinceProbe' = sinceProbe
          /\ route' = FirstRoute(kind[c])
          /\ ~probing
          /\ UNCHANGED <<mode, selected, recoverySuccesses, probeIn, stay, kind>>
      BY <1>1, <2>0 DEF Acquire, ProbeDue, FirstRoute, RouterInv, ModeInv, routerVars
    <2>b. /\ Configured(mode, route')
          /\ selected = "cloud" /\ route' = "local" => probing'
          /\ route' \in Routes
      BY <2>a, RouterAssumption DEF ProbeDue, FirstRoute, RouterInv, ModeInv, TypeOK,
         RouterType, Configured, Fallback, Routes
    <2>c. /\ pc'[c] = "call" /\ outcome' = "none" /\ ~authSeen'
          /\ callCount' = [r \in Routes |-> IF r = FirstRoute(kind[c]) THEN 1 ELSE 0]
      BY <1>1 DEF Acquire, GoTo, RouterInv, TypeOK, CallType
    <2>3. CallInv'
      BY <2>0, <2>a, <2>b, <2>c DEF CallInv, Configured
    <2>4. StreakInv'
      BY <1>1, <2>0, RouterAssumption DEF Acquire, GoTo, ProbeDue, FirstRoute,
         RouterInv, StreakInv, TypeOK, RouterType, CallType, HistoryType, CallInv,
         LockInv, ModeInv, Pending, Marking, CountedFailures, CountedRecovery,
         CountUpTo, Routes, routerVars, callVars, healthVars, loopVars, callerVars,
         lanVars, historyVars
    <2>5. StayInv'
      BY <2>a DEF RouterInv, StayInv, TypeOK, RouterType, HistoryType
    <2>6. QED
      BY <1>0, <2>1, <2>2, <2>3, <2>4, <2>5 DEF RouterInv
  <1>2. CASE CallReturns(c)
    <2>0. holder = c /\ holder # NoCaller
      BY <1>2, ExecutorHolds DEF CallReturns
    <2>1. LockInv'
      BY <1>2, <2>0, RouterAssumption DEF CallReturns, GoTo, CallOutcome, CountUpTo,
         RouterInv, LockInv, TypeOK, CallType, routerVars, callVars, healthVars,
         loopVars, callerVars, lanVars, historyVars
    <2>2. ModeInv'
      BY <1>2, <2>0, RouterAssumption DEF CallReturns, GoTo, CallOutcome, CountUpTo,
         RouterInv, ModeInv, Fallback, TypeOK, CallType, CallInv, StreakInv, LockInv,
         Routes,
         RouterType, routerVars, callVars, healthVars, loopVars, callerVars, lanVars,
         historyVars
    <2>3. CallInv'
      BY <1>2, <2>0, RouterAssumption DEF CallReturns, GoTo, CallOutcome, CountUpTo,
         RouterInv, CallInv, TypeOK, CallType, ModeInv, StreakInv, LockInv, Configured,
         Fallback, Routes, RouterType, routerVars, callVars, healthVars, loopVars,
         callerVars, lanVars, historyVars
    <2>4. StreakInv'
      BY <1>2, <2>0, RouterAssumption DEF CallReturns, GoTo, CallOutcome, CountUpTo,
         RouterInv, StreakInv, TypeOK, RouterType, CallType, HistoryType, CallInv,
         LockInv, ModeInv, Pending, Marking, CountedFailures, CountedRecovery, Routes,
         routerVars, callVars, healthVars, loopVars, callerVars, lanVars, historyVars
    <2>5. StayInv'
      BY <1>2, <2>0, RouterAssumption DEF CallReturns, GoTo, CallOutcome, CountUpTo,
         RouterInv, StayInv, TypeOK, RouterType, HistoryType, ModeInv, StreakInv,
         CallInv, Remaining, AtMost, CountedRecovery, Pending, Marking, Routes,
         Fallback, routerVars, callVars, healthVars, loopVars, callerVars, lanVars,
         historyVars
    <2>6. QED
      BY <1>0, <2>1, <2>2, <2>3, <2>4, <2>5 DEF RouterInv
  <1>3. CASE MarkState(c)
    <2>0. holder = c /\ holder # NoCaller
      BY <1>3, ExecutorHolds DEF MarkState
    <2>1. LockInv'
      BY <1>3, <2>0, RouterAssumption DEF MarkState, GoTo, RouterInv, LockInv, TypeOK,
         CallType, routerVars, callVars, healthVars, loopVars, callerVars, lanVars,
         historyVars
    <2>2. ModeInv'
      BY <1>3, <2>0, RouterAssumption DEF MarkState, GoTo, RouterInv, ModeInv,
         Fallback, TypeOK,
         CallType, CallInv, StreakInv, LockInv, Routes, RouterType, routerVars,
         callVars, healthVars, loopVars, callerVars, lanVars, historyVars
    <2>3. CallInv'
      BY <1>3, <2>0, RouterAssumption DEF MarkState, GoTo, RouterInv, CallInv, TypeOK,
         CallType, ModeInv, StreakInv, LockInv, Configured, Fallback, Routes,
         RouterType, routerVars, callVars, healthVars, loopVars, callerVars, lanVars,
         historyVars
    <2>4. StreakInv'
      BY <1>3, <2>0, RouterAssumption DEF MarkState, GoTo, RouterInv, StreakInv,
         TypeOK, RouterType, CallType, HistoryType, CallInv, LockInv, ModeInv, Pending,
         Marking, CountedFailures, CountedRecovery, CountUpTo, Routes, routerVars,
         callVars, healthVars, loopVars, callerVars, lanVars, historyVars
    <2>5. StayInv'
      BY <1>3, <2>0, RouterAssumption DEF MarkState, GoTo, RouterInv, StayInv, TypeOK,
         RouterType, HistoryType, ModeInv, StreakInv, CallInv, Remaining, AtMost,
         CountedRecovery, Pending, Marking, Routes, Fallback, routerVars, callVars,
         healthVars, loopVars, callerVars, lanVars, historyVars
    <2>6. QED
      BY <1>0, <2>1, <2>2, <2>3, <2>4, <2>5 DEF RouterInv
  <1>4. CASE OperationEnds(c)
    <2>0. holder = c /\ holder # NoCaller
      BY <1>4, ExecutorHolds DEF OperationEnds, Marked
    <2>1. LockInv'
      BY <1>4, <2>0, RouterAssumption DEF OperationEnds, Finish, Release, FailsOver,
         Marked,
         GoTo, RouterInv, LockInv, TypeOK, CallType, routerVars, callVars, healthVars,
         loopVars, callerVars, lanVars, historyVars
    <2>2. ModeInv'
      BY <1>4, <2>0, RouterAssumption DEF OperationEnds, Finish, Release, FailsOver,
         Marked,
         GoTo, RouterInv, ModeInv, Fallback, TypeOK, CallType, CallInv, StreakInv,
         LockInv,
         Routes, RouterType, routerVars, callVars, healthVars, loopVars, callerVars,
         lanVars, historyVars
    <2>3. CallInv'
      BY <1>4, <2>0, RouterAssumption DEF OperationEnds, Finish, Release, FailsOver,
         Marked,
         GoTo, RouterInv, CallInv, TypeOK, CallType, ModeInv, StreakInv, LockInv,
         Configured, Fallback, Routes, RouterType, routerVars, callVars, healthVars,
         loopVars, callerVars, lanVars, historyVars
    <2>4. StreakInv'
      BY <1>4, <2>0, RouterAssumption DEF OperationEnds, Finish, Release, FailsOver,
         Marked,
         GoTo, RouterInv, StreakInv, TypeOK, RouterType, CallType, HistoryType,
         CallInv, LockInv, ModeInv, Pending, Marking, CountedFailures, CountedRecovery,
         CountUpTo, Routes, routerVars, callVars, healthVars, loopVars, callerVars,
         lanVars, historyVars
    <2>5. StayInv'
      BY <1>4, <2>0, RouterAssumption DEF OperationEnds, Finish, Release, FailsOver,
         Marked,
         GoTo, RouterInv, StayInv, TypeOK, RouterType, HistoryType, ModeInv, StreakInv,
         CallInv, Remaining, AtMost, CountedRecovery, Pending, Marking, Routes,
         Fallback, routerVars, callVars, healthVars, loopVars, callerVars, lanVars,
         historyVars
    <2>6. QED
      BY <1>0, <2>1, <2>2, <2>3, <2>4, <2>5 DEF RouterInv
  <1>5. CASE ReadFailsOver(c)
    <2>0. holder = c /\ holder # NoCaller
      BY <1>5, ExecutorHolds DEF ReadFailsOver, Marked
    <2>1. LockInv'
      BY <1>5, <2>0, RouterAssumption DEF ReadFailsOver, ContinueOnCloud, StartCall,
         SelectCloud, FailsOver, Marked, GoTo, RouterInv, LockInv, TypeOK, CallType,
         routerVars, callVars, healthVars, loopVars, callerVars, lanVars, historyVars
    <2>2. ModeInv'
      BY <1>5, <2>0, RouterAssumption DEF ReadFailsOver, ContinueOnCloud, StartCall,
         SelectCloud, FailsOver, Marked, GoTo, RouterInv, ModeInv, Fallback, TypeOK,
         CallType,
         CallInv, StreakInv, LockInv, Routes, RouterType, routerVars, callVars,
         healthVars, loopVars, callerVars, lanVars, historyVars
    <2>3. CallInv'
      BY <1>5, <2>0, RouterAssumption DEF ReadFailsOver, ContinueOnCloud, StartCall,
         SelectCloud, FailsOver, Marked, GoTo, RouterInv, CallInv, TypeOK, CallType,
         ModeInv, StreakInv, LockInv, Configured, Fallback, Routes, RouterType,
         routerVars, callVars, healthVars, loopVars, callerVars, lanVars, historyVars
    <2>4. StreakInv'
      BY <1>5, <2>0, RouterAssumption DEF ReadFailsOver, ContinueOnCloud, StartCall,
         SelectCloud, FailsOver, Marked, GoTo, RouterInv, StreakInv, TypeOK,
         RouterType, CallType, HistoryType, CallInv, LockInv, ModeInv, Pending,
         Marking, CountedFailures, CountedRecovery, CountUpTo, Routes, routerVars,
         callVars, healthVars, loopVars, callerVars, lanVars, historyVars
    <2>5. StayInv'
      BY <1>5, <2>0, RouterAssumption DEF ReadFailsOver, ContinueOnCloud, StartCall,
         SelectCloud, FailsOver, Marked, GoTo, RouterInv, StayInv, TypeOK, RouterType,
         HistoryType, ModeInv, StreakInv, CallInv, Remaining, AtMost, CountedRecovery,
         Pending, Marking, Routes, Fallback, routerVars, callVars, healthVars,
         loopVars, callerVars, lanVars, historyVars
    <2>6. QED
      BY <1>0, <2>1, <2>2, <2>3, <2>4, <2>5 DEF RouterInv
  <1>6. CASE WriteFailsOver(c)
    <2>0. holder = c /\ holder # NoCaller
      BY <1>6, ExecutorHolds DEF WriteFailsOver, Marked
    <2>1. LockInv'
      BY <1>6, <2>0, RouterAssumption DEF WriteFailsOver, Finish, Release, SelectCloud,
         FailsOver, Marked, GoTo, RouterInv, LockInv, TypeOK, CallType, routerVars,
         callVars, healthVars, loopVars, callerVars, lanVars, historyVars
    <2>2. ModeInv'
      BY <1>6, <2>0, RouterAssumption DEF WriteFailsOver, Finish, Release, SelectCloud,
         FailsOver, Marked, GoTo, RouterInv, ModeInv, Fallback, TypeOK, CallType, CallInv,
         StreakInv, LockInv, Routes, RouterType, routerVars, callVars, healthVars,
         loopVars, callerVars, lanVars, historyVars
    <2>3. CallInv'
      BY <1>6, <2>0, RouterAssumption DEF WriteFailsOver, Finish, Release, SelectCloud,
         FailsOver, Marked, GoTo, RouterInv, CallInv, TypeOK, CallType, ModeInv,
         StreakInv, LockInv, Configured, Fallback, Routes, RouterType, routerVars,
         callVars, healthVars, loopVars, callerVars, lanVars, historyVars
    <2>4. StreakInv'
      BY <1>6, <2>0, RouterAssumption DEF WriteFailsOver, Finish, Release, SelectCloud,
         FailsOver, Marked, GoTo, RouterInv, StreakInv, TypeOK, RouterType, CallType,
         HistoryType, CallInv, LockInv, ModeInv, Pending, Marking, CountedFailures,
         CountedRecovery, CountUpTo, Routes, routerVars, callVars, healthVars,
         loopVars, callerVars, lanVars, historyVars
    <2>5. StayInv'
      BY <1>6, <2>0, RouterAssumption DEF WriteFailsOver, Finish, Release, SelectCloud,
         FailsOver, Marked, GoTo, RouterInv, StayInv, TypeOK, RouterType, HistoryType,
         ModeInv, StreakInv, CallInv, Remaining, AtMost, CountedRecovery, Pending,
         Marking, Routes, Fallback, routerVars, callVars, healthVars, loopVars,
         callerVars, lanVars, historyVars
    <2>6. QED
      BY <1>0, <2>1, <2>2, <2>3, <2>4, <2>5 DEF RouterInv
  <1>7. CASE ProbeFails(c)
    <2>0. holder = c /\ holder # NoCaller
      BY <1>7, ExecutorHolds DEF ProbeFails, Marked
    <2>1. LockInv'
      BY <1>7, <2>0, RouterAssumption DEF ProbeFails, ContinueOnCloud, StartCall,
         Marked, GoTo, RouterInv, LockInv, TypeOK, CallType, routerVars, callVars,
         healthVars, loopVars, callerVars, lanVars, historyVars
    <2>2. ModeInv'
      BY <1>7, <2>0, RouterAssumption DEF ProbeFails, ContinueOnCloud, StartCall,
         Marked, GoTo, RouterInv, ModeInv, Fallback, TypeOK, CallType, CallInv, StreakInv,
         LockInv, Routes, RouterType, routerVars, callVars, healthVars, loopVars,
         callerVars, lanVars, historyVars
    <2>3. CallInv'
      BY <1>7, <2>0, RouterAssumption DEF ProbeFails, ContinueOnCloud, StartCall,
         Marked, GoTo, RouterInv, CallInv, TypeOK, CallType, ModeInv, StreakInv,
         LockInv, Configured, Fallback, Routes, RouterType, routerVars, callVars,
         healthVars, loopVars, callerVars, lanVars, historyVars
    <2>4. StreakInv'
      BY <1>7, <2>0, RouterAssumption DEF ProbeFails, ContinueOnCloud, StartCall,
         Marked, GoTo, RouterInv, StreakInv, TypeOK, RouterType, CallType, HistoryType,
         CallInv, LockInv, ModeInv, Pending, Marking, CountedFailures, CountedRecovery,
         CountUpTo, Routes, routerVars, callVars, healthVars, loopVars, callerVars,
         lanVars, historyVars
    <2>5. StayInv'
      BY <1>7, <2>0, RouterAssumption DEF ProbeFails, ContinueOnCloud, StartCall,
         Marked, GoTo, RouterInv, StayInv, TypeOK, RouterType, HistoryType, ModeInv,
         StreakInv, CallInv, Remaining, AtMost, CountedRecovery, Pending, Marking,
         Routes, Fallback, routerVars, callVars, healthVars, loopVars, callerVars,
         lanVars, historyVars
    <2>6. QED
      BY <1>0, <2>1, <2>2, <2>3, <2>4, <2>5 DEF RouterInv
  <1>8. CASE ProbeSucceeds(c)
    <2>0. holder = c /\ holder # NoCaller
      BY <1>8, ExecutorHolds DEF ProbeSucceeds, Marked
    <2>1. LockInv'
      BY <1>8, <2>0, RouterAssumption DEF ProbeSucceeds, ContinueOnCloud, StartCall,
         Marked, GoTo, RouterInv, LockInv, TypeOK, CallType, routerVars, callVars,
         healthVars, loopVars, callerVars, lanVars, historyVars
    <2>2. ModeInv'
      BY <1>8, <2>0, RouterAssumption DEF ProbeSucceeds, ContinueOnCloud, StartCall,
         Marked, GoTo, RouterInv, ModeInv, Fallback, TypeOK, CallType, CallInv, StreakInv,
         LockInv, Routes, RouterType, routerVars, callVars, healthVars, loopVars,
         callerVars, lanVars, historyVars
    <2>3. CallInv'
      BY <1>8, <2>0, RouterAssumption DEF ProbeSucceeds, ContinueOnCloud, StartCall,
         Marked, GoTo, RouterInv, CallInv, TypeOK, CallType, ModeInv, StreakInv,
         LockInv, Configured, Fallback, Routes, RouterType, routerVars, callVars,
         healthVars, loopVars, callerVars, lanVars, historyVars
    <2>4. StreakInv'
      BY <1>8, <2>0, RouterAssumption DEF ProbeSucceeds, ContinueOnCloud, StartCall,
         Marked, GoTo, RouterInv, StreakInv, TypeOK, RouterType, CallType, HistoryType,
         CallInv, LockInv, ModeInv, Pending, Marking, CountedFailures, CountedRecovery,
         CountUpTo, Routes, routerVars, callVars, healthVars, loopVars, callerVars,
         lanVars, historyVars
    <2>5. StayInv'
      BY <1>8, <2>0, RouterAssumption DEF ProbeSucceeds, ContinueOnCloud, StartCall,
         Marked, GoTo, RouterInv, StayInv, TypeOK, RouterType, HistoryType, ModeInv,
         StreakInv, CallInv, Remaining, AtMost, CountedRecovery, Pending, Marking,
         Routes, Fallback, routerVars, callVars, healthVars, loopVars, callerVars,
         lanVars, historyVars
    <2>6. QED
      BY <1>0, <2>1, <2>2, <2>3, <2>4, <2>5 DEF RouterInv
  <1>9. QED
    BY <1>1, <1>2, <1>3, <1>4, <1>5, <1>6, <1>7, <1>8 DEF ExecutorStep

-----------------------------------------------------------------------------
(* The theorems.                                                           *)

LEMMA NextInv == RouterInv /\ [Next]_vars => RouterInv'
  <1> SUFFICES ASSUME RouterInv, [Next]_vars
               PROVE  RouterInv'
    OBVIOUS
  <1>1. CASE Tick \/ LinkChanges \/ UNCHANGED vars
    BY <1>1, EnvironmentInv
  <1>2. ASSUME NEW c \in Callers,
               LoopStep(c) \/ \E k \in Kinds[c] \ {"info"} : Request(c, k)
        PROVE  RouterInv'
    BY <1>2, LoopInv
  <1>3. ASSUME NEW c \in Callers, ExecutorStep(c)
        PROVE  RouterInv'
    BY <1>3, ExecutorInv
  <1>4. QED
    BY <1>1, <1>2, <1>3 DEF Next

(***************************************************************************)
(* The lock, the calls of the operation inside it, the counters and the    *)
(* probe timer always stand to one another as RouterInv says.              *)
(***************************************************************************)
THEOREM RouterInvariant == Spec => []RouterInv
  <1>1. QED
    BY InitInv, NextInv, PTL DEF Spec

(***************************************************************************)
(* Every variable keeps its type: in particular the probe interval never   *)
(* leaves LOCAL_PROBE_INTERVAL_SECONDS .. LOCAL_PROBE_MAX_INTERVAL_SECONDS *)
(* and the recovery counter never passes its threshold.                    *)
(***************************************************************************)
THEOREM TypeCorrect == Spec => []TypeOK
  <1>1. RouterInv => TypeOK
    BY DEF RouterInv
  <1>2. QED
    BY <1>1, RouterInvariant, PTL

(***************************************************************************)
(* One operation calls no unconfigured route and no route twice, sends a   *)
(* command on exactly one route and stops at an authentication error       *)
(* (_read, _write).                                                        *)
(***************************************************************************)
THEOREM Discipline == Spec => []OperationDiscipline
  <1>1. RouterInv => OperationDiscipline
    <2> SUFFICES ASSUME RouterInv, holder # NoCaller
                 PROVE  /\ \A r \in Routes :
                             callCount[r] <= IF Configured(mode, r) THEN 1 ELSE 0
                        /\ kind[holder] = "write" =>
                             callCount["local"] + callCount["cloud"] = 1
                        /\ authSeen => pc[holder] # "call"
      BY DEF OperationDiscipline
    <2>1. ASSUME NEW r \in Routes
          PROVE  callCount[r] <= IF Configured(mode, r) THEN 1 ELSE 0
      BY <2>1 DEF RouterInv, CallInv, TypeOK, CallType, Configured, Fallback
    <2>2. kind[holder] = "write" => callCount["local"] + callCount["cloud"] = 1
      BY DEF RouterInv, CallInv, TypeOK, CallType, Routes
    <2>3. authSeen => pc[holder] # "call"
      BY DEF RouterInv, CallInv
    <2>4. QED
      BY <2>1, <2>2, <2>3
  <1>2. QED
    BY <1>1, RouterInvariant, PTL

-----------------------------------------------------------------------------
(* The router implements the abstract selection policy.                    *)

LEMMA SelectionInitial == Init => Selection!SelectionInit
  BY DEF Init, Selection!SelectionInit

LEMMA SelectionStutters ==
  ASSUME UNCHANGED <<selected, failStreak, okStreak, stay>>
  PROVE  [Selection!SelectionNext]_(Selection!selectionVars)
  BY DEF Selection!selectionVars

(***************************************************************************)
(* Of the executor's steps, a returning LAN call is a LAN call of the      *)
(* policy, a failover its FailOver, a probe that completes the streak its  *)
(* Recover: there the counters say what the guards ask of the history.     *)
(***************************************************************************)
LEMMA SelectionStep ==
  ASSUME RouterInv, NEW c \in Callers, ExecutorStep(c)
  PROVE  [Selection!SelectionNext]_(Selection!selectionVars)
  <1> DEFINE Quiet == UNCHANGED <<selected, failStreak, okStreak, stay>>
  <1>1. CASE Acquire(c)
    <2>1. Quiet
      BY <1>1 DEF Acquire, routerVars, lanVars
    <2>2. QED
      BY <2>1, SelectionStutters
  <1>2. CASE CallReturns(c)
    <2>1. CASE route = "cloud"
      <3>1. Quiet
        BY <1>2, <2>1 DEF CallReturns, routerVars
      <3>2. QED
        BY <3>1, SelectionStutters
    <2>2. CASE route # "cloud"
      <3>1. Selection!LanCallFails \/ Selection!LanCallSucceeds
        BY <1>2, <2>2 DEF CallReturns, routerVars, CountUpTo, Selection!LanCallFails,
           Selection!LanCallSucceeds, Selection!CountUpTo
      <3>2. QED
        BY <3>1 DEF Selection!SelectionNext
    <2>3. QED
      BY <2>1, <2>2
  <1>3. CASE MarkState(c)
    <2>1. Quiet
      BY <1>3 DEF MarkState, routerVars, lanVars, historyVars
    <2>2. QED
      BY <2>1, SelectionStutters
  <1>4. CASE OperationEnds(c)
    <2>1. Quiet
      BY <1>4 DEF OperationEnds, Marked, lanVars
    <2>2. QED
      BY <2>1, SelectionStutters
  <1>5. CASE ReadFailsOver(c) \/ WriteFailsOver(c)
    <2>1. /\ holder = c /\ holder # NoCaller /\ pc[c] = "mark_active"
          /\ route = "local" /\ outcome = "conn" /\ selected = "local"
          /\ CountedFailures >= LOCAL_FAILURE_THRESHOLD
          /\ selected' = "cloud" /\ stay' = 0
          /\ UNCHANGED <<failStreak, okStreak>>
      BY <1>5, ExecutorHolds DEF ReadFailsOver, WriteFailsOver, Marked, FailsOver,
         SelectCloud, lanVars
    <2>2. failStreak = CountedFailures
      BY <2>1 DEF RouterInv, StreakInv, Pending, Marking, CountedFailures
    <2>3. Selection!FailOver
      BY <2>1, <2>2 DEF Selection!FailOver
    <2>4. QED
      BY <2>3 DEF Selection!SelectionNext
  <1>6. CASE ProbeFails(c)
    <2>1. Quiet
      BY <1>6 DEF ProbeFails, Marked, lanVars
    <2>2. QED
      BY <2>1, SelectionStutters
  <1>7. CASE ProbeSucceeds(c)
    <2>1. CASE recoverySuccesses + 1 < LOCAL_RECOVERY_THRESHOLD
      <3>1. Quiet
        BY <1>7, <2>1 DEF ProbeSucceeds, Marked, lanVars
      <3>2. QED
        BY <3>1, SelectionStutters
    <2>2. CASE ~(recoverySuccesses + 1 < LOCAL_RECOVERY_THRESHOLD)
      <3>1. /\ holder = c /\ holder # NoCaller /\ pc[c] = "mark_active"
            /\ probing /\ outcome = "ok" /\ selected' = "local"
            /\ UNCHANGED <<failStreak, okStreak, stay>>
        BY <1>7, <2>2, ExecutorHolds DEF ProbeSucceeds, Marked, lanVars
      <3>2. selected = "cloud" /\ route = "local"
        BY <3>1 DEF RouterInv, ModeInv
      <3>3. okStreak >= LOCAL_RECOVERY_THRESHOLD
        BY <2>2, <3>1, <3>2, RouterAssumption DEF RouterInv, StreakInv, Pending,
           Marking, TypeOK, RouterType, HistoryType
      <3>4. stay >= LOCAL_RECOVERY_THRESHOLD
        BY <2>2, <3>1, RouterAssumption DEF RouterInv, StayInv, TypeOK, RouterType,
           HistoryType
      <3>5. Selection!Recover
        BY <3>1, <3>2, <3>3, <3>4 DEF Selection!Recover
      <3>6. QED
        BY <3>5 DEF Selection!SelectionNext
    <2>3. QED
      BY <2>1, <2>2
  <1>8. QED
    BY <1>1, <1>2, <1>3, <1>4, <1>5, <1>6, <1>7 DEF ExecutorStep

(***************************************************************************)
(* For any thresholds the router's selected route follows the LAN's        *)
(* history: no failover without the streak of failures, no recovery        *)
(* without the streak of successes and the minimum stay on the relay       *)
(* (the counters and timers of _read, _write and _mark_failure).           *)
(***************************************************************************)
THEOREM Refinement == Spec => SelectionFollowsHistory
  <1>1. RouterInv /\ [Next]_vars => [Selection!SelectionNext]_(Selection!selectionVars)
    <2> SUFFICES ASSUME RouterInv, [Next]_vars
                 PROVE  [Selection!SelectionNext]_(Selection!selectionVars)
      OBVIOUS
    <2>1. CASE Tick
      <3>1. Selection!TimePasses
        BY <2>1 DEF Tick, lanVars, CountUpTo, Selection!TimePasses, Selection!CountUpTo
      <3>2. QED
        BY <3>1 DEF Selection!SelectionNext
    <2>2. CASE LinkChanges \/ UNCHANGED vars
      BY <2>2, SelectionStutters DEF LinkChanges, vars, routerVars, lanVars, historyVars
    <2>3. ASSUME NEW c \in Callers,
                 LoopStep(c) \/ \E k \in Kinds[c] \ {"info"} : Request(c, k)
          PROVE  [Selection!SelectionNext]_(Selection!selectionVars)
      BY <2>3, LoopFrame, SelectionStutters DEF routerVars
    <2>4. ASSUME NEW c \in Callers, ExecutorStep(c)
          PROVE  [Selection!SelectionNext]_(Selection!selectionVars)
      BY <2>4, SelectionStep
    <2>5. QED
      BY <2>1, <2>2, <2>3, <2>4 DEF Next
  <1>2. QED
    BY <1>1, SelectionInitial, RouterInvariant, PTL
       DEF Spec, SelectionFollowsHistory, Selection!SelectionSpec

-----------------------------------------------------------------------------
(* The health object, which threads of several callers write in turns.     *)

Mismatch == active # "none" /\ routeState[active] # "connected"

(***************************************************************************)
(* The event loop is with the caller that closes the clients or writes the *)
(* health.                                                                 *)
(***************************************************************************)
LoopOwned ==
    \A c \in Callers : pc[c] \in {"closing", "loop_state", "loop_active"} <=> loop = c

(***************************************************************************)
(* The caller is on its way to _set_connection_state and has not looked at *)
(* the active route yet.                                                   *)
(***************************************************************************)
ToReport(c) == pc[c] \in {"acquire", "call", "mark_state", "mark_active", "handle"}

(***************************************************************************)
(* The caller will remove a mismatch of the active route as it is now: it  *)
(* has its report before it, or is writing about that very route.          *)
(***************************************************************************)
Repairs(c) ==
    \/ ToReport(c) \/ pc[c] = "closing"
    \/ pc[c] = "loop_state" /\ loopRoute = active
    \/ pc[c] = "loop_active" /\ loopRoute = active /\ connectionState # "connected"

(***************************************************************************)
(* A mismatch is always somebody's to repair, also the one that the event  *)
(* loop is about to leave because an executor thread has marked the route  *)
(* between the loop's two assignments.                                     *)
(***************************************************************************)
HealthInv ==
    /\ LoopOwned
    /\ \A c \in Callers : pc[c] \in {"loop_state", "loop_active"} => loopRoute # "none"
    /\ Mismatch => \E c \in Callers : Repairs(c)
    /\ \A c \in Callers :
          pc[c] = "loop_active" /\ connectionState = "connected"
            /\ routeState[loopRoute] # "connected" => \E d \in Callers : ToReport(d)

LEMMA InitHealth == Init => HealthInv
  BY RouterAssumption DEF Init, HealthInv, LoopOwned, Mismatch

(***************************************************************************)
(* Reporting an outcome: a mismatch of the active route becomes the        *)
(* reporting caller's.                                                     *)
(***************************************************************************)
LEMMA ReportHealth ==
  ASSUME RouterInv, HealthInv, NEW c \in Callers, loop \in {NoCaller, c},
         NEW state, NEW after \in {"acquire", "idle"},
         SetConnectionState(c, state, after), UNCHANGED healthVars
  PROVE  HealthInv'
  <1>1. /\ pc \in [Callers -> Labels] /\ NoCaller \notin Callers
        /\ active' = active /\ routeState' = routeState /\ loopRoute' = active
        /\ \A d \in Callers \ {c} : pc'[d] = pc[d]
        /\ \A d \in Callers \ {c} : pc[d] \notin {"closing", "loop_state", "loop_active"}
    BY RouterAssumption DEF RouterInv, TypeOK, CallType, HealthInv, LoopOwned,
       SetConnectionState, GoTo, healthVars
  <1>2. CASE active = "none"
    BY <1>1, <1>2 DEF SetConnectionState, GoTo, HealthInv, LoopOwned, Mismatch
  <1>3. CASE active # "none"
    <2>1. pc'[c] = "loop_state" /\ loop' = c
      BY <1>1, <1>3 DEF SetConnectionState, GoTo
    <2>2. Repairs(c)'
      BY <1>1, <2>1 DEF Repairs
    <2>3. QED
      BY <1>1, <1>3, <2>1, <2>2 DEF HealthInv, LoopOwned
  <1>4. QED
    BY <1>2, <1>3

LEMMA LoopHealth ==
  ASSUME RouterInv, HealthInv, NEW c \in Callers,
         LoopStep(c) \/ \E k \in Kinds[c] \ {"info"} : Request(c, k)
  PROVE  HealthInv'
  <1>0. /\ pc \in [Callers -> Labels] /\ NoCaller \notin Callers
        /\ active \in Routes \cup {"none"} /\ loopRoute \in Routes \cup {"none"}
        /\ routeState \in
             [Routes -> {"not_configured", "unknown", "connected", "disconnected"}]
    BY RouterAssumption DEF RouterInv, TypeOK, CallType, HealthType
  <1>1. CASE \E k \in Kinds[c] \ {"info"} : Request(c, k)
    <2>1. PICK k \in Kinds[c] \ {"info"} : Request(c, k)
      BY <1>1
    <2>2. CASE SetConnectionState(c, "reconnecting", "acquire")
      BY <2>1, <2>2, ReportHealth DEF Request
    <2>3. CASE GoTo(c, "acquire") /\ UNCHANGED loopVars
      BY <1>0, <2>1, <2>3 DEF Request, GoTo, loopVars, healthVars, HealthInv, LoopOwned,
         Mismatch, Repairs, ToReport
    <2>4. QED
      BY <2>1, <2>2, <2>3 DEF Request
  <1>2. CASE HandleSuccess(c)
    BY <1>2, ReportHealth DEF HandleSuccess
  <1>3. CASE HandleFailure(c)
    BY <1>0, <1>3 DEF HandleFailure, GoTo, healthVars, HealthInv, LoopOwned, Mismatch,
       Repairs, ToReport
  <1>4. CASE CloseClients(c)
    <2>1. loop = c
      BY <1>4 DEF CloseClients, HealthInv, LoopOwned
    <2>2. QED
      BY <1>4, <2>1, ReportHealth DEF CloseClients
  <1>5. CASE LoopState(c)
    <2>1. /\ loop = c /\ loop' = c /\ loopRoute # "none" /\ pc'[c] = "loop_active"
          /\ active' = active /\ loopRoute' = loopRoute
          /\ connectionState' = connectionState
          /\ \A d \in Callers \ {c} : pc'[d] = pc[d]
          /\ \A r \in Routes \ {loopRoute} : routeState'[r] = routeState[r]
          /\ routeState'[loopRoute] = "connected" <=> connectionState = "connected"
      BY <1>0, <1>5 DEF LoopState, GoTo, loopVars, HealthInv, LoopOwned
    <2>2. Mismatch' => \E d \in Callers : Repairs(d)'
      <3>1. CASE active = loopRoute
        BY <1>0, <2>1, <3>1 DEF Mismatch, Repairs
      <3>2. CASE active # loopRoute
        BY <1>0, <1>5, <2>1, <3>2 DEF LoopState, Mismatch, Repairs, ToReport, HealthInv
      <3>3. QED
        BY <3>1, <3>2
    <2>3. QED
      BY <1>0, <1>5, <2>1, <2>2 DEF LoopState, HealthInv, LoopOwned, ToReport
  <1>6. CASE LoopActive(c)
    <2>1. /\ loop = c /\ loop' = NoCaller /\ pc'[c] \in {"acquire", "idle"}
          /\ pc[c] = "loop_active" /\ routeState' = routeState /\ loopRoute' = loopRoute
          /\ connectionState' = connectionState
          /\ \A d \in Callers \ {c} : pc'[d] = pc[d]
          /\ \A d \in Callers \ {c} : pc[d] \notin {"closing", "loop_state", "loop_active"}
      BY <1>0, <1>6 DEF LoopActive, GoTo, HealthInv, LoopOwned
    <2>2. Mismatch' => \E d \in Callers : ToReport(d)
      BY <1>0, <1>6, <2>1 DEF LoopActive, Mismatch, Repairs, ToReport, HealthInv
    <2>3. \A d \in Callers : ToReport(d) => Repairs(d)'
      BY <2>1 DEF ToReport, Repairs
    <2>4. QED
      BY <1>0, <2>1, <2>2, <2>3 DEF HealthInv, LoopOwned
  <1>7. QED
    BY <1>1, <1>2, <1>3, <1>4, <1>5, <1>6 DEF LoopStep

(***************************************************************************)
(* An executor thread has the report of its outcome before it whatever it  *)
(* writes, so it answers for every mismatch it makes or takes over.        *)
(***************************************************************************)
LEMMA ExecutorHealth ==
  ASSUME RouterInv, HealthInv, NEW c \in Callers, ExecutorStep(c)
  PROVE  HealthInv'
  <1>0. pc \in [Callers -> Labels]
    BY DEF RouterInv, TypeOK, CallType
  <1>1. /\ \E label \in {"call", "mark_state", "mark_active", "handle", "acquire"} :
              pc' = [pc EXCEPT ![c] = label]
        /\ ToReport(c)
        /\ UNCHANGED loopVars
    BY <1>0 DEF ExecutorStep, Acquire, CallReturns, MarkState, OperationEnds, ReadFailsOver,
       WriteFailsOver, ProbeFails, ProbeSucceeds, Marked, Finish, ContinueOnCloud,
       StartCall, GoTo, ToReport
  <1>2. /\ ToReport(c)' /\ \A d \in Callers \ {c} : pc'[d] = pc[d]
        /\ pc'[c] \notin {"closing", "loop_state", "loop_active"}
        /\ pc[c] \notin {"closing", "loop_state", "loop_active"}
        /\ loop' = loop /\ loopRoute' = loopRoute
    BY <1>0, <1>1 DEF ToReport, loopVars
  <1>3. Repairs(c)'
    BY <1>2 DEF Repairs, ToReport
  <1>4. QED
    BY <1>2, <1>3 DEF HealthInv, LoopOwned

LEMMA EnvironmentHealth ==
  ASSUME HealthInv, Tick \/ LinkChanges \/ UNCHANGED vars
  PROVE  HealthInv'
  BY DEF Tick, LinkChanges, vars, HealthInv, LoopOwned, Mismatch, Repairs, ToReport,
     healthVars, loopVars, callerVars, callVars

(***************************************************************************)
(* Whatever the polls, commands and reconnections that overlapped wrote to *)
(* the health in turns (set_route_state, from the executor and from the    *)
(* loop), once they are all done the active route shown is connected: for  *)
(* any number of callers, any modes, thresholds and outcomes.              *)
(***************************************************************************)
THEOREM RestingRoute == Spec => []RestingRouteIsConnected
  <1>1. RouterInv /\ HealthInv /\ [Next]_vars => HealthInv'
    <2> SUFFICES ASSUME RouterInv, HealthInv, [Next]_vars
                 PROVE  HealthInv'
      OBVIOUS
    <2>1. CASE Tick \/ LinkChanges \/ UNCHANGED vars
      BY <2>1, EnvironmentHealth
    <2>2. ASSUME NEW c \in Callers,
                 LoopStep(c) \/ \E k \in Kinds[c] \ {"info"} : Request(c, k)
          PROVE  HealthInv'
      BY <2>2, LoopHealth
    <2>3. ASSUME NEW c \in Callers, ExecutorStep(c)
          PROVE  HealthInv'
      BY <2>3, ExecutorHealth
    <2>4. QED
      BY <2>1, <2>2, <2>3 DEF Next
  <1>2. HealthInv => RestingRouteIsConnected
    BY DEF HealthInv, Mismatch, Repairs, ToReport, RestingRouteIsConnected
  <1>3. QED
    BY <1>1, <1>2, InitHealth, RouterInvariant, PTL DEF Spec
=============================================================================
