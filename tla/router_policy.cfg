\* One caller at a time, every mode, every operation, every way a route fails.
CONSTANTS
  poll = poll
  command = command
  Callers <- OneCaller
  Pollers <- OneCaller
  NoCaller = nobody
  Modes <- AllModes
  Kinds <- EveryKind
  LinkStates = {"up", "down", "rejects"}
  LOCAL_FAILURE_THRESHOLD = 2
  LOCAL_RECOVERY_THRESHOLD = 2
  PROBE_MAX_TICKS = 3
  StreakCap = 2
SPECIFICATION Spec
INVARIANTS TypeOK OperationDiscipline
PROPERTY SelectionFollowsHistory
