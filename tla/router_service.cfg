\* A poll racing a command in fallback mode, under the scheduling's fairness: no
\* mismatch of the health outlasts the two, and everything that must come comes.
CONSTANTS
  poll = poll
  command = command
  Callers <- TwoCallers
  Pollers <- OneCaller
  NoCaller = nobody
  Modes <- FallbackOnly
  Kinds <- PollAndCommand
  LinkStates = {"up", "down"}
  LOCAL_FAILURE_THRESHOLD = 2
  LOCAL_RECOVERY_THRESHOLD = 1
  PROBE_MAX_TICKS = 2
  StreakCap = 2
SPECIFICATION FairSpec
 
PROPERTIES OperationsFinish SelectionSettles ServiceContinues
