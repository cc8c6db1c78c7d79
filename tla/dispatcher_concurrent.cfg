\* Two threads exchange under the threads' fairness while a callback comes and
\* goes, the peer may go and close() may come.
CONSTANTS
  Threads <- TwoThreads
  Callbacks = {"event"}
  MAX_EXCHANGE_FRAMES = 1
  MaxRequests = 2
  MaxFrames = 2
SPECIFICATION FairSpec
INVARIANTS TypeOK TimeoutMeansUnanswered CloseStopsReader
PROPERTY TerminalUnblocks
CHECK_DEADLOCK FALSE
