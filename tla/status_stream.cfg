\* Polls, frames and one command overtake each other while the gate moves.
CONSTANTS
  Kinds <- Controllers
  Full = 2
  RECENT_STOP_STATUS_OVERRIDE = 1
  START_GRACE = 1
  TIMEOUT_PADDING = 0
  ScalarClosed = 1
  ScalarOpen = 2
  MaxMoves = 1
  MaxFrames = 1
  MaxCommands = 1
SPECIFICATION FairSpec
PROPERTIES StopIsHeld PolledEndAgrees ShownStateSettles
CHECK_DEADLOCK FALSE
