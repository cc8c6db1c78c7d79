\* Two services at a time press controls while polls learn the device and it moves.
CONSTANTS
  Callers = {"ha", "script"}
  Wanted <- MCWanted
  Kinds <- SomeKinds
  MaxCalls = 2
  MaxMoves = 1
  MaxFaults = 1
SPECIFICATION FairSpec
PROPERTIES UnadvertisedNeverSent VerifiedNameIsOnDevice ShownSettingSettles
CHECK_DEADLOCK FALSE
