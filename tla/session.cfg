\* Two polls, one request and an unload share a client over failing sessions.
CONSTANTS
  Devices <- SomeDevices
  Core = 1
  Extended = 1
  OPEN_TRIES = 2
  Scripts <- EveryScript
  MaxPolls = 2
  MaxRequests = 1
  MaxMoves = 1
  MaxFaults = 2
  Budget = 4
SPECIFICATION FairSpec
INVARIANTS OneSession CarriedAsReported DowngradeOnlyWithoutDmp
PROPERTIES OneDropIsForgiven CallsEnd
CHECK_DEADLOCK FALSE
