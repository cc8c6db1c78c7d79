\* The cover and the reconnect button call services; the gate also moves by itself.
CONSTANTS
  Callers = {"cover", "buttons"}
  Offered <- CoverAndReconnect
  Full = 3
  StartGrace = 1
  MaxRequests = 2
  MaxOutside = 1
  LateStarts = {TRUE, FALSE}
  Rests <- AnyRest
SPECIFICATION FairSpec
INVARIANT WatcherIsCancellable
PROPERTIES StopsNotShort WatchersEnd RequestsReturn
CHECK_DEADLOCK FALSE
