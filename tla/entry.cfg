\* Two flows at a time set up two accessories that move, and Home Assistant restarts.
CONSTANTS
  m1 = m1
  m2 = m2
  a = a
  b = b
  Ids <- TwoIds
  Addresses <- TwoAddresses
  Modes = {"local", "fallback"}
  Legacy <- AnyLegacy
  MaxFlows = 2
  MaxStarts = 2
  MaxEntries = 3
  MaxMoves = 1
  MaxRestarts = 1
  Budget = 2
SPECIFICATION Spec
SYMMETRY Interchangeable
INVARIANTS OneEntryPerAccessory SavedWasAccepted RunsAsSaved
PROPERTY EntryKeepsIdentity
CHECK_DEADLOCK FALSE
