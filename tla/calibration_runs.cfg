\* Two runs, interrupted, failing and restarted, with the modes whose builder
\* and loader agree on the version.
CONSTANTS
    cover = cover
    button = button
    Lanes = {cover, button}
    Offered <- MCOffered
    Modes = {"encoder", "live_percent"}
    OldVersions = {1, 7}
    MaxRuns = 2
    MaxCommands = 1
    MaxRequests = 2
    MaxRestarts = 1
SPECIFICATION FairSpec
INVARIANTS TypeOK RunningIsTrue RunIsCancellable RunEndsBeforeCommand CalibratedSurvivesRestart
PROPERTY CommandsReturn
CHECK_DEADLOCK FALSE
