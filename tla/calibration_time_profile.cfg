\* A run that falls back to time-only calibration, with no encoder.
CONSTANTS
    cover = cover
    button = button
    Lanes = {cover, button}
    Offered <- MCOffered
    Modes = {"time"}
    OldVersions = {1}
    MaxRuns = 2
    MaxCommands = 1
    MaxRequests = 2
    MaxRestarts = 1
SPECIFICATION Spec
INVARIANT CalibratedSurvivesRestart
CHECK_DEADLOCK FALSE
