\* A command while a run saves its profile.
CONSTANTS
    cover = cover
    button = button
    Lanes = {cover, button}
    Offered <- MCOffered
    Modes = {"encoder"}
    OldVersions = {1}
    MaxRuns = 2
    MaxCommands = 1
    MaxRequests = 2
    MaxRestarts = 1
SPECIFICATION Spec
INVARIANT CommandIsSent
CHECK_DEADLOCK FALSE
