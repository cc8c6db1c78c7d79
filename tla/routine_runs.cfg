\* A gate of six units with one target, every way of reporting, run-ons within and
\* beyond the settle delay.
CONSTANTS
    Full = 6
    Tolerance = 0
    Outlier = 1
    Stability = 2
    Targets <- MCTargets
    MaxAttempts = 3
    MaxTravels = 2
    EndTolerance = 0
    StartGrace = 1
    MoveTimeout = 8
    EndGrace = 2
    SettleDelay = 2
    SettleTimeout = 2
    HintPolls = 6
    MinUnique = 4
    MinRising = 3
    MinSpan = 4
    MaxGap = 2
    Reports = {"encoder", "percent", "coarse", "scalar", "scalar_inverted", "scalar_moving", "state"}
    RunOns = {0, 1, 2, 3}
    EndLags = {0, 1}
    MaxFaults = 1
SPECIFICATION FairSpec
INVARIANT FinishedClosed
PROPERTIES SteadyGateIsLearned RefusedStopMeansStanding RunEnds
CHECK_DEADLOCK FALSE
