SPECIFICATION FairSpec
CONSTANTS
    Setups <- MCSetups
    MaxRuns = 2
    MaxCrashes = 1
CHECK_DEADLOCK FALSE
INVARIANTS
    FinalizerLeavesNothing
    SweepRecovers
    EndedRunsStayClosed
    SegmentsHonest
PROPERTIES
    RunsEnd
