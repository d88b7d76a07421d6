SPECIFICATION FairSpec
CONSTANTS
    s1 = s1
    s2 = s2
    Steps = {s1, s2}
    Setups <- MCSetups
    NoImprovement = 2
    ProbeErrors = 1
CHECK_DEADLOCK FALSE
INVARIANTS
    ExitHonest
    ReportTruthful
    OneScoringAtATime
PROPERTIES
    RunEnds
