SPECIFICATION Spec
CONSTANTS
    N = 3
    NoVenue = NoVenue
    a = a
    b = b
    Plans <- MCPlans
CHECK_DEADLOCK FALSE
INVARIANTS
    CascadeHonest
    EveryStepScoredOnce
    EphemeralDisposed
