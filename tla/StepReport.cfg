SPECIFICATION Spec
CONSTANTS
    ToolOutputs <- MCOutputs
    Quoted <- MCQuoted
    Allowlist <- MCAllowlist
    Plans <- MCPlans
    MaxSteps = 2
    MaxLines = 3
CHECK_DEADLOCK FALSE
INVARIANTS
    ErrorsAnswered
    NoFalsePass
    RecordIsTheReport
    ExitTellsTheClass
