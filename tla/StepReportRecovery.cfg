SPECIFICATION Spec
CONSTANTS
    ToolOutputs <- MCOutputs
    Quoted <- MCQuoted
    Allowlist <- MCAllowlist
    Plans <- MCPlans
    MaxSteps = 1
    MaxLines = 3
CHECK_DEADLOCK FALSE
INVARIANTS
    RecoveryIsItsOwn
