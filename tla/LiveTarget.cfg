SPECIFICATION Spec
CONSTANTS
    Projects <- MCProjects
    Requests <- MCRequests
    Includes <- MCIncludes
    Injected <- MCInjected
    Joints <- MCJoints
CHECK_DEADLOCK FALSE
INVARIANTS
    NamedIsJudged
    PlanIsWhatWasAuthored
