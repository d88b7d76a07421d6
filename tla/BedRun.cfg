CONSTANTS
    root = root
    kidLocal = kidLocal
    kidPod = kidPod
    peerVm = peerVm
    peerPod = peerPod
    cam = cam
    Root <- root
    VmMember <- MCVmMember
    ImageMember <- MCImageMember
    Instruments <- MCInstruments
    Cfgs <- MCCfgs
    MaxRuns <- MCMaxRuns
SPECIFICATION FairSpec
INVARIANTS
    SessionReleased
    VenueDisposed
    RetentionHonoured
    VerdictOnRecord
    VerdictTruthful
    VerdictCoversRebuild
    LeaseMatchesVerdict
    PipelinesSeeVenue
PROPERTIES
    ArbitrationSeeded
    ChecksSeeLiveTargets
    GoldenSurvives
    RunTerminates
