CONSTANTS
    root = root
    kidLocal = kidLocal
    kidPod = kidPod
    peerVm = peerVm
    peerPod = peerPod
    cam = cam
    Root <- root
    VmMember <- MCVmMember
    ImageMember <- MCImageMember
    Instruments <- MCInstruments
    Cfgs <- RerunCfgs
    MaxRuns <- Once
SPECIFICATION Spec
INVARIANTS
    SurvivedFailuresPass
