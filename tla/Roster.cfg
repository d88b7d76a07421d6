SPECIFICATION FairSpec
CONSTANTS
    Beds = {1, 2, 3, 4}
    Terminal = 0
    Forkers = {1}
    Tokens = {gpu, port, disk}
    gpu = gpu
    port = port
    disk = disk
    NoBed = 9
    Configs <- MCConfigs
INVARIANTS
    NoChunkLost
PROPERTIES
    SerialRunsSayWhy
    ImplementsPromise
    RosterEnds
