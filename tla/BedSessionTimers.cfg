CONSTANTS
    pod = pod
    vmOne = vmOne
    vmTwo = vmTwo
    podRun = podRun
    podAgain = podAgain
    oneRun = oneRun
    twoRun = twoRun
    roster = roster
    shell = shell
    gpu = gpu
    operator = operator
    noBed = noBed
    Runs <- MCRuns
    Procs <- MCProcs
    Beds <- MCBeds
    Domains <- MCDomains
    Tokens <- MCTokens
    BedOf <- MCBedOf
    ProcOf <- MCProcOf
    DomainsOf <- MCDomainsOf
    TokensOf <- MCTokensOf
    Outer <- MCOuter
    Operator <- operator
    NoBed <- noBed
    Flaky <- MCFlaky
    Ephemeral <- MCEphemeral
    StopBed <- pod
SPECIFICATION StopFairSpec
PROPERTIES
    CancelsOwnTimersOnly
