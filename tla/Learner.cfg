SPECIFICATION EitherSpec
CONSTANTS
    fit = fit
    drift = drift
    probe = probe
    hint = hint
    gate = gate
    Records <- MCRecords
    SleepProducts <- MCSlept
    Events <- MCEvents
    Refused <- MCRefused
    NoContext <- Nowhere
    MaxNodes = 3
    MaxEdges = 3
    MaxResiduals = 1
    MaxContexts = 2
    MaxRows = 6
    NoVar = NoVar
    NodesPerVar = 1
    MovesKept = 1
    ExportLimit = 1
    MinSources = 2
    MaxProposals = 3
    MaxSources = 3
    Threshold = 2
    MaxExpressions = 4
    Vars <- MCVars
    Fits <- MCFits
    Pairs <- MCPairs
    RunIds = {1, 2}
    Authorities <- MCAuthorities
    Givens <- MCGivens
    Products <- MCProducts
    MaxRuns = 3
    MaxCycle = 1
    MaxNotes = 2
    MaxCredits = 3
INVARIANTS EvidenceAccounted FamiliarityEarned PowerGranted
PROPERTIES SafetyKept NothingUnlearned
CHECK_DEADLOCK FALSE
