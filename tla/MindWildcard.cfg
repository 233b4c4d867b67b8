SPECIFICATION MindSpec
CONSTANTS
    fit = fit
    drift = drift
    probe = probe
    hint = hint
    gate = gate
    Records <- MCRecords
    SleepProducts <- MCSlept
    Events <- MCEvents
    Refused <- MCRefused
    NoContext <- Nowhere
    MaxNodes = 3
    MaxEdges = 3
    MaxResiduals = 1
    MaxContexts = 2
    MaxRows = 6
PROPERTIES WidensToWildcard
