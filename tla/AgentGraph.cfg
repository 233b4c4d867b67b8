SPECIFICATION EitherSpec
CONSTANTS
    NVars = 3
    Funcs = {"LOW", "HIGH"}
    DefaultFunc = "LOW"
    StrongCap = 2
    BackoffThreshold = 1
    StableThreshold = 1
    PassCap = 3
    InitialVisible = 3
    Hypotheses <- MCLine
    Salience = {0, 1, 2}
    Joint = {0, 1}
    Noisy = {}
    MinPeers = 1
    FrontierK = 3
    AuditBudget = 3
    PromoteAfter = 1
    PromoteTier = 0
    StrongTrass = 1
    TrassTier = 1
    BackoffInterval = 1
    NoveltyInterval = 1
    Period = 1
    MaxSources = 2
    Sources <- MCTuples
    Prunable <- MCPrunable
INVARIANTS OrderTopological ClosureExact AncestorExact
PROPERTIES CascadeOnlyConfirmed CascadeComplete
