SPECIFICATION LiveSpec
CONSTANTS
    NVars = 2
    Funcs = {"LOW", "HIGH"}
    DefaultFunc = "LOW"
    StrongCap = 2
    BackoffThreshold = 1
    StableThreshold = 1
    PassCap = 3
    InitialVisible = 2
    Hypotheses <- MCPair
    Salience = {0, 1}
    Joint = {}
    Noisy = {1}
    MinPeers = 1
    FrontierK = 1
    AuditBudget = 2
    PromoteAfter = 1
    PromoteTier = 0
    StrongTrass = 1
    TrassTier = 1
    BackoffInterval = 1
    NoveltyInterval = 1
    Period = 1
PROPERTY FloorReopens
