SPECIFICATION LiveSpec
CONSTANTS
    NVars = 2
    Funcs = {"LOW", "HIGH"}
    DefaultFunc = "LOW"
    StrongCap = 1
    BackoffThreshold = 1
    StableThreshold = 1
    PassCap = 2
    InitialVisible = 2
    Hypotheses <- MCPair
    Salience = {}
    Joint = {}
    Noisy = {}
    MinPeers = 1
    FrontierK = 1
    AuditBudget = 2
    PromoteAfter = 1
    PromoteTier = 0
    StrongTrass = 1
    TrassTier = 0
    BackoffInterval = 1
    NoveltyInterval = 1
    Period = 1
PROPERTY RetestForced
