SPECIFICATION LiveSpec
CONSTANTS
    NVars = 2
    Funcs = {"LOW", "HIGH"}
    DefaultFunc = "LOW"
    StrongCap = 1
    BackoffThreshold = 1
    StableThreshold = 1
    PassCap = 3
    InitialVisible = 1
    Hypotheses <- MCChain
    Salience = {1}
    Joint = {0, 1}
    Noisy = {0}
    MinPeers = 1
    FrontierK = 1
    AuditBudget = 1
    PromoteAfter = 1
    PromoteTier = 0
    StrongTrass = 1
    TrassTier = 1
    BackoffInterval = 2
    NoveltyInterval = 2
    Period = 2
INVARIANTS FloorIffStable RouteNeverSource
PROPERTIES RevokedOnlyByEvidence DemotedRecovers ProvisionalResolved
