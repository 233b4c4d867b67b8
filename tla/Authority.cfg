SPECIFICATION Spec
CONSTANTS
    NVars = 2
    Fits <- MCFits
    Evidence <- MCEvidence
    Settings <- MCSettings
    MonitoringBudget = 1
    RepairBudget = 1
    PreserveBudget = 1
    Cooldown = 2
    InitialVisible = 1
    MaxAudits <- MCAudits
INVARIANTS QuarantineEarned StrongIsSupported
PROPERTIES SupportsCleared DebtRepaid AttentionReaches
