CONSTANTS
    Topics = {t1}
    EngineTopic = engine
    MaxCycles = 3
    MaxVerifyRetries = 2
    MaxSetupRetries = 1
    MaxRecoveries = 2
    MaxTotalRecoveries = 3
    TokenBudget = 0
    RollbackOnFailure = FALSE
    Synthesizer = FALSE
    FidelityGate = FALSE
    EvidenceMode = "skip"
    ReviewScope = "single_task"
    Isolated = FALSE
    UnmatchedBlocks = TRUE
SPECIFICATION Spec
INVARIANT DeliveredTreeIsVerified
