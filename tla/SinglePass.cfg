CONSTANTS
    Topics = {t1}
    EngineTopic = engine
    MaxCycles = 3
    MaxVerifyRetries = 2
    MaxSetupRetries = 1
    MaxRecoveries = 2
    MaxTotalRecoveries = 3
    TokenBudget = 1
    RollbackOnFailure = FALSE
    Synthesizer = TRUE
    FidelityGate = TRUE
    EvidenceMode = "enforced"
    ReviewScope = "single_task"
    Isolated = FALSE
    UnmatchedBlocks = TRUE
SPECIFICATION FairSpec
INVARIANTS DeliveredTreeIsGated EnforcedEvidenceProtects
PROPERTY Termination
