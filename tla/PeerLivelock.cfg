CONSTANTS
    Topics = {t1}
    EngineTopic = engine
    MaxCycles = 1
    MaxVerifyRetries = 1
    MaxSetupRetries = 0
    MaxRecoveries = 2
    MaxTotalRecoveries = 3
    TokenBudget = 0
    RollbackOnFailure = FALSE
    Synthesizer = FALSE
    FidelityGate = FALSE
    EvidenceMode = "enforced"
    ReviewScope = "single_task"
    Isolated = FALSE
    UnmatchedBlocks = TRUE
    MaxRounds = 2
    FixRoundLimit = 2
    DriftLimit = 2
    VerificationOnly = FALSE
    SelfReviewRequired = TRUE
SPECIFICATION FairSpec
PROPERTY Termination
