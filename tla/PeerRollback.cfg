CONSTANTS
    Topics = {t1}
    EngineTopic = engine
    MaxCycles = 3
    MaxVerifyRetries = 2
    MaxSetupRetries = 1
    MaxRecoveries = 2
    MaxTotalRecoveries = 3
    TokenBudget = 2
    RollbackOnFailure = TRUE
    Synthesizer = FALSE
    FidelityGate = TRUE
    EvidenceMode = "skip"
    ReviewScope = "full_feature"
    Isolated = FALSE
    UnmatchedBlocks = FALSE
    MaxRounds = 2
    FixRoundLimit = 2
    DriftLimit = 2
    VerificationOnly = FALSE
    SelfReviewRequired = FALSE
SPECIFICATION FairSpec
INVARIANTS GateRetryStartsClean CheckpointIsThere NothingDeliveredOverLimits
PROPERTY Termination
