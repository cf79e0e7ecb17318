CONSTANTS
    Topics = {t1, t2}
    EngineTopic = engine
    MaxCycles = 3
    MaxVerifyRetries = 2
    MaxSetupRetries = 1
    MaxRecoveries = 2
    MaxTotalRecoveries = 3
    TokenBudget = 0
    RollbackOnFailure = FALSE
    Synthesizer = TRUE
    FidelityGate = FALSE
    EvidenceMode = "enforced"
    ReviewScope = "single_task"
    Isolated = FALSE
    UnmatchedBlocks = TRUE
    MaxRounds = 2
    FixRoundLimit = 2
    DriftLimit = 2
    VerificationOnly = FALSE
    SelfReviewRequired = TRUE
SPECIFICATION Spec
INVARIANTS TypeOK DeliveredTreeIsChecked ReviewerSeesCheckedTree RoundLimitIsEarned
PROPERTIES ObjectionsAreAnswered ImplementsDelivery
SYMMETRY TopicSymmetry
