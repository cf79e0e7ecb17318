CONSTANTS
    Contents = {c1, c2}
    Reviews <- MCReviews
    Structures <- MCStructures
    Preconditions = {m1, m2}
    Ambiguities = {a1, a2}
    Policies = {"strict-gate", "soft-gate", "auto-skip", "approval-required"}
    MaxRounds = 4
    Budgets = 2
    DeadlockLimit = 2
    None = None
SPECIFICATION Spec
INVARIANTS AcceptedPlanIsSound AcceptedPlanIsReviewed DemotionIsEarned
           NoCleanRoundIsPassedOver
SYMMETRY Names
CHECK_DEADLOCK FALSE
