CONSTANTS
    t1 = t1
    t2 = t2
    t3 = t3
    s1 = s1
    s2 = s2
    s3 = s3
    NoTask = NoTask
    Tasks = {t1, t2, t3}
    Splits <- MCSplits
    Graphs <- MCGraphs
    Hinted = {t1}
    AutoDecide = TRUE
    User = "careful"
    MaxPlans = 2
SPECIFICATION Spec
INVARIANTS TypeOK EscalationsAreCapped GraphIsApproved RedesignIsNotLost SubFeaturesInOrder
PROPERTIES DependenciesFirst CompletedStays
CHECK_DEADLOCK FALSE
