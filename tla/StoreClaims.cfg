CONSTANTS
    Procs = {r1, r2, r3}
    Runners = {r1, r2, r3}
    BareRunners = {}
    Gates = {}
    Editors = {}
    NoLock = NoLock
    NoFile = NoFile
    Torn = Torn
    NoClaim = NoClaim
    StaleTakeover = FALSE
    Hosts = {"posix"}
    PromptWrites = TRUE
SPECIFICATION Spec
INVARIANTS ClaimIsExclusive ResultLostOnlyByExpiry
SYMMETRY RunnerSymmetry
