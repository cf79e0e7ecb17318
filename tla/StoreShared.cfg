CONSTANTS
    Procs = {b1, g1, e1}
    Runners = {}
    BareRunners = {b1}
    Gates = {g1}
    Editors = {e1}
    NoLock = NoLock
    NoFile = NoFile
    Torn = Torn
    NoClaim = NoClaim
    StaleTakeover = FALSE
    Hosts = {"posix"}
    PromptWrites = FALSE
SPECIFICATION Spec
INVARIANTS MutualExclusion TornOnlyWhileWritten
PROPERTIES NoUpdateLost
