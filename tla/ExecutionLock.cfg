CONSTANTS
    Procs = {p1, p2, p3}
    NoLock = NoLock
    StaleTakeover = TRUE
    Hosts = {"posix", "windows"}
    PromptWrites = FALSE
SPECIFICATION LiveLockSpec
INVARIANTS ProtectedExclusion ReleasedLockGoes
PROPERTIES DeadOwnersLockGoes
