CONSTANTS
    Files = {"code", "test"}
    NewFiles = {"test"}
    MaxIterations = 3
    MaxNoProgress = 2
    MaxNoWrite = 2
    MaxNoWritePressed = 1
    MaxNoWriteReading = 3
    Grace = 1
    NudgeAt = 1
    PlanReads = 1
    MaxWafRetries = 1
    MaxVerifyRetries = 1
    MaxAttempts = 2
    MaxChanges = 2
    MaxEdits = 1
    MaxFaults = 1
    NoFile = NoFile
    NoBase = NoBase
SPECIFICATION Spec
INVARIANTS TypeOK BlockedLeavesProject
PROPERTIES OwedIsKept PassIsWhole
CHECK_DEADLOCK FALSE
