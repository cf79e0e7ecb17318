CONSTANTS
    Files = {"code", "test", "notes"}
    Targets = {"code", "test"}
    NewFiles = {"test"}
    FolderFiles = {"test"}
    Folder = "tests/"
    MaxRounds = 2
    MaxEdits = 1
    MaxFaults = 1
SPECIFICATION Spec
INVARIANT WritesAreListed
PROPERTIES CleanTreeIsRestored OthersWorkIsKept
