CONSTANTS
    Client = {"codex", "cursor"}
    Other = {"o1"}
    Perm = {"private"}
    Given <- Texts
    NoFile = NoFile
    Partial = Partial
    Blank = Blank
    Broken = Broken
    NoEntry = NoEntry
    Scalar = Scalar
    Refused = Refused
    Nothing = Nothing
    MaxRuns = 2
    MaxEdits = 1
SPECIFICATION SetupSpec
CHECK_DEADLOCK FALSE
INVARIANTS BackupPredates ExitTells
PROPERTY NothingLost
