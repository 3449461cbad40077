CONSTANTS
    Objects = {o1, o2, o3}
    Writers = {w1, w2}
    Sweep = Sweep
    Backup = Backup
    NoOne = NoOne
    MaxPerTx = 2
    MaxAlarms = 1
    MaxFailures = 2
SPECIFICATION FairSpec
INVARIANTS
    OrphansWereAbandoned
    UninterruptedKeepsObjects
    BackupsAreComplete
    PurgedCaseIsEmpty
PROPERTIES
    TombstonedFilesGo
