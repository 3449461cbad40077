CONSTANTS
    Objects = {o1}
    Writers = {w1}
    Sweep = Sweep
    Backup = Backup
    NoOne = NoOne
    MaxPerTx = 1
    MaxAlarms = 1
    MaxFailures = 0
SPECIFICATION Spec
INVARIANT RegisteredObjectsExist
