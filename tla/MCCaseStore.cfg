CONSTANTS
    NoProc = NoProc
    Procs = {p1, p2}
    Wanted = {"record", "artifact", "status", "retention", "hold"}
    MaxTxns = 4
    MaxCrashes = 1
    MaxErrors = 1
SPECIFICATION Spec
SYMMETRY Symmetry
INVARIANTS
    TypeOK
    OneWriter
    SettledCaseVerifies
    UploadsCleanUp
PROPERTIES
    HeldRetentionFrozen
    ImplementsLog
