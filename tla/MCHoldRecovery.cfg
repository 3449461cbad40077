CONSTANTS
    NoProc = NoProc
    Procs = {p1, p2}
    Wanted = {"record", "artifact", "hold"}
    MaxTxns = 2
    MaxCrashes = 1
    MaxErrors = 0
SPECIFICATION FairSpec
INVARIANT PendingIsRecoverable
