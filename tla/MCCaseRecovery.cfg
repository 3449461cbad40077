CONSTANTS
    NoProc = NoProc
    Procs = {p1, p2}
    Wanted = {"record", "artifact", "status", "retention", "hold"}
    MaxTxns = 2
    MaxCrashes = 2
    MaxErrors = 1
SPECIFICATION FairSpec
INVARIANT OnlyTornHoldsBlock
PROPERTY JournalsComplete
