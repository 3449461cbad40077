CONSTANTS
    Calls = {}
    Licensed = {}
    Clerks = {k1, k2}
    NoCall = NoCall
    MaxRuns = 1
    MaxApprovals = 1
    MaxFaults = 0
SPECIFICATION Spec
INVARIANT OneRevocation
CHECK_DEADLOCK FALSE
