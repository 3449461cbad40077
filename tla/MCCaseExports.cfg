CONSTANTS
    Wanted = {"approval", "source", "response", "run", "failed", "entity", "relationship", "derived"}
    Notes = {"note1"}
SPECIFICATION Spec
INVARIANTS
    BundlesAreInstants
    AcceptedBundlesVerify
    RedactionOmitsLinked
\* Everything may be written and exported.
CHECK_DEADLOCK FALSE
