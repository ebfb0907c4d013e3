\* Nested transactions; no symmetry, one of the properties is temporal.
SPECIFICATION FairSpec
CONSTANTS
    Rows = {r1, r2, r3}
    MaxTxns = 2
INVARIANTS
    Balanced
    CommitReport
PROPERTIES
    AutoRollback
    CallReturns
CHECK_DEADLOCK FALSE
