\* Nested transactions on a connection that is opened twice.
SPECIFICATION Spec
CONSTANTS
    Rows = {r1, r2}
    MaxTxns = 2
    MaxOpens = 2
    MaxLevel = 2
SYMMETRY Symmetric
INVARIANTS
    WriteReport
    Balanced
    CommitReport
PROPERTIES
    AutoRollback
CHECK_DEADLOCK FALSE
