\* Batches inside and beside transactions of the program.
SPECIFICATION Spec
CONSTANTS
    Rows = {r1, r2, r3}
    MaxTxns = 3
SYMMETRY Symmetric
INVARIANTS
    CommitReport
    NoOrphanTransaction
PROPERTIES
    FlatAutoRollback
CHECK_DEADLOCK FALSE
