\* Two writes, two statements, two transaction objects, a connection that is
\* opened once more.
SPECIFICATION Spec
CONSTANTS
    Rows = {r1, r2}
    Objects = {o1, o2}
    NoRow = NoRow
    MaxStatements = 2
    MaxOpens = 1
SYMMETRY Symmetric
INVARIANTS
    WriteReport
    NoOrphanTransaction
    NamesMatch
PROPERTIES
    AutoRollback
    CommitReport
    NamesReleased
CHECK_DEADLOCK FALSE
