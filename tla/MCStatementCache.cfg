\* Two threads share the statements of two texts.
SPECIFICATION Spec
CONSTANTS
    Threads = {t1, t2}
    Sqls = {s1, s2}
    Null = Null
    MaxStatements = 3
SYMMETRY Symmetric
INVARIANTS
    TypeOK
    OneLiveStatement
PROPERTIES
    RefinesPromise
CHECK_DEADLOCK FALSE
