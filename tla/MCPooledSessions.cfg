\* Two threads share two connections and what is prepared on them; a third
\* object serves as a replacement.
SPECIFICATION Spec
CONSTANTS
    Threads = {t1, t2}
    Conns = {c1, c2, c3}
    PoolSize = 2
    Sqls = {s1}
    StmtIds = {1}
    Null = Null
SYMMETRY Symmetric
INVARIANTS
    OwnWork
PROPERTIES
    CleanLease
CHECK_DEADLOCK FALSE
