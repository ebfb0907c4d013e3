\* Two threads that can each hold both connections of the pool; one spare object
\* for a factory.  No symmetry: one of the properties is a liveness property.
SPECIFICATION FairSpec
CONSTANTS
    Threads = {t1, t2}
    Conns = {c1, c2, c3}
    NoThread = NoThread
    NoConn = NoConn
    PoolSize = 2
    MaxCalls = 3
INVARIANTS
    TypeOK
    ExclusiveOwnership
    NoLostWakeup
    ClosedIsEmpty
PROPERTIES
    RefinesPromise
    CallReturns
CHECK_DEADLOCK FALSE
