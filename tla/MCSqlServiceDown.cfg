\* Clients that connect and may leave at once.
SPECIFICATION Spec
CONSTANTS
    c1 = c1
    c2 = c2
    Clients = {c1, c2}
    Programs <- Streamed
    MaxRequests = 1
SYMMETRY Symmetric
INVARIANTS
    StaysUp
CHECK_DEADLOCK FALSE
