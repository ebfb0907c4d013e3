\* Two clients, two keys; entries of two lifetimes expire, are replaced and cleared.
SPECIFICATION Spec
CONSTANTS
    Clients = {a, b}
    Keys = {k1, k2}
    Ttls = {1, 2}
    Absent = Absent
    MaxVersion = 2
    MaxTime = 3
SYMMETRY Symmetric
INVARIANTS
    QuietClearIsFinal
PROPERTIES
    RefinesPromise
CHECK_DEADLOCK FALSE
