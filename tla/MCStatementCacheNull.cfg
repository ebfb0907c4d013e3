\* One thread asks for a statement another one is letting go of.
SPECIFICATION Spec
CONSTANTS
    Threads = {t1, t2}
    Sqls = {s1}
    Null = Null
    MaxStatements = 2
SYMMETRY Symmetric
PROPERTIES
    NeverNull
CHECK_DEADLOCK FALSE
