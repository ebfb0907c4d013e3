\* Two clients with two requests between them, each of another type; no symmetry,
\* some properties are temporal.
SPECIFICATION FairSpec
CONSTANTS
    c1 = c1
    c2 = c2
    Clients = {c1, c2}
    Programs <- AllTypes
    MaxRequests = 2
INVARIANTS
    IdleIsQuiet
    AnswersMatch
PROPERTIES
    ShortAnswersWhole
    SessionEnds
    Answered
CHECK_DEADLOCK FALSE
