\* Two users, two sessions, two codes, two requests at a time.
SPECIFICATION Spec
CONSTANTS
    NULL = NULL
    User = {ann, bob}
    Session = {s1, s2}
    Request = {r1, r2}
    Code = {c1, c2}
    PerSecond = 2
    MaxRequests = 4
    MaxFailures = 1
SYMMETRY MCSymmetry
CHECK_DEADLOCK FALSE
INVARIANTS
    CalmCodeWorksOnce
    CalmStoredCodeIsMailed
PROPERTIES
    EndedStaysEnded
    RefinesBook
