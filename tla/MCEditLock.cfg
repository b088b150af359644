\* Two users, three requests, both with and without the assumptions of `calm`.
SPECIFICATION FairSpec
CONSTANTS
    ann = ann
    bob = bob
    q1 = q1
    q2 = q2
    q3 = q3
    NULL = NULL
    User = {ann, bob}
    Request = {q1, q2, q3}
CHECK_DEADLOCK FALSE
INVARIANTS
    OneEditorWhenCalm
    DraftersHadLock
PROPERTIES
    NoTakeoverByOutsider
    RefinesLease
    VanishedEditorLosesLock
