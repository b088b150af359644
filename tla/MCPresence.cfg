\* Two users, three streams, one of which may be lost to a failure.
SPECIFICATION FairSpec
CONSTANTS
    ann = ann
    bob = bob
    s1 = s1
    s2 = s2
    s3 = s3
    NULL = NULL
    User = {ann, bob}
    Stream = {s1, s2, s3}
    MaxFailures = 1
CHECK_DEADLOCK FALSE
INVARIANTS
    TypeOK
    NeverOvercounts
    CountsTabs
PROPERTIES
    CalmGoesOffline
