\* A stream left behind by a client that disconnected while it was set up.
SPECIFICATION FairSpec
CONSTANTS
    ann = ann
    bob = bob
    s1 = s1
    s2 = s2
    s3 = s3
    NULL = NULL
    User = {ann, bob}
    Stream = {s1, s2}
    MaxFailures = 0
CHECK_DEADLOCK FALSE
PROPERTIES
    GoesOffline
