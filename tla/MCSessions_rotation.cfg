\* One user who signs up, refreshes, and still holds the first refresh token.
SPECIFICATION Spec
CONSTANTS
    NULL = NULL
    User = {ann}
    Session = {s1}
    Request = {r1}
    Code = {c1}
    PerSecond = 1
    MaxRequests = 3
    MaxFailures = 0
CHECK_DEADLOCK FALSE
INVARIANTS
    ReplacedTokenRefused
