\* Two administrators with a token each, two requests at a time; a token lives
\* for a tick, an entry for a tick, and a validation may take a tick more.
SPECIFICATION Spec
CONSTANTS
    ann = ann
    bob = bob
    a = a
    b = b
    r1 = r1
    r2 = r2
    NULL = NULL
    User = {ann, bob}
    Token = {a, b}
    Request = {r1, r2}
    Owner <- MCOwner
    Born <- MCBorn
    TokenLife = 1
    CacheTtl = 1
    MaxDelay = 1
    MaxTime = 2
    MaxChanges = 2
    MaxFailures = 1
SYMMETRY MCSymmetry
CHECK_DEADLOCK FALSE
INVARIANTS
    TypeOK
    StaleAtMostTtl
    OutlivesByLessThanTtl
    CalmDropsStale
    CalmAdminRemains
