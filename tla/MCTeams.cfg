\* Two users, the home team of one and one more team, a custom role, an invite,
\* two requests at a time.
SPECIFICATION Spec
CONSTANTS
    ann = ann
    bob = bob
    t1 = t1
    t2 = t2
    c1 = c1
    i1 = i1
    r1 = r1
    r2 = r2
    NULL = NULL
    SystemAdmin = SystemAdmin
    SystemMember = SystemMember
    User = {ann, bob}
    Team = {t1, t2}
    Role = {c1}
    Invite = {i1}
    Request = {r1, r2}
    AppAdmin = {}
    Home <- MCHome
    Bags <- MCBags
    MaxRequests = 4
SYMMETRY MCSymmetry
CHECK_DEADLOCK FALSE
INVARIANTS
    OwnerStaysAdmin
    RolesFit
    MembersWereInvited
    CalmAdmitsOnce
PROPERTIES
    RefinesBook
