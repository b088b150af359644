\* Two tasks, three attachments, three requests at a time.
SPECIFICATION Spec
CONSTANTS
    NULL = NULL
    Task = {t1, t2}
    Attachment = {a1, a2, a3}
    Request = {r1, r2, r3}
    MaxRequests = 4
    MaxFailures = 1
SYMMETRY MCSymmetry
CHECK_DEADLOCK FALSE
INVARIANTS
    RowsHaveFiles
    NoOrphanFiles
    CalmLastWord
