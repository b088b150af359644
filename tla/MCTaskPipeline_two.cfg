\* Two server instances, hence two workers: completedAt loses track of the status.
SPECIFICATION Spec
CONSTANTS
    t1 = t1
    t2 = t2
    r1 = r1
    r2 = r2
    r3 = r3
    w1 = w1
    w2 = w2
    title = title
    date = date
    ann = ann
    NULL = NULL
    Todo = Todo
    Done = Done
    Value <- MCValue
    Creates <- MCCreates
    Updates <- MCUpdates
    Task = {t1, t2}
    Request = {r1, r2, r3}
    Worker = {w1, w2}
    MaxStalls = 1
    MaxCrashes = 0
SYMMETRY Symmetry
CHECK_DEADLOCK FALSE
INVARIANTS
    CompletedIffDone
