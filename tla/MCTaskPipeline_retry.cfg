\* One worker that dies after COMMIT: the stalled job runs, and applies, again.
SPECIFICATION Spec
CONSTANTS
    t1 = t1
    t2 = t2
    r1 = r1
    r2 = r2
    r3 = r3
    w1 = w1
    w2 = w2
    title = title
    date = date
    ann = ann
    NULL = NULL
    Todo = Todo
    Done = Done
    Value <- MCValue
    Creates <- MCCreates
    Updates <- MCUpdates
    Task = {t1, t2}
    Request = {r1, r2, r3}
    Worker = {w1}
    MaxStalls = 1
    MaxCrashes = 1
SYMMETRY Symmetry
CHECK_DEADLOCK FALSE
INVARIANTS
    AppliedAtMostOnce
