\* Two workers and two crashes, from two queued commands on one task: no write is
\* lost, no command applied more often than it ran, and every command settles.
SPECIFICATION SpecFromQueued
CONSTANTS
    t1 = t1
    t2 = t2
    r1 = r1
    r2 = r2
    r3 = r3
    w1 = w1
    w2 = w2
    title = title
    date = date
    ann = ann
    NULL = NULL
    Todo = Todo
    Done = Done
    Value <- MCValue
    Creates <- MCCreates
    Updates <- OverlappingUpdates
    Task = {t1, t2}
    Request = {r1, r2, r3}
    Worker = {w1, w2}
    MaxStalls = 1
    MaxCrashes = 2
CHECK_DEADLOCK FALSE
INVARIANTS
    LastWriteStands
    VersionCountsUpdates
    AppliedOncePerRun
PROPERTIES
    EveryCommandSettles
