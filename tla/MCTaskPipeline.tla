---------------------------- MODULE MCTaskPipeline ----------------------------
(* A small instance of TaskPipeline for TLC.                               *)
EXTENDS TaskPipeline, TLC

CONSTANTS t1, t2, r1, r2, r3, w1, w2, title, date, ann

MCValue == {NULL, Todo, Done, title, date, ann}

MCCreates == {[title |-> title, assigneeId |-> ann]}

\* Into DONE while setting a date; out of it while clearing the date and the
\* assignee: applied to an open task the second changes the assignee alone.
MCUpdates == {[status |-> Done, dueDate |-> date],
              [status |-> Todo, dueDate |-> NULL, assigneeId |-> NULL]}

Symmetry == Permutations({r1, r2, r3}) \cup Permutations({t1, t2})

-----------------------------------------------------------------------------
(* For two workers: two commands on one task, r3 free to be any but the    *)
(* update that r2 is.  Each update sends a column that the other does not. *)

Finish == [status |-> Done, title |-> NULL]
Unassign == [status |-> Todo, assigneeId |-> NULL]
OverlappingUpdates == {Finish, Unassign}

\* A later start, which Spec reaches: create r1 was authorized, dispatched, run,
\* announced and answered; then r2 and r3 were authorized and dispatched, and the
\* caller of r2 has given up waiting.
Queued ==
    \E data \in Creates :
        /\ tasks = [t \in Task |-> IF t = t1 THEN NewRow(data) ELSE NULL]
        /\ log = [t \in Task |-> IF t = t1 THEN <<CreatedEntry>> ELSE <<>>]
        /\ team = TRUE
        /\ queue = <<r2, r3>>
        /\ job = [r \in Request |-> IF r = r1 THEN "completed" ELSE "wait"]
        /\ stalls = [r \in Request |-> 0]
        /\ cmd \in {c \in [Request -> Command] :
              /\ c[r1] = [type |-> "create", task |-> NULL, data |-> data]
              /\ c[r2] = [type |-> "update", task |-> t1, data |-> Finish]
              /\ c[r3].data # Finish /\ Found(c[r3])}
        /\ call = [r \in Request |-> CASE r = r1 -> "ok"
                                      [] r = r2 -> "timeout"
                                      [] r = r3 -> "waiting"]
        /\ stage = [w \in Worker |-> "idle"]
        /\ holds = [w \in Worker |-> NULL]
        /\ read = [w \in Worker |-> NULL]
        /\ note = [w \in Worker |-> NULL]
        /\ published = <<[task |-> t1, kind |-> "created", version |-> 0]>>
        /\ commits = <<[req |-> r1, task |-> t1, kind |-> "created", version |-> 0]>>
        /\ enqueued = <<r1, r2, r3>>
        /\ crashes = 0

SpecFromQueued == Queued /\ [][Next]_vars /\ Fairness
=============================================================================
