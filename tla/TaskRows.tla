------------------------------ MODULE TaskRows ------------------------------
(***************************************************************************)
(* The rows of the "Task" and "TaskActivity" tables and what one task      *)
(* command computes from them: the pure part of task.processor.ts and of   *)
(* migration 005.  "title" stands for the three columns the processor      *)
(* treats alike (title, description, priority).  The actor and the         *)
(* timestamps of an activity row are left out.                             *)
(***************************************************************************)
EXTENDS Naturals, Sequences

CONSTANTS
    Value,   \* what a column may hold: titles, statuses, dates, user ids
    NULL,    \* SQL NULL; also "no such row"
    Todo,    \* the status a task has when the caller gives none
    Done     \* the status whose entry and exit completedAt follows

ASSUME ValueAssumption ==
    /\ {NULL, Todo, Done} \subseteq Value
    /\ Todo # Done

Field == {"title", "status", "dueDate", "assigneeId"}

Fields == [Field -> Value]

Row == [fields : Fields, version : Nat, completed : BOOLEAN]

Action == {"CREATED", "UPDATED", "STATUS_CHANGED", "COMPLETED", "REOPENED",
           "ASSIGNED"}

Change == [from : Value, to : Value]

\* An activity row; NULL for the columns its changes do not mention.
Entry == [action : Action, changes : [Field -> Change \cup {NULL}]]

Mentions(entry, f) == entry.changes[f] # NULL

-----------------------------------------------------------------------------
\* INSERT INTO "Task": absent columns take their default.
DefaultFields == [f \in Field |-> IF f = "status" THEN Todo ELSE NULL]

NewRow(data) ==
    LET fields == [f \in Field |->
                      IF f \in DOMAIN data THEN data[f] ELSE DefaultFields[f]]
    IN  [fields    |-> fields,
         version   |-> 0,
         completed |-> fields["status"] = Done]

CreatedEntry == [action |-> "CREATED", changes |-> [f \in Field |-> NULL]]

\* UPDATE "Task": `read` holds the fields of the earlier SELECT, on which the
\* transition of completedAt is decided; every other column comes from `row`.
Completes(read, data) ==
    "status" \in DOMAIN data /\ data["status"] = Done /\ read["status"] # Done

\* Mutant: completedAt is never cleared.
NeverReopens(read, data) == FALSE

Reopens(read, data) ==
    "status" \in DOMAIN data /\ data["status"] # Done /\ read["status"] = Done

\* Mutant: the columns not sent are written back as they were read.
UpdatedRowFromRead(row, read, data) ==
    [fields    |-> [f \in Field |-> IF f \in DOMAIN data THEN data[f] ELSE read[f]],
     version   |-> row.version + 1,
     completed |-> \/ Completes(read, data)
                   \/ (row.completed /\ ~Reopens(read, data))]

\* Mutant: an update that changes nothing does not count.
UpdatedRowIfChanged(row, read, data) ==
    [fields    |-> [f \in Field |->
                       IF f \in DOMAIN data THEN data[f] ELSE row.fields[f]],
     version   |-> IF \E f \in DOMAIN data : data[f] # read[f]
                   THEN row.version + 1 ELSE row.version,
     completed |-> Completes(read, data) \/ (row.completed /\ ~Reopens(read, data))]

UpdatedRow(row, read, data) ==
    [fields    |-> [f \in Field |->
                       IF f \in DOMAIN data THEN data[f] ELSE row.fields[f]],
     version   |-> row.version + 1,
     completed |-> \/ Completes(read, data)
                   \/ (row.completed /\ ~Reopens(read, data))]

\* Mutant: a column cleared to null is taken for a column not sent.
DiffersUnlessCleared(f, before, after) == after # NULL /\ before # after

\* diff compares String(before) with String(after): a due date is a Date object
\* before and an ISO text after, so two dates always differ, even equal ones.
Differs(f, before, after) ==
    IF f = "dueDate" THEN ~(before = NULL /\ after = NULL) ELSE before # after

Diff(read, data) ==
    [f \in Field |->
        IF f \in DOMAIN data /\ Differs(f, read[f], data[f])
        THEN [from |-> read[f], to |-> data[f]]
        ELSE NULL]

\* Mutant: leaving DONE is a change of status like any other.
DeriveNoReopened(read, data, changes) ==
    CASE changes["status"] # NULL /\ data["status"] = Done -> "COMPLETED"
      [] changes["status"] # NULL /\ data["status"] # Done -> "STATUS_CHANGED"
      [] changes["status"] = NULL
            /\ changes["assigneeId"] # NULL -> "ASSIGNED"
      [] OTHER -> "UPDATED"

DeriveAction(read, data, changes) ==
    CASE changes["status"] # NULL /\ data["status"] = Done -> "COMPLETED"
      [] changes["status"] # NULL /\ data["status"] # Done
                                  /\ read["status"] = Done -> "REOPENED"
      [] changes["status"] # NULL /\ data["status"] # Done
                                  /\ read["status"] # Done -> "STATUS_CHANGED"
      [] changes["status"] = NULL
            /\ changes["assigneeId"] # NULL -> "ASSIGNED"
      [] OTHER -> "UPDATED"

UpdatedEntry(read, data) ==
    LET changes == Diff(read, data)
    IN  [action |-> DeriveAction(read, data, changes), changes |-> changes]
-----------------------------------------------------------------------------
(* What the activity rows of a task say about the task.                    *)

\* The first n rows of a log, replayed over the value created[f], make `value`
\* of the column: the last "to" among them, or else what it was created with.
MakesValue(entries, created, f, n, value) ==
    LET mentions == {i \in 1..n : Mentions(entries[i], f)}
    IN  \/ mentions = {} /\ value = created[f]
        \/ \E i \in mentions : /\ \A j \in mentions : j <= i
                              /\ value = entries[i].changes[f].to

\* Replayed over the values the task was created with, the log gives the row:
\* each "from" is what the rows before it make of the column, all rows together
\* make of it what the row holds, and only a due date that is set again is
\* recorded as a change from a value to itself.
Replays(entries, created, fields) ==
    \A f \in Field :
        /\ MakesValue(entries, created, f, Len(entries), fields[f])
        /\ \A i \in DOMAIN entries : Mentions(entries[i], f) =>
              LET change == entries[i].changes[f]
              IN  /\ MakesValue(entries, created, f, i - 1, change.from)
                  /\ change.from = change.to => f = "dueDate" /\ change.to # NULL

\* The last COMPLETED or REOPENED row tells whether the task is completed.
TellsCompletion(entries, row) ==
    \A i \in DOMAIN entries :
        /\ entries[i].action \in {"COMPLETED", "REOPENED"}
        /\ \A j \in DOMAIN entries :
              entries[j].action \in {"COMPLETED", "REOPENED"} => j <= i
        => (row.completed <=> entries[i].action = "COMPLETED")
=============================================================================
