----------------------------- MODULE TaskTimeline -----------------------------
(***************************************************************************)
(* What the task pipeline promises: a task and its activity log change     *)
(* together, one command at a time, each command seeing the result of the  *)
(* one before it.  README.md of the repository, section 3: "a single       *)
(* worker applies them one at a time", "every change is recorded in order".*)
(***************************************************************************)
EXTENDS TaskRows

CONSTANTS
    Task,      \* task ids gen_random_uuid() may produce
    Creates,   \* the data of create commands
    Updates    \* the data of update commands

VARIABLES
    tasks,     \* [Task -> Row or NULL]
    log,       \* [Task -> activity rows, oldest first]
    minted     \* ids already produced, never produced again

vars == <<tasks, log, minted>>

Init ==
    /\ tasks = [t \in Task |-> NULL]
    /\ log = [t \in Task |-> <<>>]
    /\ minted = {}

Create(t, data) ==
    /\ t \notin minted
    /\ tasks' = [tasks EXCEPT ![t] = NewRow(data)]
    /\ log' = [log EXCEPT ![t] = <<CreatedEntry>>]
    /\ minted' = minted \cup {t}

Update(t, data) ==
    /\ tasks[t] # NULL
    /\ tasks' = [tasks EXCEPT ![t] = UpdatedRow(@, @.fields, data)]
    /\ log' = [log EXCEPT ![t] = Append(@, UpdatedEntry(tasks[t].fields, data))]
    /\ UNCHANGED minted

Delete(t) ==
    /\ tasks[t] # NULL
    /\ tasks' = [tasks EXCEPT ![t] = NULL]
    /\ log' = [log EXCEPT ![t] = <<>>]
    /\ UNCHANGED minted

DeleteAll ==
    /\ tasks' = [t \in Task |-> NULL]
    /\ log' = [t \in Task |-> <<>>]
    /\ UNCHANGED minted

Next ==
    \/ \E t \in Task : \/ \E data \in Creates : Create(t, data)
                       \/ \E data \in Updates : Update(t, data)
                       \/ Delete(t)
    \/ DeleteAll

Spec == Init /\ [][Next]_vars
=============================================================================
