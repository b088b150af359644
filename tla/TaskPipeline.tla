----------------------------- MODULE TaskPipeline -----------------------------
(***************************************************************************)
(* A task write from the HTTP handler to the broadcast event:              *)
(*   task.service.ts        checks the request, then dispatches a command; *)
(*   task-command.queue.ts  adds the command to the BullMQ queue and waits *)
(*                          at most 15 seconds for its result;             *)
(*   task.processor.ts      runs commands in the worker of every server    *)
(*                          instance, at most one at a time per worker.    *)
(* A handler is split where it awaits the database or Redis.  Whether the  *)
(* caller has the permission and the assignee belongs to the team is       *)
(* decided by rows outside this module: both answers are possible.         *)
(***************************************************************************)
EXTENDS TaskRows, FiniteSets

CONSTANTS
    Task,        \* task ids gen_random_uuid() may produce
    Creates,     \* the data of create commands
    Updates,     \* the data of update commands
    Request,     \* HTTP requests, each sent once
    Worker,      \* one per server instance
    MaxStalls,   \* BullMQ's maxStalledCount
    MaxCrashes   \* bound: crashes explored

ASSUME CommandAssumption ==
    /\ \A d \in Creates \cup Updates :
          DOMAIN d \subseteq Field /\ \A f \in DOMAIN d : d[f] \in Value
    /\ \A d \in Updates : DOMAIN d # {}
    /\ MaxStalls \in Nat

VARIABLES
    tasks, log, team,          \* Postgres: "Task", "TaskActivity", "Team"
    queue, job, stalls,        \* Redis: the wait list and the job hashes
    cmd, call,                 \* the requests: command and progress
    stage, holds, read, note,  \* the workers
    published,                 \* events the team channel carried
    commits, enqueued,         \* history: transactions and additions, in order
    crashes

database == <<tasks, log, team>>
bull     == <<queue, job, stalls>>
calls    == <<cmd, call>>
workers  == <<stage, holds, read, note>>
history  == <<published, commits, enqueued, crashes>>
vars     == <<database, bull, calls, workers, history>>

Command ==
    [type : {"create"}, task : {NULL}, data : Creates] \cup
    [type : {"update"}, task : Task,   data : Updates] \cup
    [type : {"delete"}, task : Task,   data : {NULL}]

Call   == {"new", "authorized", "waiting",
           "ok", "notFound", "rejected", "error", "timeout"}
Settled == {"completed", "notFound", "error"}
Job    == {"none", "wait", "active"} \cup Settled
Stage  == {"down", "idle", "start", "read", "publish"} \cup Settled
Event  == [task : Task, kind : {"created", "updated", "deleted"}, version : Nat]

\* Mutant: the id of a deleted task is used again.
MintedNow == {t \in Task : tasks[t] # NULL}

\* Ids already produced: every one was inserted by some committed create.
Minted == {commits[i].task : i \in DOMAIN commits}

Init ==
    /\ tasks = [t \in Task |-> NULL]
    /\ log = [t \in Task |-> <<>>]
    /\ team = TRUE
    /\ queue = <<>>
    /\ job = [r \in Request |-> "none"]
    /\ stalls = [r \in Request |-> 0]
    /\ cmd = [r \in Request |-> NULL]
    /\ call = [r \in Request |-> "new"]
    /\ stage = [w \in Worker |-> "idle"]
    /\ holds = [w \in Worker |-> NULL]
    /\ read = [w \in Worker |-> NULL]
    /\ note = [w \in Worker |-> NULL]
    /\ published = <<>>
    /\ commits = <<>>
    /\ enqueued = <<>>
    /\ crashes = 0

-----------------------------------------------------------------------------
(* The HTTP request.                                                       *)

Found(c) == IF c.type = "create" THEN team ELSE tasks[c.task] # NULL

\* getTeamAccess or getTaskAccess: the team or the task must exist.
Authorize(r, c) ==
    /\ call[r] = "new"
    /\ call' = [call EXCEPT ![r] = IF Found(c) THEN "authorized" ELSE "notFound"]
    /\ cmd' = [cmd EXCEPT ![r] = IF Found(c) THEN c ELSE NULL]
    /\ UNCHANGED <<database, bull, workers, history>>

\* 403 for a missing permission, 400 for an assignee outside the team.
Reject(r) ==
    /\ call[r] = "authorized"
    /\ call' = [call EXCEPT ![r] = "rejected"]
    /\ UNCHANGED <<database, bull, cmd, workers, history>>

\* Mutant: the newest command goes first.
DispatchFirst(r) ==
    /\ call[r] = "authorized"
    /\ call' = [call EXCEPT ![r] = "waiting"]
    /\ queue' = <<r>> \o queue
    /\ job' = [job EXCEPT ![r] = "wait"]
    /\ enqueued' = Append(enqueued, r)
    /\ UNCHANGED <<database, stalls, cmd, workers, published, commits, crashes>>

\* dispatch: queue.add, then waitUntilFinished.
Dispatch(r) ==
    /\ call[r] = "authorized"
    /\ call' = [call EXCEPT ![r] = "waiting"]
    /\ queue' = Append(queue, r)
    /\ job' = [job EXCEPT ![r] = "wait"]
    /\ enqueued' = Append(enqueued, r)
    /\ UNCHANGED <<database, stalls, cmd, workers, published, commits, crashes>>

\* Mutant: every failure becomes a 404.
AnswerAllNotFound(result) == IF result = "completed" THEN "ok" ELSE "notFound"

Answer(result) == IF result = "completed" THEN "ok" ELSE result

\* The result arrives over QueueEvents; runCommand maps TASK_NOT_FOUND to 404.
Deliver(r) ==
    /\ call[r] = "waiting"
    /\ job[r] \in Settled
    /\ call' = [call EXCEPT ![r] = Answer(job[r])]
    /\ UNCHANGED <<database, bull, cmd, workers, history>>

\* COMMAND_TIMEOUT_MS passed: the caller gets an error, the command stays.
Timeout(r) ==
    /\ call[r] = "waiting"
    /\ call' = [call EXCEPT ![r] = "timeout"]
    /\ UNCHANGED <<database, bull, cmd, workers, history>>

\* TeamService.remove: the team's tasks and their activity cascade away.
DeleteTeam ==
    /\ team
    /\ team' = FALSE
    /\ tasks' = [t \in Task |-> NULL]
    /\ log' = [t \in Task |-> <<>>]
    /\ UNCHANGED <<bull, calls, workers, history>>

-----------------------------------------------------------------------------
(* The worker.  holds[w] is the request whose job w has active.            *)

\* Mutant: the processor returns instead of throwing TASK_NOT_FOUND.
EnterSwallowing(w, s) ==
    stage' = [stage EXCEPT ![w] = IF s = "notFound" THEN "completed" ELSE s]

Enter(w, s) == stage' = [stage EXCEPT ![w] = s]

\* Mutant: the job is read but not removed from the wait list.
Peek(w) ==
    /\ stage[w] = "idle"
    /\ queue # <<>>
    /\ job' = [job EXCEPT ![Head(queue)] = "active"]
    /\ holds' = [holds EXCEPT ![w] = Head(queue)]
    /\ Enter(w, "start")
    /\ UNCHANGED <<database, queue, stalls, calls, read, note, history>>

Take(w) ==
    /\ stage[w] = "idle"
    /\ queue # <<>>
    /\ queue' = Tail(queue)
    /\ job' = [job EXCEPT ![Head(queue)] = "active"]
    /\ holds' = [holds EXCEPT ![w] = Head(queue)]
    /\ Enter(w, "start")
    /\ UNCHANGED <<database, stalls, calls, read, note, history>>

\* Mutant: the event carries the version before the update.
CommittedStaleNote(w, t, kind, version) ==
    /\ Enter(w, "publish")
    /\ note' = [note EXCEPT ![w] = [task |-> t, kind |-> kind, version |->
                   IF kind = "updated" THEN version - 1 ELSE version]]
    /\ commits' = Append(commits, [req  |-> holds[w], task    |-> t,
                                   kind |-> kind,     version |-> version])

\* COMMIT returned: record the transaction and the event still to be sent.
Committed(w, t, kind, version) ==
    /\ Enter(w, "publish")
    /\ note' = [note EXCEPT ![w] =
                   [task |-> t, kind |-> kind, version |-> version]]
    /\ commits' = Append(commits, [req  |-> holds[w], task    |-> t,
                                   kind |-> kind,     version |-> version])

\* handleCreate up to COMMIT; the teamId foreign key fails once the team is gone.
HandleCreate(w) ==
    /\ stage[w] = "start"
    /\ cmd[holds[w]].type = "create"
    /\ \/ /\ team
          /\ \E t \in Task \ Minted :
                /\ tasks' = [tasks EXCEPT ![t] = NewRow(cmd[holds[w]].data)]
                /\ log' = [log EXCEPT ![t] = <<CreatedEntry>>]
                /\ Committed(w, t, "created", 0)
       \/ /\ ~team
          /\ Enter(w, "error")
          /\ UNCHANGED <<tasks, log, note, commits>>
    /\ UNCHANGED <<team, bull, calls, holds, read, published, enqueued, crashes>>

\* handleUpdate, the SELECT: it takes no row lock.
ReadTask(w) ==
    /\ stage[w] = "start"
    /\ cmd[holds[w]].type = "update"
    /\ LET row == tasks[cmd[holds[w]].task]
       IN  \/ /\ row # NULL
              /\ read' = [read EXCEPT ![w] = row.fields]
              /\ Enter(w, "read")
           \/ /\ row = NULL
              /\ Enter(w, "notFound")
              /\ UNCHANGED read
    /\ UNCHANGED <<database, bull, calls, holds, note, history>>

\* handleUpdate, from the UPDATE to COMMIT.  Without the row the UPDATE changes
\* nothing and the activity row violates its foreign key: rollback.
HandleUpdate(w) ==
    /\ stage[w] = "read"
    /\ LET t    == cmd[holds[w]].task
           data == cmd[holds[w]].data
       IN  \/ /\ tasks[t] # NULL
              /\ tasks' = [tasks EXCEPT ![t] = UpdatedRow(@, read[w], data)]
              /\ log' = [log EXCEPT ![t] = Append(@, UpdatedEntry(read[w], data))]
              /\ Committed(w, t, "updated", tasks[t].version + 1)
           \/ /\ tasks[t] = NULL
              /\ Enter(w, "error")
              /\ UNCHANGED <<tasks, log, note, commits>>
    /\ UNCHANGED <<team, bull, calls, holds, read, published, enqueued, crashes>>

\* handleDelete: the activity rows go with the task (ON DELETE CASCADE).
HandleDelete(w) ==
    /\ stage[w] = "start"
    /\ cmd[holds[w]].type = "delete"
    /\ LET t == cmd[holds[w]].task
       IN  \/ /\ tasks[t] # NULL
              /\ tasks' = [tasks EXCEPT ![t] = NULL]
              /\ log' = [log EXCEPT ![t] = <<>>]
              /\ Committed(w, t, "deleted", 0)
           \/ /\ tasks[t] = NULL
              /\ Enter(w, "notFound")
              /\ UNCHANGED <<tasks, log, note, commits>>
    /\ UNCHANGED <<team, bull, calls, holds, read, published, enqueued, crashes>>

\* Any query of the transaction throws: ROLLBACK, and the job fails (attempts: 1).
Abort(w) ==
    /\ stage[w] \in {"start", "read"}
    /\ Enter(w, "error")
    /\ UNCHANGED <<database, bull, calls, holds, read, note, history>>

\* Mutant: an event overtakes those sent before it.
PublishFirst(w) ==
    /\ stage[w] = "publish"
    /\ Enter(w, "completed")
    /\ published' \in {published, <<note[w]>> \o published}
    /\ UNCHANGED <<database, bull, calls, holds, read, note, commits, enqueued,
                   crashes>>

\* emitToTeam: RedisService.publish swallows its errors, so an event can be lost.
Publish(w) ==
    /\ stage[w] = "publish"
    /\ Enter(w, "completed")
    /\ published' \in {published, Append(published, note[w])}
    /\ UNCHANGED <<database, bull, calls, holds, read, note, commits, enqueued,
                   crashes>>

LetGo(w) ==
    /\ holds' = [holds EXCEPT ![w] = NULL]
    /\ read' = [read EXCEPT ![w] = NULL]
    /\ note' = [note EXCEPT ![w] = NULL]

\* The processor returned or threw: BullMQ moves the job to its final state.
Settle(w) ==
    /\ stage[w] \in Settled
    /\ job' = [job EXCEPT ![holds[w]] = stage[w]]
    /\ Enter(w, "idle")
    /\ LetGo(w)
    /\ UNCHANGED <<database, queue, stalls, calls, history>>

\* The process dies; what it has not committed is rolled back, its job stays active.
Crash(w) ==
    /\ stage[w] # "down"
    /\ crashes < MaxCrashes
    /\ crashes' = crashes + 1
    /\ Enter(w, "down")
    /\ LetGo(w)
    /\ UNCHANGED <<database, bull, calls, published, commits, enqueued>>

Restart(w) ==
    /\ stage[w] = "down"
    /\ Enter(w, "idle")
    /\ UNCHANGED <<database, bull, calls, holds, read, note, history>>

\* Mutant: a job that stalled too often is left as it is.
RecoverOnlyFew(r) ==
    /\ job[r] = "active"
    /\ \A w \in Worker : holds[w] # r
    /\ stalls[r] < MaxStalls
    /\ stalls' = [stalls EXCEPT ![r] = @ + 1]
    /\ queue' = <<r>> \o queue
    /\ job' = [job EXCEPT ![r] = "wait"]
    /\ UNCHANGED <<database, calls, workers, history>>

\* BullMQ's stalled check: an active job no live worker holds goes back to the
\* head of the queue, or fails when it has stalled too often.
RecoverStalled(r) ==
    /\ job[r] = "active"
    /\ \A w \in Worker : holds[w] # r
    /\ stalls' = [stalls EXCEPT ![r] = @ + 1]
    /\ \/ /\ stalls[r] < MaxStalls
          /\ queue' = <<r>> \o queue
          /\ job' = [job EXCEPT ![r] = "wait"]
       \/ /\ stalls[r] >= MaxStalls
          /\ job' = [job EXCEPT ![r] = "error"]
          /\ UNCHANGED queue
    /\ UNCHANGED <<database, calls, workers, history>>

WorkerStep(w) ==
    \/ Take(w)
    \/ HandleCreate(w) \/ ReadTask(w) \/ HandleUpdate(w) \/ HandleDelete(w)
    \/ Abort(w) \/ Publish(w) \/ Settle(w)

Next ==
    \/ \E r \in Request :
          \/ \E c \in Command : Authorize(r, c)
          \/ Reject(r) \/ Dispatch(r) \/ Deliver(r) \/ Timeout(r)
          \/ RecoverStalled(r)
    \/ \E w \in Worker : WorkerStep(w) \/ Crash(w) \/ Restart(w)
    \/ DeleteTeam

Spec == Init /\ [][Next]_vars

\* A live worker keeps working, a dead one is restarted, and the stalled check
\* runs on a timer.  Nothing obliges a client to send or a caller to wait.
Fairness ==
    /\ \A w \in Worker : WF_vars(WorkerStep(w)) /\ WF_vars(Restart(w))
    /\ \A r \in Request : WF_vars(RecoverStalled(r))

FairSpec == Spec /\ Fairness

-----------------------------------------------------------------------------
(* Properties.                                                             *)

\* Every variable keeps its shape: a live job's command is complete, a worker
\* past the SELECT holds an update and what it read.
TypeOK ==
    /\ tasks \in [Task -> Row \cup {NULL}]
    /\ log \in [Task -> Seq(Entry)]
    /\ team \in BOOLEAN
    /\ queue \in Seq(Request)
    /\ job \in [Request -> Job]
    /\ stalls \in [Request -> Nat]
    /\ cmd \in [Request -> Command \cup {NULL}]
    /\ call \in [Request -> Call]
    /\ stage \in [Worker -> Stage]
    /\ holds \in [Worker -> Request \cup {NULL}]
    /\ read \in [Worker -> Fields \cup {NULL}]
    /\ note \in [Worker -> Event \cup {NULL}]
    /\ published \in Seq(Event)
    /\ commits \in Seq([req : Request, task : Task,
                        kind : {"created", "updated", "deleted"}, version : Nat])
    /\ enqueued \in Seq(Request)
    /\ crashes \in Nat

\* completedAt follows the status in and out of DONE, although the processor
\* decides it on the row it read before the UPDATE (task.processor.ts 138-151).
CompletedIffDone ==
    \A t \in Task : tasks[t] # NULL =>
        (tasks[t].completed <=> tasks[t].fields["status"] = Done)

\* The version a client reconciles to counts the updates in the activity log:
\* no update is missing from the log or from the count, whichever workers ran
\* them and however often they crashed.
VersionCountsUpdates ==
    \A t \in Task : tasks[t] # NULL => Len(log[t]) = tasks[t].version + 1

\* Replaying the activity log of a task, from the values of the command that
\* created it, gives its row: handleUpdate records every change of a column,
\* and each against the value the column had (task.processor.ts 155-171).
TimelineReplays ==
    \A t \in Task : tasks[t] # NULL =>
        \E i \in DOMAIN commits :
            /\ commits[i].task = t
            /\ commits[i].kind = "created"
            /\ Replays(log[t], NewRow(cmd[commits[i].req].data).fields,
                       tasks[t].fields)

\* The COMPLETED and REOPENED rows that deriveAction writes agree with
\* completedAt, which is computed elsewhere.
TimelineTellsCompletion ==
    \A t \in Task : tasks[t] # NULL => TellsCompletion(log[t], tasks[t])

\* "then broadcasts committed state": an event is sent only for a transaction
\* that committed, with the version it produced.
BroadcastsCommittedState ==
    \A i \in DOMAIN published : \E j \in DOMAIN commits :
        /\ published[i].task = commits[j].task
        /\ published[i].kind = commits[j].kind
        /\ published[i].version = commits[j].version

\* The events of a task leave in version order and none follows its deletion,
\* though any of them may be lost and any job may run twice.
EventsInOrder ==
    \A i, j \in DOMAIN published :
        i < j /\ published[i].task = published[j].task =>
            /\ published[i].kind # "deleted"
            /\ \/ published[j].kind = "deleted"
               \/ published[i].version < published[j].version

Runs(r) == {i \in DOMAIN commits : commits[i].req = r}

\* A caller told that its write succeeded had it committed, even when the job
\* was recovered from a dead worker in between.
OkWasApplied == \A r \in Request : call[r] = "ok" => Runs(r) # {}

\* The transactions that gave column f of task t a value.
WritesTo(t, f) ==
    {i \in DOMAIN commits : /\ commits[i].task = t
                            /\ commits[i].kind # "deleted"
                            /\ f \in DOMAIN cmd[commits[i].req].data}

\* No update is lost: a column holds what the last committed command that sent it
\* carried, or its default, whatever other workers committed on the task between
\* the SELECT and the UPDATE of a command that does not send it.  So the last
\* write wins, column by column (task.processor.ts 121-161).
LastWriteStands ==
    \A t \in Task, f \in Field : tasks[t] # NULL =>
        \/ WritesTo(t, f) = {} /\ tasks[t].fields[f] = DefaultFields[f]
        \/ \E i \in WritesTo(t, f) :
              /\ \A j \in WritesTo(t, f) : j <= i
              /\ tasks[t].fields[f] = cmd[commits[i].req].data[f]

\* The only thing that can apply a command again is a stall: attempts is 1.
AppliedOncePerRun ==
    \A r \in Request : Cardinality(Runs(r)) <= 1 + stalls[r]

\* A caller told 404 for a command that reached the queue asked for a task that
\* no longer exists, and never will again; no other failure is passed as a 404.
NotFoundIsFinal ==
    \A r \in Request :
        call[r] = "notFound" /\ cmd[r] # NULL =>
            cmd[r].type # "create" /\ tasks[cmd[r].task] = NULL

\* Commands commit in the order they were queued, those that stalled excepted.
FifoUnlessStalled ==
    \A m, n \in DOMAIN enqueued :
        m < n /\ stalls[enqueued[m]] = 0 /\ stalls[enqueued[n]] = 0 =>
            \A i \in Runs(enqueued[m]), j \in Runs(enqueued[n]) : i < j

\* Updates of a task that do not overlap make the tasks and their log change as
\* TaskTimeline says: each command atomically, on the row its predecessor left.
Timeline == INSTANCE TaskTimeline WITH minted <- Minted
RefinesTimeline == Timeline!Spec

\* A command that reached the queue is completed or failed in the end, whatever
\* crashed while it ran: it is never left active for ever.
EveryCommandSettles ==
    \A r \in Request : job[r] = "wait" ~> job[r] \in Settled

\* task-command.queue.ts 39, "commands are not idempotent; don't auto-retry a
\* partial apply": no command is applied twice.
AppliedAtMostOnce == \A r \in Request : Cardinality(Runs(r)) <= 1
=============================================================================
