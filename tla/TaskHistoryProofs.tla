--------------------------- MODULE TaskHistoryProofs ---------------------------
(***************************************************************************)
(* What TaskPipeline guarantees about the past: which commands ran, what   *)
(* the callers were told of them and which events the team heard.          *)
(***************************************************************************)
EXTENDS TaskPipelineProofs, FiniteSetTheorems

-----------------------------------------------------------------------------
(* What was committed, with any number of workers.                         *)

\* The record of a transaction.
Commit == [req : Request, task : Task, kind : {"created", "updated", "deleted"},
           version : Nat]

\* A step that commits: what the worker held, and what it leaves alone.
Commits(w, t, k, v) ==
    /\ holds[w] \in Request
    /\ stage[w] \in {"start", "read"}
    /\ Committed(w, t, k, v)
    /\ UNCHANGED <<team, bull, calls, holds, read, published, enqueued, crashes>>

\* A transaction rolled back: the job fails.
Fails(w) ==
    /\ stage[w] \in {"start", "read"}
    /\ Enter(w, "error")
    /\ UNCHANGED <<database, bull, calls, holds, read, note, history>>

\* An update or deletion that finds no row.
Misses(w) ==
    /\ stage[w] = "start"
    /\ cmd[holds[w]].type # "create"
    /\ tasks[cmd[holds[w]].task] = NULL
    /\ Enter(w, "notFound")
    /\ UNCHANGED <<database, bull, calls, holds, read, note, history>>

\* The SELECT of an update that finds its row.
Selects(w) ==
    /\ stage[w] = "start"
    /\ Enter(w, "read")
    /\ UNCHANGED <<database, bull, calls, holds, note, history>>

\* The steps again, those of the three handlers by their outcome.
LEMMA StepKinds ==
    ASSUME TypeInv, [Next]_vars
    PROVE  \/ \E w \in Worker : \E t \in Task :
                 \E k \in {"created", "updated", "deleted"} : \E v \in Nat :
                    Commits(w, t, k, v)
           \/ \E w \in Worker :
                 \/ Fails(w) \/ Misses(w) \/ Selects(w) \/ Take(w) \/ Publish(w)
                 \/ Settle(w) \/ Crash(w) \/ Restart(w)
           \/ \E r \in Request : \/ \E c \in Command : Authorize(r, c)
                                 \/ Reject(r) \/ Dispatch(r) \/ Deliver(r)
                                 \/ Timeout(r) \/ RecoverStalled(r)
           \/ DeleteTeam
           \/ UNCHANGED vars
<1> DEFINE Some == \E w \in Worker : \E t \in Task :
                      \E k \in {"created", "updated", "deleted"} : \E v \in Nat :
                         Commits(w, t, k, v)
<1>1. ASSUME NEW w \in Worker, HandleCreate(w)
      PROVE  Some \/ Fails(w)
  <2>1. holds[w] \in Request /\ stage[w] \in {"start", "read"}
    BY <1>1, WorkInHand DEF HandleCreate
  <2>2. ASSUME NEW t \in Task, Committed(w, t, "created", 0)
        PROVE  Some
    <3>1. Commits(w, t, "created", 0)
      BY <1>1, <2>1, <2>2 DEF HandleCreate, Commits
    <3> QED
      BY <3>1
  <2>3. CASE Enter(w, "error") /\ UNCHANGED <<tasks, log, note, commits>>
    BY <1>1, <2>3 DEF HandleCreate, Fails, database, bull, calls, history
  <2> QED
    BY <1>1, <2>2, <2>3 DEF HandleCreate
<1>2. ASSUME NEW w \in Worker, HandleUpdate(w)
      PROVE  Some \/ Fails(w)
  <2> DEFINE t == cmd[holds[w]].task
  <2>1. holds[w] \in Request /\ stage[w] \in {"start", "read"} /\ t \in Task
    BY <1>2, WorkInHand DEF HandleUpdate
  <2>2. CASE tasks[t] # NULL /\ Committed(w, t, "updated", tasks[t].version + 1)
    <3>1. tasks[t] \in Row
      BY <2>1, <2>2 DEF TypeInv, TypeOK
    <3>2. tasks[t].version + 1 \in Nat
      BY <3>1 DEF Row
    <3>3. Commits(w, t, "updated", tasks[t].version + 1)
      BY <1>2, <2>1, <2>2 DEF HandleUpdate, Commits
    <3> QED
      BY <2>1, <3>2, <3>3
  <2>3. CASE Enter(w, "error") /\ UNCHANGED <<tasks, log, note, commits>>
    BY <1>2, <2>3 DEF HandleUpdate, Fails, database, bull, calls, history
  <2> QED
    BY <1>2, <2>2, <2>3 DEF HandleUpdate
<1>3. ASSUME NEW w \in Worker, HandleDelete(w)
      PROVE  Some \/ Misses(w)
  <2> DEFINE t == cmd[holds[w]].task
  <2>1. holds[w] \in Request /\ stage[w] \in {"start", "read"} /\ t \in Task
    BY <1>3, WorkInHand DEF HandleDelete
  <2>2. CASE Committed(w, t, "deleted", 0)
    <3>1. Commits(w, t, "deleted", 0)
      BY <1>3, <2>1, <2>2 DEF HandleDelete, Commits
    <3> QED
      BY <2>1, <3>1
  <2>3. CASE /\ tasks[t] = NULL /\ Enter(w, "notFound")
             /\ UNCHANGED <<tasks, log, note, commits>>
    BY <1>3, <2>3 DEF HandleDelete, Misses, database, bull, calls, history
  <2> QED
    BY <1>3, <2>2, <2>3 DEF HandleDelete
<1>4. ASSUME NEW w \in Worker, ReadTask(w)
      PROVE  Misses(w) \/ Selects(w)
  BY <1>4 DEF ReadTask, Misses, Selects
<1>5. ASSUME NEW w \in Worker, Abort(w)
      PROVE  Fails(w)
  BY <1>5 DEF Abort, Fails
<1> QED
  BY <1>1, <1>2, <1>3, <1>4, <1>5 DEF Next, WorkerStep

\* The new record is the last, and tells what was done for whom.
RecordedAt(n, w, t, k, v) ==
    /\ n \notin DOMAIN commits
    /\ DOMAIN commits' = DOMAIN commits \cup {n}
    /\ \A i \in DOMAIN commits : i < n
    /\ commits'[n].req = holds[w]
    /\ commits'[n].task = t
    /\ commits'[n].kind = k
    /\ commits'[n].version = v

\* A commit adds one record at the end.
LEMMA CommitAppends ==
    ASSUME TypeInv, NEW w \in Worker, NEW t \in Task,
           NEW k \in {"created", "updated", "deleted"}, NEW v \in Nat,
           Commits(w, t, k, v)
    PROVE  /\ \A i \in DOMAIN commits :
                 i \in DOMAIN commits' /\ commits'[i] = commits[i]
           /\ \E n \in DOMAIN commits' :
                 RecordedAt(n, w, t, k, v)
<1> DEFINE c == [req |-> holds[w], task |-> t, kind |-> k, version |-> v]
<1>1. commits \in Seq(Commit) /\ c \in Commit /\ commits' = Append(commits, c)
  BY DEF TypeInv, TypeOK, Commits, Committed, Commit
<1> HIDE DEF c
<1>2. /\ DOMAIN commits' = 1..(Len(commits) + 1) /\ Len(commits) \in Nat
      /\ DOMAIN commits = 1..Len(commits)
      /\ \A i \in 1..Len(commits) : commits'[i] = commits[i]
      /\ commits'[Len(commits) + 1] = c
  BY <1>1, AppendProperties, LenProperties
<1>3. c.req = holds[w] /\ c.task = t /\ c.kind = k /\ c.version = v
  BY DEF c
<1>4. RecordedAt(Len(commits) + 1, w, t, k, v)
  BY <1>2, <1>3 DEF RecordedAt
<1> QED
  BY <1>2, <1>4

\* The other steps record nothing.
LEMMA CommitOrNot ==
    ASSUME TypeInv, [Next]_vars
    PROVE  \/ UNCHANGED commits
           \/ \E w \in Worker : \E t \in Task :
                 \E k \in {"created", "updated", "deleted"} : \E v \in Nat :
                    Commits(w, t, k, v)
<1>1. ASSUME NEW w \in Worker,
             \/ Fails(w) \/ Misses(w) \/ Selects(w) \/ Take(w) \/ Publish(w)
             \/ Settle(w) \/ Crash(w) \/ Restart(w)
      PROVE  UNCHANGED commits
  BY <1>1 DEF Fails, Misses, Selects, Take, Publish, Settle, Crash, Restart, history
<1>2. ASSUME NEW r \in Request, NEW c \in Command, Authorize(r, c)
      PROVE  UNCHANGED commits
  BY <1>2 DEF Authorize, history
<1>3. ASSUME NEW r \in Request,
             Reject(r) \/ Dispatch(r) \/ Deliver(r) \/ Timeout(r) \/ RecoverStalled(r)
      PROVE  UNCHANGED commits
  BY <1>3 DEF Reject, Dispatch, Deliver, Timeout, RecoverStalled, history
<1>4. CASE DeleteTeam \/ UNCHANGED vars
  BY <1>4 DEF DeleteTeam, vars, history
<1> QED
  BY <1>1, <1>2, <1>3, <1>4, StepKinds

\* No record is ever lost or changed.
LEMMA CommitsKept ==
    ASSUME TypeInv, [Next]_vars
    PROVE  \A i \in DOMAIN commits : i \in DOMAIN commits' /\ commits'[i] = commits[i]
<1>1. ASSUME NEW w \in Worker, NEW t \in Task,
             NEW k \in {"created", "updated", "deleted"}, NEW v \in Nat,
             Commits(w, t, k, v)
      PROVE  \A i \in DOMAIN commits : i \in DOMAIN commits' /\ commits'[i] = commits[i]
  BY <1>1, CommitAppends
<1>2. CASE UNCHANGED commits
  BY <1>2
<1> QED
  BY <1>1, <1>2, CommitOrNot

-----------------------------------------------------------------------------
(* Events tell what was committed.                                         *)

\* Some transaction did what the event e tells.
Tells(e) ==
    \E j \in DOMAIN commits : /\ e.task = commits[j].task
                              /\ e.kind = commits[j].kind
                              /\ e.version = commits[j].version

\* An event that waits to be sent was recorded by its transaction.
NotesCommitted == \A w \in Worker : stage[w] = "publish" => Tells(note[w])

\* The stage "publish" is entered by committing alone.
LEMMA NextNotesCommitted ==
    ASSUME TypeInv, NotesCommitted, [Next]_vars
    PROVE  NotesCommitted'
<1> SUFFICES ASSUME NEW x \in Worker, stage'[x] = "publish"
             PROVE  \E j \in DOMAIN commits' :
                       /\ note'[x].task = commits'[j].task
                       /\ note'[x].kind = commits'[j].kind
                       /\ note'[x].version = commits'[j].version
  BY DEF NotesCommitted, Tells
<1>1. CASE stage[x] = "publish" /\ note'[x] = note[x]
  BY <1>1, CommitsKept DEF NotesCommitted, Tells
<1>2. ASSUME NEW w \in Worker, NEW t \in Task,
             NEW k \in {"created", "updated", "deleted"}, NEW v \in Nat,
             Commits(w, t, k, v)
      PROVE  \/ stage[x] = "publish" /\ note'[x] = note[x]
             \/ \E j \in DOMAIN commits' :
                   /\ note'[x].task = commits'[j].task
                   /\ note'[x].kind = commits'[j].kind
                   /\ note'[x].version = commits'[j].version
  <2>1. PICK n \in DOMAIN commits' : RecordedAt(n, w, t, k, v)
    BY <1>2, CommitAppends
  <2>2. /\ note' = [note EXCEPT ![w] = [task |-> t, kind |-> k, version |-> v]]
        /\ stage' = [stage EXCEPT ![w] = "publish"]
    BY <1>2 DEF Commits, Committed, Enter
  <2>3. CASE x = w
    <3>1. note'[x] = [task |-> t, kind |-> k, version |-> v]
      BY <2>2, <2>3 DEF TypeInv, TypeOK
    <3> QED
      BY <2>1, <3>1 DEF RecordedAt
  <2>4. CASE x # w
    BY <2>2, <2>4 DEF TypeInv, TypeOK
  <2> QED
    BY <2>3, <2>4
<1>3. ASSUME NEW w \in Worker,
             \/ Fails(w) \/ Misses(w) \/ Selects(w) \/ Take(w) \/ Publish(w)
             \/ Settle(w) \/ Crash(w) \/ Restart(w)
      PROVE  stage[x] = "publish" /\ note'[x] = note[x]
  BY <1>3 DEF Fails, Misses, Selects, Take, Publish, Settle, Crash, Restart, Enter,
     LetGo, TypeInv, TypeOK
<1>4. ASSUME NEW r \in Request, NEW c \in Command, Authorize(r, c)
      PROVE  stage[x] = "publish" /\ note'[x] = note[x]
  BY <1>4 DEF Authorize, workers
<1>5. ASSUME NEW r \in Request,
             Reject(r) \/ Dispatch(r) \/ Deliver(r) \/ Timeout(r) \/ RecoverStalled(r)
      PROVE  stage[x] = "publish" /\ note'[x] = note[x]
  BY <1>5 DEF Reject, Dispatch, Deliver, Timeout, RecoverStalled, workers
<1>6. ASSUME DeleteTeam \/ UNCHANGED vars
      PROVE  stage[x] = "publish" /\ note'[x] = note[x]
  BY <1>6 DEF DeleteTeam, vars, workers
<1> QED
  BY <1>1, <1>2, <1>3, <1>4, <1>5, <1>6, StepKinds

\* An event that is sent is the one its transaction left.
LEMMA NextBroadcasts ==
    ASSUME TypeInv, NotesCommitted, BroadcastsCommittedState, [Next]_vars
    PROVE  BroadcastsCommittedState'
<1>1. CASE UNCHANGED published
  BY <1>1, CommitsKept DEF BroadcastsCommittedState
<1>2. ASSUME NEW w \in Worker, published' = Append(published, note[w]),
             stage[w] = "publish"
      PROVE  BroadcastsCommittedState'
  <2>1. published \in Seq(Event) /\ note[w] \in Event
    BY <1>2 DEF TypeInv, TypeOK, WorkersReady
  <2>2. /\ DOMAIN published' = 1..(Len(published) + 1) /\ Len(published) \in Nat
        /\ DOMAIN published = 1..Len(published)
        /\ \A i \in 1..Len(published) : published'[i] = published[i]
        /\ published'[Len(published) + 1] = note[w]
    BY <1>2, <2>1, AppendProperties, LenProperties
  <2>3. \A i \in DOMAIN published' :
           \/ published'[i] = note[w]
           \/ \E j \in DOMAIN published : published'[i] = published[j]
    BY <2>2
  <2> QED
    BY <1>2, <2>3, CommitsKept DEF BroadcastsCommittedState, NotesCommitted, Tells
<1>3. ASSUME NEW w \in Worker, Publish(w)
      PROVE  BroadcastsCommittedState'
  BY <1>1, <1>2, <1>3 DEF Publish
<1>4. ASSUME NEW w \in Worker, NEW t \in Task,
             NEW k \in {"created", "updated", "deleted"}, NEW v \in Nat,
             Commits(w, t, k, v)
      PROVE  UNCHANGED published
  BY <1>4 DEF Commits
<1>5. ASSUME NEW w \in Worker,
             \/ Fails(w) \/ Misses(w) \/ Selects(w) \/ Take(w)
             \/ Settle(w) \/ Crash(w) \/ Restart(w)
      PROVE  UNCHANGED published
  BY <1>5 DEF Fails, Misses, Selects, Take, Settle, Crash, Restart, history
<1>6. ASSUME NEW r \in Request, NEW c \in Command, Authorize(r, c)
      PROVE  UNCHANGED published
  BY <1>6 DEF Authorize, history
<1>7. ASSUME NEW r \in Request,
             Reject(r) \/ Dispatch(r) \/ Deliver(r) \/ Timeout(r) \/ RecoverStalled(r)
      PROVE  UNCHANGED published
  BY <1>7 DEF Reject, Dispatch, Deliver, Timeout, RecoverStalled, history
<1>8. ASSUME DeleteTeam \/ UNCHANGED vars
      PROVE  UNCHANGED published
  BY <1>8 DEF DeleteTeam, vars, history
<1> QED
  BY <1>1, <1>3, <1>4, <1>5, <1>6, <1>7, <1>8, StepKinds

\* However many workers run, crash and repeat commands, the team hears only of
\* transactions that committed, with the version they produced.
THEOREM EventsTellCommits == Spec => []BroadcastsCommittedState
<1> DEFINE Inv == TypeInv /\ NotesCommitted /\ BroadcastsCommittedState
<1>1. Init => Inv
  <2>1. Init => NotesCommitted /\ BroadcastsCommittedState
    BY DEF Init, NotesCommitted, BroadcastsCommittedState
  <2> QED
    BY <2>1, InitTypeInv
<1>2. Inv /\ [Next]_vars => Inv'
  BY NextTypeInv, NextNotesCommitted, NextBroadcasts
<1>3. Inv => BroadcastsCommittedState
  OBVIOUS
<1> QED
  BY <1>1, <1>2, <1>3, PTL DEF Spec

-----------------------------------------------------------------------------
(* A write that is reported was applied.                                   *)

\* What a worker has finished, and a job that completed, was committed.
FinishedApplied ==
    /\ \A w \in Worker :
          stage[w] \in {"publish", "completed"} =>
             \E i \in DOMAIN commits : commits[i].req = holds[w]
    /\ \A r \in Request :
          job[r] = "completed" => \E i \in DOMAIN commits : commits[i].req = r

\* A worker that is not idle at the end of its transaction has committed it.
LEMMA NextFinishedApplied ==
    ASSUME TypeInv, FinishedApplied, OkWasApplied, [Next]_vars
    PROVE  FinishedApplied' /\ OkWasApplied'
<1> USE DEF FinishedApplied
<1>0. \A r : (\E i \in DOMAIN commits : commits[i].req = r)
                => \E i \in DOMAIN commits' : commits'[i].req = r
  BY CommitsKept
<1> DEFINE Ok == \A r \in Request :
                    call[r] = "ok" => \E i \in DOMAIN commits : commits[i].req = r
<1>a. Ok /\ (Ok' => OkWasApplied')
  BY DEF OkWasApplied, Runs
<1> SUFFICES FinishedApplied' /\ Ok'
  BY <1>a
<1>1. ASSUME NEW w \in Worker, NEW t \in Task,
             NEW k \in {"created", "updated", "deleted"}, NEW v \in Nat,
             Commits(w, t, k, v)
      PROVE  FinishedApplied' /\ Ok'
  <2>1. \E n \in DOMAIN commits' : commits'[n].req = holds[w]
    <3>1. PICK n \in DOMAIN commits' : RecordedAt(n, w, t, k, v)
      BY <1>1, CommitAppends
    <3> QED
      BY <3>1 DEF RecordedAt
  <2>2. stage' = [stage EXCEPT ![w] = "publish"] /\ UNCHANGED <<holds, job, call>>
    BY <1>1 DEF Commits, Committed, Enter, bull, calls
  <2> QED
    BY <1>0, <1>a, <2>1, <2>2 DEF TypeInv, TypeOK
<1>2. ASSUME NEW w \in Worker,
             Fails(w) \/ Misses(w) \/ Selects(w) \/ Restart(w) \/ Publish(w)
      PROVE  FinishedApplied' /\ Ok'
  <2>1. UNCHANGED <<holds, job, call>>
    BY <1>2 DEF Fails, Misses, Selects, Restart, Publish, bull, calls
  <2>2. PICK s \in {"error", "notFound", "read", "idle", "completed"} :
           /\ stage' = [stage EXCEPT ![w] = s]
           /\ s = "completed" => stage[w] = "publish"
    BY <1>2 DEF Fails, Misses, Selects, Restart, Publish, Enter
  <2> QED
    BY <1>0, <1>a, <2>1, <2>2 DEF TypeInv, TypeOK
<1>3. ASSUME NEW w \in Worker, Take(w)
      PROVE  FinishedApplied' /\ Ok'
  <2>1. stage' = [stage EXCEPT ![w] = "start"] /\ call' = call
        /\ holds' = [holds EXCEPT ![w] = Head(queue)]
        /\ job' = [job EXCEPT ![Head(queue)] = "active"]
    BY <1>3 DEF Take, Enter, calls
  <2> QED
    BY <1>0, <1>a, <2>1 DEF TypeInv, TypeOK
<1>4. ASSUME NEW w \in Worker, Settle(w)
      PROVE  FinishedApplied' /\ Ok'
  <2>1. stage' = [stage EXCEPT ![w] = "idle"] /\ call' = call
        /\ holds' = [holds EXCEPT ![w] = NULL]
        /\ job' = [job EXCEPT ![holds[w]] = stage[w]]
    BY <1>4 DEF Settle, Enter, LetGo, calls
  <2> QED
    BY <1>0, <1>a, <2>1 DEF TypeInv, TypeOK
<1>5. ASSUME NEW w \in Worker, Crash(w)
      PROVE  FinishedApplied' /\ Ok'
  <2>1. stage' = [stage EXCEPT ![w] = "down"] /\ UNCHANGED <<call, job>>
        /\ holds' = [holds EXCEPT ![w] = NULL]
    BY <1>5 DEF Crash, Enter, LetGo, calls, bull
  <2> QED
    BY <1>0, <1>a, <2>1 DEF TypeInv, TypeOK
<1>6. ASSUME NEW r \in Request, NEW c \in Command, Authorize(r, c)
      PROVE  FinishedApplied' /\ Ok'
  BY <1>0, <1>a, <1>6 DEF Authorize, workers, bull, TypeInv, TypeOK
<1>7. ASSUME NEW r \in Request, Reject(r) \/ Timeout(r)
      PROVE  FinishedApplied' /\ Ok'
  <2>1. PICK s \in {"rejected", "timeout"} : call' = [call EXCEPT ![r] = s]
    BY <1>7 DEF Reject, Timeout
  <2>2. UNCHANGED <<stage, holds, job>>
    BY <1>7 DEF Reject, Timeout, workers, bull
  <2> QED
    BY <1>0, <1>a, <2>1, <2>2 DEF TypeInv, TypeOK
<1>8. ASSUME NEW r \in Request, Dispatch(r)
      PROVE  FinishedApplied' /\ Ok'
  BY <1>0, <1>a, <1>8 DEF Dispatch, workers, TypeInv, TypeOK
<1>9. ASSUME NEW r \in Request, Deliver(r)
      PROVE  FinishedApplied' /\ Ok'
  <2>1. call' = [call EXCEPT ![r] = Answer(job[r])] /\ UNCHANGED <<stage, holds, job>>
    BY <1>9 DEF Deliver, workers, bull
  <2>2. Answer(job[r]) = "ok" => job[r] = "completed"
    BY <1>9 DEF Deliver, Settled, Answer
  <2> QED
    BY <1>0, <1>a, <2>1, <2>2 DEF TypeInv, TypeOK
<1>10. ASSUME NEW r \in Request, RecoverStalled(r)
       PROVE  FinishedApplied' /\ Ok'
  <2>1. UNCHANGED <<stage, holds, call>>
    BY <1>10 DEF RecoverStalled, workers, calls
  <2>2. PICK s \in {"wait", "error"} : job' = [job EXCEPT ![r] = s]
    BY <1>10 DEF RecoverStalled
  <2> QED
    BY <1>0, <1>a, <2>1, <2>2 DEF TypeInv, TypeOK
<1>11. CASE DeleteTeam \/ UNCHANGED vars
  BY <1>0, <1>a, <1>11 DEF DeleteTeam, vars, workers, calls, bull
<1> QED
  BY <1>1, <1>2, <1>3, <1>4, <1>5, <1>6, <1>7, <1>8, <1>9, <1>10, <1>11, StepKinds

\* Whatever crashed and was recovered in between, a caller told that its write
\* succeeded had it committed.
THEOREM SuccessWasApplied == Spec => []OkWasApplied
<1> DEFINE Inv == TypeInv /\ FinishedApplied /\ OkWasApplied
<1>1. Init => Inv
  <2>1. Init => FinishedApplied /\ OkWasApplied
    BY DEF Init, FinishedApplied, OkWasApplied
  <2> QED
    BY <2>1, InitTypeInv
<1>2. Inv /\ [Next]_vars => Inv'
  BY NextTypeInv, NextFinishedApplied
<1>3. Inv => OkWasApplied
  OBVIOUS
<1> QED
  BY <1>1, <1>2, <1>3, PTL DEF Spec

-----------------------------------------------------------------------------
(* A 404 is final.                                                         *)

\* A request that got past the permission check and was not turned away.
Admitted(r) == call[r] = "authorized" \/ job[r] # "none"

\* An admitted update or deletion names a task that existed.
NamesMinted ==
    \A r \in Request :
        Admitted(r) /\ cmd[r].type # "create" => cmd[r].task \in Minted

\* Its task existed once and no longer does: no later creation gets its id.
Gone(r) ==
    /\ cmd[r].type # "create"
    /\ cmd[r].task \in Minted
    /\ tasks[cmd[r].task] = NULL

\* Whoever was told TASK_NOT_FOUND, worker, job or caller, named such a task.
MissedGone ==
    /\ \A w \in Worker : stage[w] = "notFound" => Gone(holds[w])
    /\ \A r \in Request : job[r] = "notFound" => Gone(r)
    /\ \A r \in Request : call[r] = "notFound" /\ cmd[r] # NULL => Gone(r)

\* An id once produced stays produced.
LEMMA MintedKept ==
    ASSUME TypeInv, [Next]_vars, NEW t \in Minted
    PROVE  t \in Minted'
<1>1. PICK i \in DOMAIN commits : t = commits[i].task
  BY DEF Minted
<1>2. i \in DOMAIN commits' /\ t = commits'[i].task
  BY <1>1, CommitsKept
<1> QED
  BY <1>2 DEF Minted

\* A task that is gone stays gone: only a creation inserts, under a new id.
LEMMA AbsentStays ==
    ASSUME TypeInv, [Next]_vars, NEW t \in Task, t \in Minted, tasks[t] = NULL
    PROVE  tasks'[t] = NULL
<1>1. ASSUME NEW w \in Worker, HandleCreate(w)
      PROVE  tasks'[t] = NULL
  BY <1>1 DEF HandleCreate, TypeInv, TypeOK
<1>2. ASSUME NEW w \in Worker, HandleUpdate(w)
      PROVE  tasks'[t] = NULL
  BY <1>2, WorkInHand DEF HandleUpdate, TypeInv, TypeOK
<1>3. ASSUME NEW w \in Worker, HandleDelete(w)
      PROVE  tasks'[t] = NULL
  BY <1>3, WorkInHand DEF HandleDelete, TypeInv, TypeOK
<1>4. CASE DeleteTeam
  BY <1>4 DEF DeleteTeam
<1>5. CASE UNCHANGED <<tasks, log, commits>>
  BY <1>5
<1> QED
  BY <1>1, <1>2, <1>3, <1>4, <1>5, TableSteps

\* Only authorization sets a request's command, before anything else happens.
LEMMA CommandSteps ==
    ASSUME TypeInv, [Next]_vars
    PROVE  \/ UNCHANGED cmd
           \/ \E r \in Request : \E c \in Command : Authorize(r, c)
<1>1. ASSUME NEW w \in Worker, NEW t \in Task,
             NEW k \in {"created", "updated", "deleted"}, NEW v \in Nat,
             Commits(w, t, k, v)
      PROVE  UNCHANGED cmd
  BY <1>1 DEF Commits, calls
<1>2. ASSUME NEW w \in Worker,
             \/ Fails(w) \/ Misses(w) \/ Selects(w) \/ Take(w) \/ Publish(w)
             \/ Settle(w) \/ Crash(w) \/ Restart(w)
      PROVE  UNCHANGED cmd
  BY <1>2 DEF Fails, Misses, Selects, Take, Publish, Settle, Crash, Restart, calls
<1>3. ASSUME NEW r \in Request,
             Reject(r) \/ Dispatch(r) \/ Deliver(r) \/ Timeout(r) \/ RecoverStalled(r)
      PROVE  UNCHANGED cmd
  BY <1>3 DEF Reject, Dispatch, Deliver, Timeout, RecoverStalled, calls
<1>4. ASSUME DeleteTeam \/ UNCHANGED vars
      PROVE  UNCHANGED cmd
  BY <1>4 DEF DeleteTeam, vars, calls
<1> QED
  BY <1>1, <1>2, <1>3, <1>4, StepKinds

\* A request is admitted by the permission check and by nothing else.
LEMMA AdmittedSteps ==
    ASSUME TypeInv, [Next]_vars, NEW q \in Request, Admitted(q)'
    PROVE  \/ Admitted(q)
           \/ \E c \in Command : Authorize(q, c) /\ Found(c)
<1> USE DEF Admitted
<1>1. CASE UNCHANGED <<call, job>>
  BY <1>1
<1>2. ASSUME NEW w \in Worker, NEW t \in Task,
             NEW k \in {"created", "updated", "deleted"}, NEW v \in Nat,
             Commits(w, t, k, v)
      PROVE  UNCHANGED <<call, job>>
  BY <1>2 DEF Commits, calls, bull
<1>3. ASSUME NEW w \in Worker,
             Fails(w) \/ Misses(w) \/ Selects(w) \/ Publish(w) \/ Crash(w) \/ Restart(w)
      PROVE  UNCHANGED <<call, job>>
  BY <1>3 DEF Fails, Misses, Selects, Publish, Crash, Restart, calls, bull
<1>4. ASSUME NEW w \in Worker, Take(w)
      PROVE  Admitted(q)
  <2>1. queue \in Seq(Request) /\ queue # <<>>
    BY <1>4 DEF Take, TypeInv, TypeOK
  <2>2. 1 \in DOMAIN queue /\ Head(queue) = queue[1]
    BY <2>1
  <2>3. job[Head(queue)] # "none"
    BY <2>2 DEF TypeInv, CommandsKept
  <2>4. call' = call /\ job' = [job EXCEPT ![Head(queue)] = "active"]
    BY <1>4 DEF Take, calls
  <2> QED
    BY <2>3, <2>4 DEF TypeInv, TypeOK
<1>5. ASSUME NEW w \in Worker, Settle(w)
      PROVE  Admitted(q)
  <2>1. job[holds[w]] # "none"
    BY <1>5 DEF Settle, TypeInv, WorkersReady, Busy
  <2>2. call' = call /\ job' = [job EXCEPT ![holds[w]] = stage[w]]
    BY <1>5 DEF Settle, calls
  <2> QED
    BY <2>1, <2>2 DEF TypeInv, TypeOK
<1>6. ASSUME NEW r \in Request, NEW c \in Command, Authorize(r, c)
      PROVE  Admitted(q) \/ (Authorize(q, c) /\ Found(c))
  <2>1. CASE q = r
    BY <1>6, <2>1 DEF Authorize, bull, TypeInv, TypeOK
  <2>2. CASE q # r
    BY <1>6, <2>2 DEF Authorize, bull, TypeInv, TypeOK
  <2> QED
    BY <2>1, <2>2
<1>7. ASSUME NEW r \in Request, Dispatch(r)
      PROVE  Admitted(q)
  BY <1>7 DEF Dispatch, TypeInv, TypeOK
<1>8. ASSUME NEW r \in Request, Reject(r) \/ Deliver(r) \/ Timeout(r)
      PROVE  Admitted(q)
  <2>1. PICK s \in {"ok", "notFound", "error", "rejected", "timeout"} :
           call' = [call EXCEPT ![r] = s]
    BY <1>8 DEF Reject, Deliver, Timeout, Answer, Settled
  <2>2. job' = job
    BY <1>8 DEF Reject, Deliver, Timeout, bull
  <2> QED
    BY <2>1, <2>2 DEF TypeInv, TypeOK
<1>9. ASSUME NEW r \in Request, RecoverStalled(r)
      PROVE  Admitted(q)
  <2>1. PICK s \in {"wait", "error"} : job' = [job EXCEPT ![r] = s]
    BY <1>9 DEF RecoverStalled
  <2>2. call' = call /\ job[r] = "active"
    BY <1>9 DEF RecoverStalled, calls
  <2> QED
    BY <2>1, <2>2 DEF TypeInv, TypeOK
<1>10. ASSUME DeleteTeam \/ UNCHANGED vars
       PROVE  UNCHANGED <<call, job>>
  BY <1>10 DEF DeleteTeam, vars, calls, bull
<1> QED
  BY <1>1, <1>2, <1>3, <1>4, <1>5, <1>6, <1>7, <1>8, <1>9, <1>10, StepKinds

\* The permission check found the task of the command it lets through.
LEMMA NextNamesMinted ==
    ASSUME TypeInv, TasksMinted, NamesMinted, [Next]_vars
    PROVE  NamesMinted'
<1> SUFFICES ASSUME NEW q \in Request, Admitted(q)', cmd'[q].type # "create"
             PROVE  cmd'[q].task \in Minted'
  BY DEF NamesMinted
<1>1. CASE Admitted(q)
  <2>1. call[q] # "new"
    BY <1>1 DEF Admitted, TypeInv, CommandsKept
  <2>2. cmd'[q] = cmd[q]
    BY <2>1, CommandSteps DEF Authorize, TypeInv, TypeOK
  <2> QED
    BY <1>1, <2>2, MintedKept DEF NamesMinted
<1>2. ASSUME NEW c \in Command, Authorize(q, c), Found(c)
      PROVE  cmd'[q].task \in Minted'
  <2>1. cmd'[q] = c
    BY <1>2 DEF Authorize, TypeInv, TypeOK
  <2>2. c.task \in Task /\ tasks[c.task] # NULL
    BY <1>2, <2>1 DEF Found, Command
  <2>3. c.task \in Minted
    BY <2>2 DEF TasksMinted
  <2> QED
    BY <2>1, <2>3, MintedKept
<1> QED
  BY <1>1, <1>2, AdmittedSteps

\* Every step keeps a task gone whose absence was reported.
LEMMA GoneKept ==
    ASSUME TypeInv, [Next]_vars, NEW r \in Request, cmd[r] \in Command, Gone(r),
           cmd'[r] = cmd[r]
    PROVE  Gone(r)'
<1>1. cmd[r].task \in Task
  BY DEF Gone, Command
<1>2. cmd[r].task \in Minted' /\ tasks'[cmd[r].task] = NULL
  BY <1>1, MintedKept, AbsentStays DEF Gone
<1> QED
  BY <1>2 DEF Gone

\* Nothing but a missing row makes a worker report one, and nothing but that
\* report reaches the caller as a 404.
LEMMA NextMissedGone ==
    ASSUME TypeInv, NamesMinted, MissedGone, [Next]_vars
    PROVE  MissedGone'
<1> USE DEF MissedGone
\* Requests whose command stays: those with a job, and those that were answered.
<1>1. ASSUME NEW q \in Request, Gone(q), cmd[q] \in Command,
             call[q] # "new"
      PROVE  Gone(q)'
  <2>1. cmd'[q] = cmd[q]
    BY <1>1, CommandSteps DEF Authorize, TypeInv, TypeOK
  <2> QED
    BY <1>1, <2>1, GoneKept
<1>2. \A q \in Request : job[q] # "none" => cmd[q] \in Command /\ call[q] # "new"
  BY DEF TypeInv, CommandsKept
<1>3. ASSUME NEW w \in Worker, stage[w] = "notFound", NEW q \in Request, q = holds[w]
      PROVE  Gone(q)'
  <2>1. job[q] # "none" /\ Gone(q)
    BY <1>3 DEF TypeInv, WorkersReady, Busy, Settled
  <2> QED
    BY <1>1, <1>2, <2>1
<1>4. \A q \in Request : job[q] = "notFound" => Gone(q)'
  BY <1>1, <1>2
<1>5. \A q \in Request : call[q] = "notFound" /\ cmd[q] # NULL => Gone(q)'
  BY <1>1 DEF TypeInv, TypeOK
<1>6. ASSUME NEW x \in Worker, stage'[x] = "notFound"
      PROVE  Gone(holds[x])'
  <2>1. CASE stage[x] = "notFound" /\ holds'[x] = holds[x]
    <3>1. holds[x] \in Request
      BY <2>1 DEF TypeInv, WorkersReady, Busy, Settled
    <3> QED
      BY <1>3, <2>1, <3>1 DEF Gone
  <2>2. CASE Misses(x)
    <3>1. holds[x] \in Request /\ job[holds[x]] # "none"
      BY <2>2 DEF Misses, TypeInv, WorkersReady, Busy
    <3>2. Gone(holds[x])
      BY <2>2, <3>1 DEF Misses, Gone, NamesMinted, Admitted
    <3>3. UNCHANGED <<tasks, commits, cmd, holds>>
      BY <2>2 DEF Misses, database, calls, history
    <3> QED
      BY <3>2, <3>3 DEF Gone, Minted
  <2>3. ASSUME NEW w \in Worker, NEW t \in Task,
               NEW k \in {"created", "updated", "deleted"}, NEW v \in Nat,
               Commits(w, t, k, v)
        PROVE  stage[x] = "notFound" /\ holds'[x] = holds[x]
    BY <1>6, <2>3 DEF Commits, Committed, Enter, TypeInv, TypeOK
  <2>4. ASSUME NEW w \in Worker, Misses(w)
        PROVE  Misses(x) \/ (stage[x] = "notFound" /\ holds'[x] = holds[x])
    BY <1>6, <2>4 DEF Misses, Enter, TypeInv, TypeOK
  <2>5. ASSUME NEW w \in Worker, Fails(w) \/ Selects(w) \/ Publish(w) \/ Restart(w)
        PROVE  stage[x] = "notFound" /\ holds'[x] = holds[x]
    BY <1>6, <2>5 DEF Fails, Selects, Publish, Restart, Enter, TypeInv, TypeOK
  <2>6. ASSUME NEW w \in Worker, Take(w) \/ Settle(w) \/ Crash(w)
        PROVE  stage[x] = "notFound" /\ holds'[x] = holds[x]
    <3>1. PICK s \in {"start", "idle", "down"} : stage' = [stage EXCEPT ![w] = s]
      BY <2>6 DEF Take, Settle, Crash, Enter
    <3>2. \A y \in Worker \ {w} : holds'[y] = holds[y]
      BY <2>6 DEF Take, Settle, Crash, LetGo, TypeInv, TypeOK
    <3> QED
      BY <1>6, <3>1, <3>2 DEF TypeInv, TypeOK
  <2>7. ASSUME NEW r \in Request, NEW c \in Command, Authorize(r, c)
        PROVE  stage[x] = "notFound" /\ holds'[x] = holds[x]
    BY <1>6, <2>7 DEF Authorize, workers
  <2>8. ASSUME NEW r \in Request,
               Reject(r) \/ Dispatch(r) \/ Deliver(r) \/ Timeout(r) \/ RecoverStalled(r)
        PROVE  stage[x] = "notFound" /\ holds'[x] = holds[x]
    BY <1>6, <2>8 DEF Reject, Dispatch, Deliver, Timeout, RecoverStalled, workers
  <2>9. ASSUME DeleteTeam \/ UNCHANGED vars
        PROVE  stage[x] = "notFound" /\ holds'[x] = holds[x]
    BY <1>6, <2>9 DEF DeleteTeam, vars, workers
  <2> QED
    BY <2>1, <2>2, <2>3, <2>4, <2>5, <2>6, <2>7, <2>8, <2>9, StepKinds
<1>7. ASSUME NEW q \in Request, job'[q] = "notFound"
      PROVE  Gone(q)'
  <2>1. ASSUME NEW w \in Worker, Settle(w)
        PROVE  job[q] = "notFound" \/ (stage[w] = "notFound" /\ q = holds[w])
    <3>1. holds[w] \in Request
      BY <2>1 DEF Settle, TypeInv, WorkersReady, Busy
    <3>2. job' = [job EXCEPT ![holds[w]] = stage[w]]
      BY <2>1 DEF Settle
    <3> QED
      BY <1>7, <3>1, <3>2 DEF TypeInv, TypeOK
  <2>2. ASSUME NEW w \in Worker, Take(w)
        PROVE  job[q] = "notFound"
    BY <1>7, <2>2 DEF Take, TypeInv, TypeOK
  <2>3. ASSUME NEW r \in Request, Dispatch(r) \/ RecoverStalled(r)
        PROVE  job[q] = "notFound"
    <3>1. PICK s \in {"wait", "error"} : job' = [job EXCEPT ![r] = s]
      BY <2>3 DEF Dispatch, RecoverStalled
    <3> QED
      BY <1>7, <3>1 DEF TypeInv, TypeOK
  <2>4. ASSUME NEW w \in Worker, NEW t \in Task,
               NEW k \in {"created", "updated", "deleted"}, NEW v \in Nat,
               Commits(w, t, k, v)
        PROVE  job[q] = "notFound"
    BY <1>7, <2>4 DEF Commits, bull
  <2>5. ASSUME NEW w \in Worker,
               \/ Fails(w) \/ Misses(w) \/ Selects(w) \/ Publish(w) \/ Crash(w)
               \/ Restart(w)
        PROVE  job[q] = "notFound"
    BY <1>7, <2>5 DEF Fails, Misses, Selects, Publish, Crash, Restart, bull
  <2>6. ASSUME NEW r \in Request, NEW c \in Command, Authorize(r, c)
        PROVE  job[q] = "notFound"
    BY <1>7, <2>6 DEF Authorize, bull
  <2>7. ASSUME NEW r \in Request, Reject(r) \/ Deliver(r) \/ Timeout(r)
        PROVE  job[q] = "notFound"
    BY <1>7, <2>7 DEF Reject, Deliver, Timeout, bull
  <2>8. ASSUME DeleteTeam \/ UNCHANGED vars
        PROVE  job[q] = "notFound"
    BY <1>7, <2>8 DEF DeleteTeam, vars, bull
  <2>9. \/ job[q] = "notFound"
        \/ \E w \in Worker : stage[w] = "notFound" /\ q = holds[w]
    BY <2>1, <2>2, <2>3, <2>4, <2>5, <2>6, <2>7, <2>8, StepKinds
  <2> QED
    BY <1>3, <1>4, <2>9
<1>8. ASSUME NEW q \in Request, call'[q] = "notFound", cmd'[q] # NULL
      PROVE  Gone(q)'
  <2>1. CASE call[q] = "notFound"
    <3>1. cmd'[q] = cmd[q]
      BY <2>1, CommandSteps DEF Authorize, TypeInv, TypeOK
    <3> QED
      BY <1>5, <1>8, <2>1, <3>1
  <2>2. ASSUME NEW r \in Request, Deliver(r)
        PROVE  call[q] = "notFound" \/ job[q] = "notFound"
    BY <1>8, <2>2 DEF Deliver, Answer, Settled, TypeInv, TypeOK
  <2>3. ASSUME NEW r \in Request, NEW c \in Command, Authorize(r, c)
        PROVE  call[q] = "notFound"
    BY <1>8, <2>3 DEF Authorize, TypeInv, TypeOK
  <2>4. ASSUME NEW r \in Request, Reject(r) \/ Dispatch(r) \/ Timeout(r)
        PROVE  call[q] = "notFound"
    <3>1. PICK s \in {"rejected", "waiting", "timeout"} : call' = [call EXCEPT ![r] = s]
      BY <2>4 DEF Reject, Dispatch, Timeout
    <3> QED
      BY <1>8, <3>1 DEF TypeInv, TypeOK
  <2>5. ASSUME NEW r \in Request, RecoverStalled(r)
        PROVE  call[q] = "notFound"
    BY <1>8, <2>5 DEF RecoverStalled, calls
  <2>6. ASSUME NEW w \in Worker, NEW t \in Task,
               NEW k \in {"created", "updated", "deleted"}, NEW v \in Nat,
               Commits(w, t, k, v)
        PROVE  call[q] = "notFound"
    BY <1>8, <2>6 DEF Commits, calls
  <2>7. ASSUME NEW w \in Worker,
               \/ Fails(w) \/ Misses(w) \/ Selects(w) \/ Take(w) \/ Publish(w)
               \/ Settle(w) \/ Crash(w) \/ Restart(w)
        PROVE  call[q] = "notFound"
    BY <1>8, <2>7 DEF Fails, Misses, Selects, Take, Publish, Settle, Crash, Restart,
       calls
  <2>8. ASSUME DeleteTeam \/ UNCHANGED vars
        PROVE  call[q] = "notFound"
    BY <1>8, <2>8 DEF DeleteTeam, vars, calls
  <2>9. call[q] = "notFound" \/ job[q] = "notFound"
    BY <2>2, <2>3, <2>4, <2>5, <2>6, <2>7, <2>8, StepKinds
  <2> QED
    BY <1>4, <2>1, <2>9
<1> QED
  BY <1>6, <1>7, <1>8

\* With any number of workers, a caller told 404 after its command was queued
\* asked for a task that is gone for ever, and never for a creation.
THEOREM NotFoundMeansGone == Spec => []NotFoundIsFinal
<1> DEFINE Inv == TypeInv /\ TasksMinted /\ NamesMinted /\ MissedGone
<1>1. Init => Inv
  <2>1. Init => NamesMinted /\ MissedGone
    BY DEF Init, NamesMinted, MissedGone, Admitted
  <2> QED
    BY <2>1, InitTypeInv, InitSerialInv DEF SerialInv
<1>2. Inv /\ [Next]_vars => Inv'
  BY NextTypeInv, NextTasksMinted, NextNamesMinted, NextMissedGone
<1>3. Inv => NotFoundIsFinal
  BY DEF MissedGone, Gone, NotFoundIsFinal
<1> QED
  BY <1>1, <1>2, <1>3, PTL DEF Spec

-----------------------------------------------------------------------------
(* A command runs once, and once more for every stall.                     *)

\* A job is in the wait list at most once, or in the hands of one worker.
JobTokens ==
    /\ \A i \in DOMAIN queue : job[queue[i]] = "wait"
    /\ \A i, j \in DOMAIN queue : queue[i] = queue[j] => i = j
    /\ \A w \in Worker : stage[w] \in Busy => job[holds[w]] = "active"
    /\ \A v, w \in Worker :
          stage[v] \in Busy /\ stage[w] \in Busy /\ holds[v] = holds[w] => v = w

\* BullMQ's scripts move a job from one place to another.
LEMMA NextJobTokens ==
    ASSUME TypeInv, JobTokens, [Next]_vars
    PROVE  JobTokens'
<1> USE DEF JobTokens
<1>q. queue \in Seq(Request) /\ \A i \in DOMAIN queue : queue[i] \in Request
  BY DEF TypeInv, TypeOK
<1>h. \A w \in Worker : stage[w] \in Busy => holds[w] \in Request
  BY DEF TypeInv, WorkersReady
<1>1. ASSUME NEW w \in Worker, NEW s \in Busy, stage[w] \in Busy,
             stage' = [stage EXCEPT ![w] = s], UNCHANGED <<queue, job, holds>>
      PROVE  JobTokens'
  <2>1. \A x \in Worker : stage'[x] \in Busy <=> stage[x] \in Busy
    BY <1>1 DEF TypeInv, TypeOK
  <2> QED
    BY <1>1, <2>1
<1>2. ASSUME NEW w \in Worker, NEW t \in Task,
             NEW k \in {"created", "updated", "deleted"}, NEW v \in Nat,
             Commits(w, t, k, v)
      PROVE  JobTokens'
  <2>1. stage[w] \in Busy /\ "publish" \in Busy
    BY <1>2 DEF Commits, Busy
  <2>2. stage' = [stage EXCEPT ![w] = "publish"] /\ UNCHANGED <<queue, job, holds>>
    BY <1>2 DEF Commits, Committed, Enter, bull
  <2> QED
    BY <1>1, <2>1, <2>2
<1>3. ASSUME NEW w \in Worker, Fails(w) \/ Misses(w) \/ Selects(w) \/ Publish(w)
      PROVE  JobTokens'
  <2>1. stage[w] \in Busy
    BY <1>3 DEF Fails, Misses, Selects, Publish, Busy
  <2>2. PICK s \in {"error", "notFound", "read", "completed"} :
           stage' = [stage EXCEPT ![w] = s]
    BY <1>3 DEF Fails, Misses, Selects, Publish, Enter
  <2>3. s \in Busy
    BY DEF Busy, Settled
  <2>4. UNCHANGED <<queue, job, holds>>
    BY <1>3 DEF Fails, Misses, Selects, Publish, bull
  <2> QED
    BY <1>1, <2>1, <2>2, <2>3, <2>4
<1>4. ASSUME NEW w \in Worker, Take(w)
      PROVE  JobTokens'
  <2>1. queue # <<>> /\ queue' = Tail(queue) /\ stage[w] = "idle"
    BY <1>4 DEF Take
  <2>2. PICK h \in Request : h = Head(queue) /\ h = queue[1]
    BY <1>q, <2>1, HeadTailProperties
  <2>3. /\ job' = [job EXCEPT ![h] = "active"]
        /\ holds' = [holds EXCEPT ![w] = h]
        /\ stage' = [stage EXCEPT ![w] = "start"]
    BY <1>4, <2>2 DEF Take, Enter
  <2>4. /\ 1 \in DOMAIN queue
        /\ \A i \in DOMAIN queue' : i + 1 \in DOMAIN queue /\ i # 0 /\ i \in Nat
                                    /\ queue'[i] = queue[i + 1]
    BY <1>q, <2>1, HeadTailProperties
  <2>5. job[h] = "wait" /\ \A i \in DOMAIN queue' : queue'[i] # h
    BY <2>2, <2>4
  <2>6. \A i \in DOMAIN queue' : job'[queue'[i]] = "wait"
    BY <1>q, <2>3, <2>4, <2>5 DEF TypeInv, TypeOK
  <2>7. \A i, j \in DOMAIN queue' : queue'[i] = queue'[j] => i = j
    BY <2>4
  <2>8. ASSUME NEW x \in Worker, x # w, stage'[x] \in Busy
        PROVE  stage[x] \in Busy /\ holds'[x] = holds[x] /\ holds[x] # h
    BY <2>3, <2>5, <2>8 DEF TypeInv, TypeOK
  <2>9. holds'[w] = h /\ job'[h] = "active"
    BY <2>3 DEF TypeInv, TypeOK
  <2>10. ASSUME NEW x \in Worker, stage'[x] \in Busy
         PROVE  job'[holds'[x]] = "active"
    <3>1. CASE x = w
      BY <2>9, <3>1
    <3>2. CASE x # w
      BY <1>h, <2>3, <2>8, <2>10, <3>2 DEF TypeInv, TypeOK
    <3> QED
      BY <3>1, <3>2
  <2>11. ASSUME NEW x \in Worker, NEW y \in Worker, stage'[x] \in Busy,
                stage'[y] \in Busy, holds'[x] = holds'[y]
         PROVE  x = y
    BY <2>8, <2>9, <2>11
  <2> QED
    BY <2>6, <2>7, <2>10, <2>11
<1>5. ASSUME NEW w \in Worker, Settle(w)
      PROVE  JobTokens'
  <2>1. PICK h \in Request : h = holds[w] /\ job[h] = "active"
    BY <1>5, <1>h DEF Settle, Busy
  <2>2. /\ job' = [job EXCEPT ![h] = stage[w]]
        /\ holds' = [holds EXCEPT ![w] = NULL]
        /\ stage' = [stage EXCEPT ![w] = "idle"]
        /\ queue' = queue
    BY <1>5, <2>1 DEF Settle, Enter, LetGo
  <2>3. stage[w] \in Busy /\ "idle" \notin Busy
    BY <1>5 DEF Settle, Busy, Settled
  <2>4. ASSUME NEW x \in Worker, stage'[x] \in Busy
        PROVE  x # w /\ stage[x] \in Busy /\ holds'[x] = holds[x] /\ holds[x] # h
    BY <2>1, <2>2, <2>3, <2>4 DEF TypeInv, TypeOK
  <2>5. \A i \in DOMAIN queue : queue[i] # h
    BY <2>1
  <2>6. \A i \in DOMAIN queue' : job'[queue'[i]] = "wait"
    BY <1>q, <2>2, <2>5 DEF TypeInv, TypeOK
  <2>7. \A x \in Worker : stage'[x] \in Busy => job'[holds'[x]] = "active"
    BY <1>h, <2>2, <2>4 DEF TypeInv, TypeOK
  <2> QED
    BY <2>2, <2>4, <2>6, <2>7
<1>6. ASSUME NEW w \in Worker, Crash(w) \/ Restart(w)
      PROVE  JobTokens'
  <2>1. PICK s \in {"down", "idle"} : stage' = [stage EXCEPT ![w] = s]
    BY <1>6 DEF Crash, Restart, Enter
  <2>2. s \notin Busy
    BY DEF Busy, Settled
  <2>3. UNCHANGED <<queue, job>> /\ \A x \in Worker \ {w} : holds'[x] = holds[x]
    BY <1>6 DEF Crash, Restart, LetGo, bull, TypeInv, TypeOK
  <2>4. \A x \in Worker : stage'[x] \in Busy =>
                             stage[x] \in Busy /\ holds'[x] = holds[x]
    BY <2>1, <2>2, <2>3 DEF TypeInv, TypeOK
  <2> QED
    BY <2>3, <2>4
<1>7. ASSUME NEW r \in Request, Dispatch(r)
      PROVE  JobTokens'
  <2>1. job[r] = "none"
    BY <1>7 DEF Dispatch, TypeInv, CommandsKept
  <2>2. /\ queue' = Append(queue, r) /\ job' = [job EXCEPT ![r] = "wait"]
        /\ UNCHANGED <<stage, holds>>
    BY <1>7 DEF Dispatch, workers
  <2>3. /\ DOMAIN queue' = 1..(Len(queue) + 1) /\ Len(queue) \in Nat
        /\ DOMAIN queue = 1..Len(queue)
        /\ \A i \in 1..Len(queue) : queue'[i] = queue[i]
        /\ queue'[Len(queue) + 1] = r
    BY <1>q, <2>2, AppendProperties, LenProperties
  <2>4. \A i \in DOMAIN queue : queue[i] # r
    BY <2>1
  <2>5. \A i \in DOMAIN queue' : job'[queue'[i]] = "wait"
    <3>1. job'[r] = "wait" /\ \A i \in DOMAIN queue : job'[queue[i]] = "wait"
      BY <1>q, <2>2, <2>4 DEF TypeInv, TypeOK
    <3>2. \A i \in DOMAIN queue' :
             queue'[i] = r \/ \E j \in DOMAIN queue : queue'[i] = queue[j]
      BY <2>3
    <3> QED
      BY <3>1, <3>2
  <2>6. \A i, j \in DOMAIN queue' : queue'[i] = queue'[j] => i = j
    BY <2>3, <2>4
  <2>7. \A w \in Worker : stage'[w] \in Busy => job'[holds'[w]] = "active"
    BY <1>h, <2>1, <2>2 DEF TypeInv, TypeOK
  <2> QED
    BY <2>2, <2>5, <2>6, <2>7
<1>8. ASSUME NEW r \in Request, RecoverStalled(r)
      PROVE  JobTokens'
  <2>1. job[r] = "active" /\ (\A w \in Worker : holds[w] # r)
        /\ UNCHANGED <<stage, holds>>
    BY <1>8 DEF RecoverStalled, workers
  <2>2. \A i \in DOMAIN queue : queue[i] # r
    BY <2>1
  <2>3. \A s : job' = [job EXCEPT ![r] = s] =>
           \A w \in Worker : stage'[w] \in Busy => job'[holds'[w]] = "active"
    BY <1>h, <2>1 DEF TypeInv, TypeOK
  <2>4. CASE queue' = <<r>> \o queue /\ job' = [job EXCEPT ![r] = "wait"]
    <3>1. <<r>> \in Seq(Request) /\ Len(<<r>>) = 1 /\ <<r>>[1] = r
      OBVIOUS
    <3>2. Len(<<r>> \o queue) = 1 + Len(queue) /\ <<r>> \o queue \in Seq(Request)
      BY <1>q, <3>1, ConcatProperties
    <3>3. ASSUME NEW i \in 1..(1 + Len(queue))
          PROVE  (<<r>> \o queue)[i] = IF i <= 1 THEN <<r>>[i] ELSE queue[i - 1]
      BY <1>q, <3>1, ConcatProperties
    <3>4. /\ DOMAIN queue' = 1..(1 + Len(queue)) /\ Len(queue) \in Nat
          /\ DOMAIN queue = 1..Len(queue)
          /\ queue'[1] = r
          /\ \A i \in 2..(1 + Len(queue)) : queue'[i] = queue[i - 1]
      BY <1>q, <2>4, <3>1, <3>2, <3>3
    <3>5. \A i \in DOMAIN queue' : job'[queue'[i]] = "wait"
      BY <1>q, <2>2, <2>4, <3>4 DEF TypeInv, TypeOK
    <3>6. \A i, j \in DOMAIN queue' : queue'[i] = queue'[j] => i = j
      <4>1. ASSUME NEW i \in DOMAIN queue', i # 1
            PROVE  i - 1 \in DOMAIN queue /\ i \in Nat /\ queue'[i] = queue[i - 1]
        BY <3>4, <4>1
      <4>2. ASSUME NEW i \in DOMAIN queue', NEW j \in DOMAIN queue',
                   queue'[i] = queue'[j]
            PROVE  i = j
        <5>1. CASE i = 1 \/ j = 1
          BY <2>2, <3>4, <4>1, <4>2, <5>1
        <5>2. CASE i # 1 /\ j # 1
          <6>1. i - 1 = j - 1
            BY <4>1, <4>2, <5>2
          <6> QED
            BY <4>1, <5>2, <6>1
        <5> QED
          BY <5>1, <5>2
      <4> QED
        BY <4>2
    <3> QED
      BY <2>1, <2>3, <2>4, <3>5, <3>6
  <2>5. CASE queue' = queue /\ job' = [job EXCEPT ![r] = "error"]
    <3>1. \A i \in DOMAIN queue' : job'[queue'[i]] = "wait"
      BY <1>q, <2>2, <2>5 DEF TypeInv, TypeOK
    <3> QED
      BY <2>1, <2>3, <2>5, <3>1
  <2> QED
    BY <1>8, <2>4, <2>5 DEF RecoverStalled
<1>9. ASSUME UNCHANGED <<queue, job, stage, holds>>
      PROVE  JobTokens'
  BY <1>9
<1>10. ASSUME NEW r \in Request, NEW c \in Command, Authorize(r, c)
       PROVE  JobTokens'
  BY <1>9, <1>10 DEF Authorize, bull, workers
<1>11. ASSUME NEW r \in Request, Reject(r) \/ Deliver(r) \/ Timeout(r)
       PROVE  JobTokens'
  BY <1>9, <1>11 DEF Reject, Deliver, Timeout, bull, workers
<1>12. ASSUME DeleteTeam \/ UNCHANGED vars
       PROVE  JobTokens'
  BY <1>9, <1>12 DEF DeleteTeam, vars, bull, workers
<1> QED
  BY <1>2, <1>3, <1>4, <1>5, <1>6, <1>7, <1>8, <1>10, <1>11, <1>12, StepKinds

\* What the commits of a request are, as a set of places in the history.
LEMMA RunsFinite ==
    ASSUME TypeInv, NEW r
    PROVE  IsFiniteSet(Runs(r)) /\ Cardinality(Runs(r)) \in Nat
<1>1. Runs(r) \subseteq 1..Len(commits) /\ Len(commits) \in Nat
  <2>1. commits \in Seq(Commit)
    BY DEF TypeInv, TypeOK, Commit
  <2>2. DOMAIN commits = 1..Len(commits) /\ Len(commits) \in Nat
    BY <2>1, LenProperties
  <2> QED
    BY <2>2 DEF Runs
<1>2. IsFiniteSet(1..Len(commits))
  BY <1>1, FS_Interval
<1>3. IsFiniteSet(Runs(r))
  BY <1>1, <1>2, FS_Subset
<1> QED
  BY <1>3, FS_CardinalityType

\* A commit is one more run of the request the worker holds.
LEMMA RunsGrow ==
    ASSUME TypeInv, NEW w \in Worker, NEW t \in Task,
           NEW k \in {"created", "updated", "deleted"}, NEW v \in Nat,
           Commits(w, t, k, v), NEW r
    PROVE  /\ r # holds[w] => Runs(r)' = Runs(r)
           /\ r = holds[w] => Cardinality(Runs(r)') = Cardinality(Runs(r)) + 1
<1>1. PICK n \in DOMAIN commits' : RecordedAt(n, w, t, k, v)
  BY CommitAppends
<1>2. \A i \in DOMAIN commits : commits'[i] = commits[i]
  BY CommitAppends
<1>3. /\ DOMAIN commits' = DOMAIN commits \cup {n} /\ n \notin DOMAIN commits
      /\ commits'[n].req = holds[w]
  BY <1>1 DEF RecordedAt
<1>4. Runs(r)' = {i \in DOMAIN commits' : commits'[i].req = r}
  BY DEF Runs
<1>5. CASE r # holds[w]
  BY <1>2, <1>3, <1>4, <1>5 DEF Runs
<1>6. CASE r = holds[w]
  <2>1. Runs(r)' = Runs(r) \cup {n} /\ n \notin Runs(r)
    BY <1>2, <1>3, <1>4, <1>6 DEF Runs
  <2>2. Cardinality(Runs(r) \cup {n}) = Cardinality(Runs(r)) + 1
    BY <2>1, RunsFinite, FS_AddElement
  <2> QED
    BY <1>6, <2>1, <2>2
<1> QED
  BY <1>5, <1>6

\* A job that waits, or whose worker has not committed yet.
Pending(r) ==
    \/ job[r] = "wait"
    \/ \E w \in Worker : stage[w] \in {"start", "read"} /\ holds[w] = r

\* Before a job runs, every run it had before was followed by a stall.
Budgeted ==
    /\ \A r \in Request : job[r] = "none" => Cardinality(Runs(r)) = 0
    /\ \A r \in Request : Pending(r) => Cardinality(Runs(r)) <= stalls[r]
    /\ \A r \in Request : Cardinality(Runs(r)) <= 1 + stalls[r]

\* A job becomes pending when it is added and when the stalled check finds it.
LEMMA PendingSteps ==
    ASSUME TypeInv, JobTokens, [Next]_vars, UNCHANGED commits, NEW q \in Request
    PROVE  /\ job'[q] = "none" => job[q] = "none"
           /\ stalls[q] <= stalls'[q]
           /\ Pending(q)' => \/ Pending(q)
                             \/ job[q] = "none"
                             \/ stalls'[q] = stalls[q] + 1
<1> DEFINE Goal == /\ job'[q] = "none" => job[q] = "none"
                   /\ stalls[q] <= stalls'[q]
                   /\ Pending(q)' => \/ Pending(q)
                                     \/ job[q] = "none"
                                     \/ stalls'[q] = stalls[q] + 1
<1>0. stalls[q] \in Nat /\ stalls[q] <= stalls[q]
  BY DEF TypeInv, TypeOK
<1>1. ASSUME NEW w \in Worker, NEW t \in Task,
             NEW k \in {"created", "updated", "deleted"}, NEW v \in Nat,
             Commits(w, t, k, v)
      PROVE  FALSE
  <2>1. PICK n \in DOMAIN commits' : RecordedAt(n, w, t, k, v)
    BY <1>1, CommitAppends
  <2> QED
    BY <2>1 DEF RecordedAt
<1>2. ASSUME NEW w \in Worker, Fails(w) \/ Misses(w) \/ Publish(w) \/ Restart(w)
      PROVE  Goal
  <2>1. PICK s \in {"error", "notFound", "completed", "idle"} :
           stage' = [stage EXCEPT ![w] = s]
    BY <1>2 DEF Fails, Misses, Publish, Restart, Enter
  <2>2. UNCHANGED <<job, stalls, holds>>
    BY <1>2 DEF Fails, Misses, Publish, Restart, bull
  <2> QED
    BY <1>0, <2>1, <2>2 DEF Pending, TypeInv, TypeOK
<1>3. ASSUME NEW w \in Worker, Selects(w)
      PROVE  Goal
  <2>1. stage' = [stage EXCEPT ![w] = "read"] /\ stage[w] = "start"
    BY <1>3 DEF Selects, Enter
  <2>2. UNCHANGED <<job, stalls, holds>>
    BY <1>3 DEF Selects, bull
  <2> QED
    BY <1>0, <2>1, <2>2 DEF Pending, TypeInv, TypeOK
<1>4. ASSUME NEW w \in Worker, Take(w)
      PROVE  Goal
  <2>1. PICK h \in Request : h = Head(queue) /\ job[h] = "wait"
    <3>1. queue \in Seq(Request) /\ queue # <<>>
      BY <1>4 DEF Take, TypeInv, TypeOK
    <3>2. Head(queue) = queue[1] /\ 1 \in DOMAIN queue /\ Head(queue) \in Request
      BY <3>1
    <3> QED
      BY <1>4, <3>2 DEF JobTokens
  <2>2. /\ job' = [job EXCEPT ![h] = "active"]
        /\ holds' = [holds EXCEPT ![w] = h]
        /\ stage' = [stage EXCEPT ![w] = "start"]
        /\ stalls' = stalls
    BY <1>4, <2>1 DEF Take, Enter
  <2>3. job'[q] = "none" => job[q] = "none"
    BY <2>2 DEF TypeInv, TypeOK
  <2>4. Pending(q)' => Pending(q)
    BY <2>1, <2>2 DEF Pending, TypeInv, TypeOK
  <2> QED
    BY <1>0, <2>2, <2>3, <2>4
<1>5. ASSUME NEW w \in Worker, Settle(w)
      PROVE  Goal
  <2>1. /\ job' = [job EXCEPT ![holds[w]] = stage[w]]
        /\ holds' = [holds EXCEPT ![w] = NULL]
        /\ stage' = [stage EXCEPT ![w] = "idle"]
        /\ stalls' = stalls
        /\ stage[w] \in Settled
    BY <1>5 DEF Settle, Enter, LetGo
  <2>2. stage[w] # "none" /\ stage[w] # "wait"
    BY <2>1 DEF Settled
  <2>3. job'[q] = "none" => job[q] = "none"
    BY <2>1, <2>2 DEF TypeInv, TypeOK
  <2>4. Pending(q)' => Pending(q)
    BY <2>1, <2>2 DEF Pending, TypeInv, TypeOK
  <2> QED
    BY <1>0, <2>1, <2>3, <2>4
<1>6. ASSUME NEW w \in Worker, Crash(w)
      PROVE  Goal
  <2>1. /\ holds' = [holds EXCEPT ![w] = NULL]
        /\ stage' = [stage EXCEPT ![w] = "down"]
        /\ UNCHANGED <<job, stalls>>
    BY <1>6 DEF Crash, Enter, LetGo, bull
  <2> QED
    BY <1>0, <2>1 DEF Pending, TypeInv, TypeOK
<1>7. ASSUME NEW r \in Request, Dispatch(r)
      PROVE  Goal
  <2>1. job[r] = "none"
    BY <1>7 DEF Dispatch, TypeInv, CommandsKept
  <2>2. job' = [job EXCEPT ![r] = "wait"] /\ UNCHANGED <<stage, holds, stalls>>
    BY <1>7 DEF Dispatch, workers
  <2> QED
    BY <1>0, <2>1, <2>2 DEF Pending, TypeInv, TypeOK
<1>8. ASSUME NEW r \in Request, RecoverStalled(r)
      PROVE  Goal
  <2>1. PICK s \in {"wait", "error"} : job' = [job EXCEPT ![r] = s]
    BY <1>8 DEF RecoverStalled
  <2>2. stalls' = [stalls EXCEPT ![r] = @ + 1] /\ UNCHANGED <<stage, holds>>
    BY <1>8 DEF RecoverStalled, workers
  <2>3. CASE q = r
    BY <1>0, <2>1, <2>2, <2>3 DEF TypeInv, TypeOK
  <2>4. CASE q # r
    BY <1>0, <2>1, <2>2, <2>4 DEF Pending, TypeInv, TypeOK
  <2> QED
    BY <2>3, <2>4
<1>9. ASSUME UNCHANGED <<job, stalls, stage, holds>>
      PROVE  Goal
  BY <1>0, <1>9 DEF Pending
<1>10. ASSUME NEW r \in Request, NEW c \in Command, Authorize(r, c)
       PROVE  Goal
  BY <1>9, <1>10 DEF Authorize, bull, workers
<1>11. ASSUME NEW r \in Request, Reject(r) \/ Deliver(r) \/ Timeout(r)
       PROVE  Goal
  BY <1>9, <1>11 DEF Reject, Deliver, Timeout, bull, workers
<1>12. ASSUME DeleteTeam \/ UNCHANGED vars
       PROVE  Goal
  BY <1>9, <1>12 DEF DeleteTeam, vars, bull, workers
<1> QED
  BY <1>1, <1>2, <1>3, <1>4, <1>5, <1>6, <1>7, <1>8, <1>10, <1>11, <1>12, StepKinds

\* A run uses the budget up, a stall renews it.
LEMMA NextBudgeted ==
    ASSUME TypeInv, JobTokens, Budgeted, [Next]_vars
    PROVE  Budgeted'
<1> SUFFICES ASSUME NEW q \in Request
             PROVE  /\ job'[q] = "none" => Cardinality(Runs(q)') = 0
                    /\ Pending(q)' => Cardinality(Runs(q)') <= stalls'[q]
                    /\ Cardinality(Runs(q)') <= 1 + stalls'[q]
  BY DEF Budgeted
<1>0. /\ stalls[q] \in Nat /\ stalls'[q] \in Nat /\ Cardinality(Runs(q)) \in Nat
      /\ job[q] = "none" => Cardinality(Runs(q)) = 0
      /\ Pending(q) => Cardinality(Runs(q)) <= stalls[q]
      /\ Cardinality(Runs(q)) <= 1 + stalls[q]
  BY RunsFinite, NextTypeInv DEF TypeInv, TypeOK, Budgeted
<1>1. CASE UNCHANGED commits
  <2>1. Runs(q)' = Runs(q)
    BY <1>1 DEF Runs
  <2>2. /\ job'[q] = "none" => job[q] = "none"
        /\ stalls[q] <= stalls'[q]
        /\ Pending(q)' => \/ Pending(q)
                          \/ job[q] = "none"
                          \/ stalls'[q] = stalls[q] + 1
    BY <1>1, PendingSteps
  <2> QED
    BY <1>0, <2>1, <2>2
<1>2. ASSUME NEW w \in Worker, NEW t \in Task,
             NEW k \in {"created", "updated", "deleted"}, NEW v \in Nat,
             Commits(w, t, k, v)
      PROVE  /\ job'[q] = "none" => Cardinality(Runs(q)') = 0
             /\ Pending(q)' => Cardinality(Runs(q)') <= stalls'[q]
             /\ Cardinality(Runs(q)') <= 1 + stalls'[q]
  <2>1. /\ stage[w] \in {"start", "read"} /\ stage[w] \in Busy
        /\ stage' = [stage EXCEPT ![w] = "publish"]
        /\ UNCHANGED <<job, stalls, holds>>
    BY <1>2 DEF Commits, Committed, Enter, bull, Busy
  <2>2. /\ q # holds[w] => Runs(q)' = Runs(q)
        /\ q = holds[w] => Cardinality(Runs(q)') = Cardinality(Runs(q)) + 1
    BY <1>2, RunsGrow
  <2>3. CASE q # holds[w]
    <3>1. Pending(q)' => Pending(q)
      BY <2>1 DEF Pending, TypeInv, TypeOK
    <3> QED
      BY <1>0, <2>1, <2>2, <2>3, <3>1
  <2>4. CASE q = holds[w]
    <3>1. Pending(q) /\ job[q] = "active"
      BY <2>1, <2>4 DEF Pending, JobTokens
    <3>2. ASSUME NEW x \in Worker, stage'[x] \in {"start", "read"}, holds'[x] = q
          PROVE  FALSE
      <4>1. x # w /\ stage[x] \in Busy /\ holds[x] = holds[w]
        BY <2>1, <2>4, <3>2 DEF Busy, TypeInv, TypeOK
      <4> QED
        BY <2>1, <4>1 DEF JobTokens
    <3>3. ~Pending(q)'
      BY <2>1, <3>1, <3>2 DEF Pending
    <3> QED
      BY <1>0, <2>1, <2>2, <2>4, <3>1, <3>3
  <2> QED
    BY <2>3, <2>4
<1> QED
  BY <1>1, <1>2, CommitOrNot

\* At first no job is anywhere and nothing has run.
LEMMA InitBudget == Init => JobTokens /\ Budgeted
<1>1. Init => JobTokens
  BY DEF Init, JobTokens, Busy, Settled
<1>2. Init => Budgeted
  <2> SUFFICES ASSUME Init
               PROVE  Budgeted
    OBVIOUS
  <2>1. \A r : Runs(r) = {}
    BY DEF Init, Runs
  <2>2. \A r : Cardinality(Runs(r)) = 0
    BY <2>1, FS_EmptySet
  <2> QED
    BY <2>2 DEF Init, Budgeted
<1> QED
  BY <1>1, <1>2

\* However many workers run and crash, only a stall repeats a command.
THEOREM RepeatedOnlyByStalls == Spec => []AppliedOncePerRun
<1> DEFINE Inv == TypeInv /\ JobTokens /\ Budgeted
<1>1. Init => Inv
  BY InitTypeInv, InitBudget
<1>2. Inv /\ [Next]_vars => Inv'
  BY NextTypeInv, NextJobTokens, NextBudgeted
<1>3. Inv => AppliedOncePerRun
  BY DEF Budgeted, AppliedOncePerRun
<1> QED
  BY <1>1, <1>2, <1>3, PTL DEF Spec

-----------------------------------------------------------------------------
(* The events of a task leave in version order.                            *)

\* No two workers hold the unsent event of the same task: after a COMMIT its
\* event leaves, or is lost with its worker, before the task's next COMMIT.
NotesApart ==
    \A v, w \in Worker :
        stage[v] = "publish" /\ stage[w] = "publish" /\ note[v].task = note[w].task
          => v = w

\* What a commit does to the table, and the version it tells.
Writes(w, t, k, v) ==
    /\ Commits(w, t, k, v)
    /\ \A u \in Task \ {t} : tasks'[u] = tasks[u]
    /\ \/ k = "created" /\ t \notin Minted /\ tasks'[t].version = v
       \/ k = "updated" /\ tasks[t] # NULL /\ v = tasks[t].version + 1
                        /\ tasks'[t].version = v
       \/ k = "deleted" /\ tasks[t] # NULL /\ tasks'[t] = NULL

\* A step that neither writes nor sends.
Quiet ==
    /\ UNCHANGED <<tasks, commits, published>>
    /\ \A x \in Worker : stage'[x] = "publish" =>
                            stage[x] = "publish" /\ note'[x] = note[x]

\* The steps by what the team can notice of them.
LEMMA NoticedSteps ==
    ASSUME TypeInv, [Next]_vars
    PROVE  \/ \E w \in Worker : \E t \in Task :
                 \E k \in {"created", "updated", "deleted"} : \E v \in Nat :
                    Writes(w, t, k, v)
           \/ \E w \in Worker : Publish(w)
           \/ DeleteTeam
           \/ Quiet
<1> DEFINE Some == \E w \in Worker : \E t \in Task :
                      \E k \in {"created", "updated", "deleted"} : \E v \in Nat :
                         Writes(w, t, k, v)
<1>1. ASSUME NEW w \in Worker, HandleCreate(w)
      PROVE  Some \/ Fails(w)
  <2>1. holds[w] \in Request /\ stage[w] \in {"start", "read"}
    BY <1>1, WorkInHand DEF HandleCreate
  <2>2. ASSUME NEW t \in Task \ Minted, Committed(w, t, "created", 0),
               tasks' = [tasks EXCEPT ![t] = NewRow(cmd[holds[w]].data)]
        PROVE  Some
    <3>1. Commits(w, t, "created", 0)
      BY <1>1, <2>1, <2>2 DEF HandleCreate, Commits
    <3>2. tasks'[t].version = 0 /\ \A u \in Task \ {t} : tasks'[u] = tasks[u]
      BY <2>2 DEF NewRow, TypeInv, TypeOK
    <3>3. Writes(w, t, "created", 0)
      BY <2>2, <3>1, <3>2 DEF Writes
    <3> QED
      BY <3>3
  <2>3. CASE Enter(w, "error") /\ UNCHANGED <<tasks, log, note, commits>>
    BY <1>1, <2>3 DEF HandleCreate, Fails, database, bull, calls, history
  <2> QED
    BY <1>1, <2>2, <2>3 DEF HandleCreate
<1>2. ASSUME NEW w \in Worker, HandleUpdate(w)
      PROVE  Some \/ Fails(w)
  <2> DEFINE t == cmd[holds[w]].task
             data == cmd[holds[w]].data
  <2>1. holds[w] \in Request /\ stage[w] \in {"start", "read"} /\ t \in Task
    BY <1>2, WorkInHand DEF HandleUpdate
  <2>2. CASE /\ tasks[t] # NULL
             /\ tasks' = [tasks EXCEPT ![t] = UpdatedRow(@, read[w], data)]
             /\ Committed(w, t, "updated", tasks[t].version + 1)
    <3>1. tasks[t] \in Row
      BY <2>1, <2>2 DEF TypeInv, TypeOK
    <3>2. tasks[t].version + 1 \in Nat
      BY <3>1 DEF Row
    <3>3. Commits(w, t, "updated", tasks[t].version + 1)
      BY <1>2, <2>1, <2>2 DEF HandleUpdate, Commits
    <3>4. UpdatedRow(tasks[t], read[w], data).version = tasks[t].version + 1
      BY DEF UpdatedRow
    <3>5. tasks'[t] = UpdatedRow(tasks[t], read[w], data)
          /\ \A u \in Task \ {t} : tasks'[u] = tasks[u]
      BY <2>1, <2>2 DEF TypeInv, TypeOK
    <3>6. Writes(w, t, "updated", tasks[t].version + 1)
      BY <2>2, <3>3, <3>4, <3>5 DEF Writes
    <3> QED
      BY <2>1, <3>2, <3>6
  <2>3. CASE Enter(w, "error") /\ UNCHANGED <<tasks, log, note, commits>>
    BY <1>2, <2>3 DEF HandleUpdate, Fails, database, bull, calls, history
  <2> QED
    BY <1>2, <2>2, <2>3 DEF HandleUpdate
<1>3. ASSUME NEW w \in Worker, HandleDelete(w)
      PROVE  Some \/ Misses(w)
  <2> DEFINE t == cmd[holds[w]].task
  <2>1. holds[w] \in Request /\ stage[w] \in {"start", "read"} /\ t \in Task
    BY <1>3, WorkInHand DEF HandleDelete
  <2>2. CASE /\ tasks[t] # NULL
             /\ tasks' = [tasks EXCEPT ![t] = NULL]
             /\ Committed(w, t, "deleted", 0)
    <3>1. Commits(w, t, "deleted", 0)
      BY <1>3, <2>1, <2>2 DEF HandleDelete, Commits
    <3>2. tasks'[t] = NULL /\ \A u \in Task \ {t} : tasks'[u] = tasks[u]
      BY <2>1, <2>2 DEF TypeInv, TypeOK
    <3>3. Writes(w, t, "deleted", 0)
      BY <2>2, <3>1, <3>2 DEF Writes
    <3> QED
      BY <2>1, <3>3
  <2>3. CASE /\ tasks[t] = NULL /\ Enter(w, "notFound")
             /\ UNCHANGED <<tasks, log, note, commits>>
    BY <1>3, <2>3 DEF HandleDelete, Misses, database, bull, calls, history
  <2> QED
    BY <1>3, <2>2, <2>3 DEF HandleDelete
<1>4. ASSUME NEW w \in Worker, ReadTask(w)
      PROVE  Misses(w) \/ Selects(w)
  BY <1>4 DEF ReadTask, Misses, Selects
<1>5. ASSUME NEW w \in Worker, Abort(w)
      PROVE  Fails(w)
  BY <1>5 DEF Abort, Fails
<1>6. ASSUME NEW w \in Worker, Fails(w) \/ Misses(w) \/ Selects(w) \/ Restart(w)
      PROVE  Quiet
  <2>1. PICK s \in {"error", "notFound", "read", "idle"} :
           stage' = [stage EXCEPT ![w] = s]
    BY <1>6 DEF Fails, Misses, Selects, Restart, Enter
  <2>2. UNCHANGED <<tasks, commits, published, note>>
    BY <1>6 DEF Fails, Misses, Selects, Restart, database, history
  <2> QED
    BY <2>1, <2>2 DEF Quiet, TypeInv, TypeOK
<1>7. ASSUME NEW w \in Worker, Take(w) \/ Settle(w) \/ Crash(w)
      PROVE  Quiet
  <2>1. PICK s \in {"start", "idle", "down"} : stage' = [stage EXCEPT ![w] = s]
    BY <1>7 DEF Take, Settle, Crash, Enter
  <2>2. \A x \in Worker \ {w} : note'[x] = note[x]
    BY <1>7 DEF Take, Settle, Crash, LetGo, TypeInv, TypeOK
  <2>3. UNCHANGED <<tasks, commits, published>>
    BY <1>7 DEF Take, Settle, Crash, database, history
  <2> QED
    BY <2>1, <2>2, <2>3 DEF Quiet, TypeInv, TypeOK
<1>8. ASSUME NEW r \in Request, NEW c \in Command, Authorize(r, c)
      PROVE  Quiet
  BY <1>8 DEF Authorize, Quiet, database, history, workers
<1>9. ASSUME NEW r \in Request,
             Reject(r) \/ Dispatch(r) \/ Deliver(r) \/ Timeout(r) \/ RecoverStalled(r)
      PROVE  Quiet
  BY <1>9 DEF Reject, Dispatch, Deliver, Timeout, RecoverStalled, Quiet, database,
     history, workers
<1>10. ASSUME UNCHANGED vars
       PROVE  Quiet
  BY <1>10 DEF vars, Quiet, database, history, workers
<1> QED
  BY <1>1, <1>2, <1>3, <1>4, <1>5, <1>6, <1>7, <1>8, <1>9, <1>10
     DEF Next, WorkerStep

\* Every event sent is about an id that was produced; those about a task that
\* exists do not outrun its version and do not tell of its deletion.
SentSoFar ==
    \A i \in DOMAIN published :
        /\ published[i].task \in Minted
        /\ tasks[published[i].task] # NULL =>
              /\ published[i].kind # "deleted"
              /\ published[i].version <= tasks[published[i].task].version

\* The event n comes after everything the team has heard of its task, and does
\* not outrun the task either.
IsNext(n) ==
    /\ n.task \in Minted
    /\ \A i \in DOMAIN published : published[i].task = n.task =>
          /\ published[i].kind # "deleted"
          /\ n.kind = "deleted" \/ published[i].version < n.version
    /\ tasks[n.task] # NULL =>
          n.kind # "deleted" /\ n.version <= tasks[n.task].version

OrderInv ==
    /\ SentSoFar
    /\ \A w \in Worker : stage[w] = "publish" => IsNext(note[w])
    /\ EventsInOrder

\* A transaction's event is newer than all the team heard of its task before.
LEMMA WriteKeepsOrder ==
    ASSUME NotesApart', TypeInv, TypeInv', TasksMinted, OrderInv, NEW w \in Worker,
           NEW t \in Task, NEW k \in {"created", "updated", "deleted"}, NEW v \in Nat,
           Writes(w, t, k, v)
    PROVE  OrderInv'
<1>1. Minted' = Minted \cup {t} /\ published' = published
  BY MintedGrows DEF Writes, Commits
<1>2. \A u \in Task \ {t} : tasks'[u] = tasks[u]
  BY DEF Writes
<1>p. published \in Seq(Event) /\ \A i \in DOMAIN published : published[i] \in Event
  BY DEF TypeInv, TypeOK
<1>3. \A i \in DOMAIN published :
         published[i].task \in Task /\ published[i].version \in Nat
  BY <1>p DEF Event
<1>v. \A u \in Task : /\ tasks[u] # NULL => tasks[u].version \in Nat
                      /\ tasks'[u] # NULL => tasks'[u].version \in Nat
  BY DEF TypeInv, TypeOK, Row
<1>4. ASSUME NEW i \in DOMAIN published, published[i].task = t
      PROVE  /\ k # "created" /\ published[i].kind # "deleted"
             /\ published[i].version <= tasks[t].version
             /\ k = "updated" => published[i].version < v
  <2>1. t \in Minted
    BY <1>4 DEF OrderInv, SentSoFar
  <2>2. tasks[t] # NULL /\ k # "created"
    BY <2>1 DEF Writes
  <2>3. published[i].kind # "deleted" /\ published[i].version <= tasks[t].version
    BY <1>4, <2>2 DEF OrderInv, SentSoFar
  <2>4. k = "updated" => v = tasks[t].version + 1
    BY DEF Writes
  <2> QED
    BY <1>3, <1>v, <2>2, <2>3, <2>4
<1>5. SentSoFar'
  <2> SUFFICES ASSUME NEW i \in DOMAIN published
               PROVE  /\ published[i].task \in Minted'
                      /\ tasks'[published[i].task] # NULL =>
                            /\ published[i].kind # "deleted"
                            /\ published[i].version
                                  <= tasks'[published[i].task].version
    BY <1>1 DEF SentSoFar
  <2>1. published[i].task \in Minted'
    BY <1>1 DEF OrderInv, SentSoFar
  <2>2. CASE published[i].task # t
    BY <1>2, <1>3, <2>1, <2>2 DEF OrderInv, SentSoFar
  <2>3. CASE published[i].task = t
    <3>1. tasks'[t] # NULL => tasks'[t].version = v /\ k = "updated"
      BY <1>4, <2>3 DEF Writes
    <3> QED
      BY <1>3, <1>4, <2>1, <2>3, <3>1
  <2> QED
    BY <2>2, <2>3
<1>6. ASSUME NEW x \in Worker, stage'[x] = "publish"
      PROVE  IsNext(note[x])'
  <2>1. /\ note'[w].task = t /\ note'[w].kind = k /\ note'[w].version = v
        /\ stage'[w] = "publish"
        /\ x # w => note'[x] = note[x] /\ stage'[x] = stage[x]
    BY DEF Writes, Commits, Committed, Enter, TypeInv, TypeOK
  <2>2. CASE x # w
    <3>1. note[x].task # t
      BY <1>6, <2>1, <2>2 DEF NotesApart
    <3>2. stage[x] = "publish" /\ IsNext(note[x]) /\ note[x].task \in Task
      BY <1>6, <2>1, <2>2 DEF OrderInv, TypeInv, WorkersReady, Event
    <3> QED
      BY <1>1, <1>2, <2>1, <2>2, <3>1, <3>2 DEF IsNext
  <2>3. CASE x = w
    <3>1. tasks'[t] # NULL => k # "deleted" /\ tasks'[t].version = v
      BY DEF Writes
    <3>2. \A i \in DOMAIN published : published[i].task = t =>
             /\ published[i].kind # "deleted"
             /\ k = "deleted" \/ published[i].version < v
      BY <1>4
    <3>3. t \in Minted' /\ v <= v
      BY <1>1
    <3> QED
      BY <1>1, <2>1, <2>3, <3>1, <3>2, <3>3 DEF IsNext
  <2> QED
    BY <2>2, <2>3
<1>7. EventsInOrder'
  BY <1>1 DEF OrderInv, EventsInOrder
<1> QED
  BY <1>5, <1>6, <1>7 DEF OrderInv

\* The event that is sent is the next one.
LEMMA PublishKeepsOrder ==
    ASSUME NotesApart, TypeInv, OrderInv, NEW w \in Worker, Publish(w)
    PROVE  OrderInv'
<1>1. UNCHANGED <<tasks, commits>>
  BY DEF Publish, database
<1>2. ASSUME NEW x \in Worker, stage'[x] = "publish"
      PROVE  /\ stage[x] = "publish" /\ IsNext(note[x])
             /\ note'[x] = note[x] /\ note[x].task # note[w].task
  <2>1. x # w /\ stage[x] = "publish" /\ note' = note
    BY <1>2 DEF Publish, Enter, TypeInv, TypeOK
  <2> QED
    BY <2>1 DEF NotesApart, OrderInv, Publish
<1>3. stage[w] = "publish" /\ note[w] \in Event /\ IsNext(note[w])
  BY DEF Publish, OrderInv, TypeInv, WorkersReady
<1>4. CASE published' = published
  BY <1>1, <1>2, <1>4 DEF OrderInv, SentSoFar, EventsInOrder, IsNext, Minted
<1>5. CASE published' = Append(published, note[w])
  <2> DEFINE n == Len(published) + 1
  <2>1. published \in Seq(Event)
    BY DEF TypeInv, TypeOK
  <2>2. /\ DOMAIN published' = 1..n /\ Len(published) \in Nat
        /\ DOMAIN published = 1..Len(published)
        /\ \A i \in 1..Len(published) : published'[i] = published[i]
        /\ published'[n] = note[w]
    BY <1>3, <1>5, <2>1, AppendProperties, LenProperties
  <2>3. \A i \in DOMAIN published' :
           \/ i \in DOMAIN published /\ published'[i] = published[i]
           \/ i = n /\ published'[i] = note[w]
    BY <2>2
  <2>4. SentSoFar'
    BY <1>1, <1>3, <2>3 DEF OrderInv, SentSoFar, IsNext, Minted
  <2>5. EventsInOrder'
    <3> SUFFICES ASSUME NEW i \in DOMAIN published', NEW j \in DOMAIN published',
                        i < j, published'[i].task = published'[j].task
                 PROVE  /\ published'[i].kind # "deleted"
                        /\ \/ published'[j].kind = "deleted"
                           \/ published'[i].version < published'[j].version
      BY DEF EventsInOrder
    <3>1. i \in DOMAIN published /\ published'[i] = published[i]
      BY <2>2
    <3>2. CASE j \in DOMAIN published /\ published'[j] = published[j]
      BY <3>1, <3>2 DEF OrderInv, EventsInOrder
    <3>3. CASE published'[j] = note[w]
      BY <1>3, <3>1, <3>3 DEF IsNext
    <3> QED
      BY <2>3, <3>2, <3>3
  <2>6. ASSUME NEW x \in Worker, stage'[x] = "publish"
        PROVE  IsNext(note[x])'
    BY <1>1, <1>2, <2>3, <2>6 DEF IsNext, Minted
  <2> QED
    BY <2>4, <2>5, <2>6 DEF OrderInv
<1> QED
  BY <1>4, <1>5 DEF Publish

\* Every step keeps the order.
LEMMA NextOrderInv ==
    ASSUME NotesApart, NotesApart', TypeInv, TasksMinted, OrderInv, [Next]_vars
    PROVE  OrderInv'
<1>1. ASSUME NEW w \in Worker, NEW t \in Task,
             NEW k \in {"created", "updated", "deleted"}, NEW v \in Nat,
             Writes(w, t, k, v)
      PROVE  OrderInv'
  BY <1>1, NextTypeInv, WriteKeepsOrder
<1>2. ASSUME NEW w \in Worker, Publish(w)
      PROVE  OrderInv'
  BY <1>2, PublishKeepsOrder
<1>3. CASE DeleteTeam
  <2>1. UNCHANGED <<commits, published, stage, note>>
    BY <1>3 DEF DeleteTeam, history, workers
  <2>2. \A t \in Task : tasks'[t] = NULL
    BY <1>3 DEF DeleteTeam
  <2>3. \A i \in DOMAIN published : published[i].task \in Task
    <3>1. published \in Seq(Event)
      BY DEF TypeInv, TypeOK
    <3>2. \A i \in DOMAIN published : published[i] \in Event
      BY <3>1
    <3> QED
      BY <3>2 DEF Event
  <2>4. \A w \in Worker : stage[w] = "publish" => note[w].task \in Task
    BY DEF TypeInv, WorkersReady, Event
  <2>5. Minted' = Minted
    BY <2>1 DEF Minted
  <2>6. SentSoFar' /\ EventsInOrder'
    BY <2>1, <2>2, <2>3, <2>5 DEF OrderInv, SentSoFar, EventsInOrder
  <2>7. \A w \in Worker : stage'[w] = "publish" => IsNext(note[w])'
    BY <2>1, <2>2, <2>4, <2>5 DEF OrderInv, IsNext
  <2> QED
    BY <2>6, <2>7 DEF OrderInv
<1>4. CASE Quiet
  <2>1. Minted' = Minted /\ published' = published /\ tasks' = tasks
    BY <1>4 DEF Quiet, Minted
  <2>2. SentSoFar' /\ EventsInOrder'
    BY <2>1 DEF OrderInv, SentSoFar, EventsInOrder
  <2>3. ASSUME NEW w \in Worker, stage'[w] = "publish"
        PROVE  IsNext(note[w])'
    <3>1. stage[w] = "publish" /\ note'[w] = note[w]
      BY <1>4, <2>3 DEF Quiet
    <3> QED
      BY <2>1, <3>1 DEF OrderInv, IsNext
  <2> QED
    BY <2>2, <2>3 DEF OrderInv
<1> QED
  BY <1>1, <1>2, <1>3, <1>4, NoticedSteps

\* The events of a task leave in version order and its deletion comes last, with
\* any number of workers, as long as no two events of one task are on their way
\* at once, whatever events are lost and whatever commands run again.
THEOREM ApartSendsInOrder == Spec /\ []NotesApart => []EventsInOrder
<1> DEFINE Inv == TypeInv /\ TasksMinted /\ OrderInv
<1>1. Init => Inv
  <2>1. Init => OrderInv
    BY DEF Init, OrderInv, SentSoFar, EventsInOrder
  <2> QED
    BY <2>1, InitTypeInv, InitSerialInv DEF SerialInv
<1>2. NotesApart /\ NotesApart' /\ Inv /\ [Next]_vars => Inv'
  BY NextTypeInv, NextTasksMinted, NextOrderInv
<1>3. Inv => EventsInOrder
  BY DEF OrderInv
<1> QED
  BY <1>1, <1>2, <1>3, PTL DEF Spec

\* With one worker, whatever is lost and whatever runs again.
THEOREM OneWorkerSendsInOrder ==
    ASSUME OneWorker
    PROVE  Spec => []EventsInOrder
<1>1. NotesApart
  BY OneWorker DEF OneWorker, NotesApart
<1> QED
  BY <1>1, ApartSendsInOrder, PTL

-----------------------------------------------------------------------------
(* Commands commit in the order they were queued.                          *)

\* No two workers run, at the same time, commands that never stalled.
FirstRunsApart ==
    \A v, w \in Worker :
        /\ stage[v] \in {"start", "read"} /\ stalls[holds[v]] = 0
        /\ stage[w] \in {"start", "read"} /\ stalls[holds[w]] = 0
        => v = w

\* p was queued before q, and neither has stalled.
Ahead(p, q) ==
    /\ \E m, n \in DOMAIN enqueued :
          m < n /\ enqueued[m] = p /\ enqueued[n] = q
    /\ stalls[p] = 0 /\ stalls[q] = 0

\* As long as p may still run, q waits behind it.
FifoInv ==
    /\ \A i \in DOMAIN enqueued : job[enqueued[i]] # "none"
    /\ \A r \in Request : job[r] = "wait" => \E i \in DOMAIN queue : queue[i] = r
    /\ \A p, q \in Request : Ahead(p, q) =>
          \A i, j \in DOMAIN queue : queue[i] = p /\ queue[j] = q => i < j
    /\ \A p, q \in Request : Ahead(p, q) /\ Pending(p) => job[q] = "wait"
    /\ \A p, q \in Request : Ahead(p, q) =>
          \A i \in Runs(p), j \in Runs(q) : i < j

\* Steps that move no job and commit nothing.
LEMMA SameQueueFifo ==
    ASSUME FifoInv, UNCHANGED <<queue, job, stalls, enqueued, commits>>,
           \A p \in Request : Pending(p)' => Pending(p)
    PROVE  FifoInv'
<1>1. \A p, q : Ahead(p, q)' <=> Ahead(p, q)
  BY DEF Ahead
<1>2. \A p : Runs(p)' = Runs(p)
  BY DEF Runs
<1> QED
  BY <1>1, <1>2 DEF FifoInv

\* A commit of p finds q waiting, and q has not run.
LEMMA CommitFifo ==
    ASSUME TypeInv, JobTokens, Budgeted, FifoInv, NEW w \in Worker, NEW t \in Task,
           NEW k \in {"created", "updated", "deleted"}, NEW v \in Nat,
           Commits(w, t, k, v)
    PROVE  FifoInv'
<1>1. /\ stage[w] \in {"start", "read"} /\ holds[w] \in Request
      /\ stage' = [stage EXCEPT ![w] = "publish"]
      /\ UNCHANGED <<queue, job, stalls, holds, enqueued>>
  BY DEF Commits, Committed, Enter, bull
<1>2. PICK n \in DOMAIN commits' : RecordedAt(n, w, t, k, v)
  BY CommitAppends
<1>3. \A i \in DOMAIN commits : commits'[i] = commits[i]
  BY CommitAppends
<1>4. \A p, q : Ahead(p, q)' <=> Ahead(p, q)
  BY <1>1 DEF Ahead
<1>5. \A p \in Request : Pending(p)' => Pending(p)
  BY <1>1 DEF Pending, TypeInv, TypeOK
<1>6. Pending(holds[w]) /\ job[holds[w]] = "active"
  BY <1>1 DEF Pending, JobTokens, Busy
<1>7. ASSUME NEW p \in Request, NEW q \in Request, Ahead(p, q),
             NEW i \in Runs(p)', NEW j \in Runs(q)'
      PROVE  i < j
  <2>1. /\ i \in Runs(p) \/ (i = n /\ p = holds[w])
        /\ j \in Runs(q) \/ (j = n /\ q = holds[w])
    BY <1>2, <1>3 DEF RecordedAt, Runs
  <2>2. p # holds[w]
    <3> SUFFICES ASSUME p = holds[w]
                 PROVE  FALSE
      OBVIOUS
    <3>1. job[q] = "wait"
      BY <1>6, <1>7 DEF FifoInv
    <3>2. Cardinality(Runs(q)) <= stalls[q] /\ stalls[q] = 0
      BY <1>7, <3>1 DEF Budgeted, Pending, Ahead
    <3>3. Cardinality(Runs(q)) = 0
      BY <3>2, RunsFinite
    <3>4. Runs(q) = {}
      BY <3>3, RunsFinite, FS_EmptySet
    <3> QED
      BY <1>6, <2>1, <3>1, <3>4
  <2>3. i \in Runs(p) /\ i \in DOMAIN commits
    BY <2>1, <2>2 DEF Runs
  <2> QED
    BY <1>2, <1>7, <2>1, <2>3 DEF RecordedAt, FifoInv
<1> QED
  BY <1>1, <1>4, <1>5, <1>7 DEF FifoInv

\* The worker takes the job that was queued first.
LEMMA TakeFifo ==
    ASSUME FirstRunsApart', TypeInv, JobTokens, FifoInv, NEW w \in Worker, Take(w)
    PROVE  FifoInv'
<1>1. queue \in Seq(Request) /\ queue # <<>> /\ queue' = Tail(queue)
      /\ stage[w] = "idle"
  BY DEF Take, TypeInv, TypeOK
<1>2. /\ 1 \in DOMAIN queue
      /\ \A i \in DOMAIN queue' : i + 1 \in DOMAIN queue /\ i \in Nat
                                  /\ queue'[i] = queue[i + 1]
      /\ \A i \in DOMAIN queue : i # 1 => i - 1 \in DOMAIN queue'
                                          /\ i \in Nat /\ queue'[i - 1] = queue[i]
  BY <1>1, HeadTailProperties
<1>3. PICK h \in Request : h = Head(queue) /\ h = queue[1]
  BY <1>1, HeadTailProperties
<1>4. /\ job' = [job EXCEPT ![h] = "active"]
      /\ holds' = [holds EXCEPT ![w] = h]
      /\ stage' = [stage EXCEPT ![w] = "start"]
      /\ UNCHANGED <<stalls, enqueued, commits>>
  BY <1>3 DEF Take, Enter, history
<1>5. job[h] = "wait"
  BY <1>2, <1>3 DEF JobTokens
<1>6. \A p, q : Ahead(p, q)' <=> Ahead(p, q)
  BY <1>4 DEF Ahead
<1>7. \A p : Runs(p)' = Runs(p)
  BY <1>4 DEF Runs
<1>8. \A i \in DOMAIN enqueued' : job'[enqueued'[i]] # "none"
  <2>1. \A i \in DOMAIN enqueued : enqueued[i] \in Request
    BY DEF TypeInv, TypeOK
  <2> QED
    BY <1>4, <2>1 DEF FifoInv, TypeInv, TypeOK
<1>9. ASSUME NEW r \in Request, job'[r] = "wait"
      PROVE  \E i \in DOMAIN queue' : queue'[i] = r
  <2>1. r # h /\ job[r] = "wait"
    BY <1>4, <1>9 DEF TypeInv, TypeOK
  <2>2. PICK i \in DOMAIN queue : queue[i] = r
    BY <2>1 DEF FifoInv
  <2> QED
    BY <1>2, <1>3, <2>1, <2>2
<1>10. ASSUME NEW p \in Request, NEW q \in Request, Ahead(p, q),
              NEW i \in DOMAIN queue', NEW j \in DOMAIN queue',
              queue'[i] = p, queue'[j] = q
       PROVE  i < j
  <2>1. /\ i + 1 \in DOMAIN queue /\ j + 1 \in DOMAIN queue
        /\ queue[i + 1] = p /\ queue[j + 1] = q /\ i \in Nat /\ j \in Nat
    BY <1>2, <1>10
  <2>2. i + 1 < j + 1
    BY <1>10, <2>1 DEF FifoInv
  <2> QED
    BY <2>1, <2>2
<1>11. ASSUME NEW p \in Request, NEW q \in Request, Ahead(p, q), Pending(p)'
       PROVE  job'[q] = "wait"
  <2>1. job[p] = "wait" \/ \E x \in Worker \ {w} :
                              stage[x] \in {"start", "read"} /\ holds[x] = p
    <3>1. CASE job'[p] = "wait"
      BY <1>4, <3>1 DEF TypeInv, TypeOK
    <3>2. ASSUME NEW x \in Worker, stage'[x] \in {"start", "read"}, holds'[x] = p
          PROVE  \/ job[p] = "wait"
                 \/ x # w /\ stage[x] \in {"start", "read"} /\ holds[x] = p
      BY <1>4, <1>5, <3>2 DEF TypeInv, TypeOK
    <3> QED
      BY <1>11, <3>1, <3>2 DEF Pending
  <2>2. job[q] = "wait"
    BY <1>11, <2>1 DEF FifoInv, Pending
  <2>3. q # h
    <3> SUFFICES ASSUME q = h
                 PROVE  FALSE
      OBVIOUS
    <3>1. CASE job[p] = "wait"
      <4>1. PICK i \in DOMAIN queue : queue[i] = p
        BY <3>1 DEF FifoInv
      <4>2. i < 1
        BY <1>2, <1>3, <1>11, <4>1 DEF FifoInv
      <4> QED
        BY <1>1, <4>1, <4>2
    <3>2. ASSUME NEW x \in Worker \ {w}, stage[x] \in {"start", "read"}, holds[x] = p
          PROVE  FALSE
      <4>1. /\ stage'[x] \in {"start", "read"} /\ holds'[x] = p
            /\ stage'[w] = "start" /\ holds'[w] = q
        BY <1>4, <3>2 DEF TypeInv, TypeOK
      <4>2. stalls'[p] = 0 /\ stalls'[q] = 0
        BY <1>4, <1>11 DEF Ahead
      <4> QED
        BY <3>2, <4>1, <4>2 DEF FirstRunsApart
    <3> QED
      BY <2>1, <3>1, <3>2
  <2> QED
    BY <1>4, <2>2, <2>3 DEF TypeInv, TypeOK
<1> QED
  BY <1>6, <1>7, <1>8, <1>9, <1>10, <1>11 DEF FifoInv

\* A job that settles was in no one's way.
LEMMA SettleFifo ==
    ASSUME TypeInv, JobTokens, FifoInv, NEW w \in Worker, Settle(w)
    PROVE  FifoInv'
<1>1. PICK h \in Request : h = holds[w] /\ job[h] = "active"
  BY DEF Settle, JobTokens, TypeInv, WorkersReady, Busy
<1>2. /\ job' = [job EXCEPT ![h] = stage[w]]
      /\ holds' = [holds EXCEPT ![w] = NULL]
      /\ stage' = [stage EXCEPT ![w] = "idle"]
      /\ UNCHANGED <<queue, stalls, enqueued, commits>>
  BY <1>1 DEF Settle, Enter, LetGo, history
<1>3. stage[w] # "none" /\ stage[w] # "wait"
  BY DEF Settle, Settled
<1>4. \A p, q : Ahead(p, q)' <=> Ahead(p, q)
  BY <1>2 DEF Ahead
<1>5. \A p : Runs(p)' = Runs(p)
  BY <1>2 DEF Runs
<1>6. \A p \in Request : Pending(p)' => Pending(p)
  BY <1>2, <1>3 DEF Pending, TypeInv, TypeOK
<1>7. \A r \in Request : job'[r] = "wait" <=> job[r] = "wait"
  BY <1>1, <1>2, <1>3 DEF TypeInv, TypeOK
<1>8. \A i \in DOMAIN enqueued' : job'[enqueued'[i]] # "none"
  <2>1. \A i \in DOMAIN enqueued : enqueued[i] \in Request
    BY DEF TypeInv, TypeOK
  <2> QED
    BY <1>2, <1>3, <2>1 DEF FifoInv, TypeInv, TypeOK
<1> QED
  BY <1>2, <1>4, <1>5, <1>6, <1>7, <1>8 DEF FifoInv

\* A new job goes behind all others.
LEMMA DispatchFifo ==
    ASSUME TypeInv, JobTokens, Budgeted, FifoInv, NEW r \in Request, Dispatch(r)
    PROVE  FifoInv'
<1>1. job[r] = "none"
  BY DEF Dispatch, TypeInv, CommandsKept
<1>2. /\ queue' = Append(queue, r) /\ enqueued' = Append(enqueued, r)
      /\ job' = [job EXCEPT ![r] = "wait"]
      /\ UNCHANGED <<stage, holds, stalls, commits>>
  BY DEF Dispatch, workers
<1>3. queue \in Seq(Request) /\ enqueued \in Seq(Request)
  BY DEF TypeInv, TypeOK
<1>4. /\ DOMAIN queue' = 1..(Len(queue) + 1) /\ Len(queue) \in Nat
      /\ DOMAIN queue = 1..Len(queue)
      /\ \A i \in 1..Len(queue) : queue'[i] = queue[i]
      /\ queue'[Len(queue) + 1] = r
  BY <1>2, <1>3, AppendProperties, LenProperties
<1>5. /\ DOMAIN enqueued' = 1..(Len(enqueued) + 1) /\ Len(enqueued) \in Nat
      /\ DOMAIN enqueued = 1..Len(enqueued)
      /\ \A i \in 1..Len(enqueued) : enqueued'[i] = enqueued[i]
      /\ enqueued'[Len(enqueued) + 1] = r
  BY <1>2, <1>3, AppendProperties, LenProperties
<1>6. ASSUME NEW p, NEW q, Ahead(p, q)'
      PROVE  p # r /\ (Ahead(p, q) \/ q = r)
  <2>1. PICK m \in DOMAIN enqueued', n \in DOMAIN enqueued' :
           m < n /\ enqueued'[m] = p /\ enqueued'[n] = q
    BY <1>6 DEF Ahead
  <2>2. m \in DOMAIN enqueued /\ enqueued[m] = p
    BY <1>5, <2>1
  <2>3. p # r
    BY <1>1, <2>2 DEF FifoInv
  <2>4. CASE n \in DOMAIN enqueued
    <3>1. enqueued[n] = q
      BY <1>5, <2>1, <2>4
    <3>2. stalls[p] = 0 /\ stalls[q] = 0
      BY <1>2, <1>6 DEF Ahead
    <3>3. Ahead(p, q)
      BY <2>1, <2>2, <2>4, <3>1, <3>2 DEF Ahead
    <3> QED
      BY <2>3, <3>3
  <2>5. CASE n \notin DOMAIN enqueued
    <3>1. n = Len(enqueued) + 1
      BY <1>5, <2>5
    <3> QED
      BY <1>5, <2>1, <2>3, <3>1
  <2> QED
    BY <2>4, <2>5
<1>7. \A p : Runs(p)' = Runs(p)
  BY <1>2 DEF Runs
<1>8. \A i \in DOMAIN enqueued' : job'[enqueued'[i]] # "none"
  <2>1. \A i \in DOMAIN enqueued : enqueued[i] \in Request /\ job[enqueued[i]] # "none"
    BY <1>3 DEF FifoInv
  <2>2. \A q \in Request : job[q] # "none" => job'[q] # "none"
    BY <1>2 DEF TypeInv, TypeOK
  <2>3. job'[r] # "none"
    BY <1>2 DEF TypeInv, TypeOK
  <2>4. \A i \in DOMAIN enqueued' :
           enqueued'[i] = r \/ \E j \in DOMAIN enqueued : enqueued'[i] = enqueued[j]
    BY <1>5
  <2> QED
    BY <2>1, <2>2, <2>3, <2>4
<1>9. ASSUME NEW q \in Request, job'[q] = "wait"
      PROVE  \E i \in DOMAIN queue' : queue'[i] = q
  <2>1. CASE q = r
    BY <1>4, <2>1
  <2>2. CASE q # r
    <3>1. job[q] = "wait"
      BY <1>2, <1>9, <2>2 DEF TypeInv, TypeOK
    <3>2. PICK i \in DOMAIN queue : queue[i] = q
      BY <3>1 DEF FifoInv
    <3> QED
      BY <1>4, <3>2
  <2> QED
    BY <2>1, <2>2
<1>10. ASSUME NEW p \in Request, NEW q \in Request, Ahead(p, q)',
              NEW i \in DOMAIN queue', NEW j \in DOMAIN queue',
              queue'[i] = p, queue'[j] = q
       PROVE  i < j
  <2>1. p # r /\ (Ahead(p, q) \/ q = r)
    BY <1>6, <1>10
  <2>2. i \in DOMAIN queue /\ queue[i] = p
    BY <1>4, <1>10, <2>1
  <2>3. CASE j \in DOMAIN queue
    <3>1. queue[j] = q /\ q # r
      BY <1>1, <1>4, <1>10, <2>3 DEF JobTokens
    <3> QED
      BY <2>1, <2>2, <2>3, <3>1 DEF FifoInv
  <2>4. CASE j \notin DOMAIN queue
    BY <1>4, <2>2, <2>4
  <2> QED
    BY <2>3, <2>4
<1>11. ASSUME NEW p \in Request, NEW q \in Request, Ahead(p, q)', Pending(p)'
       PROVE  job'[q] = "wait"
  <2>1. p # r /\ (Ahead(p, q) \/ q = r)
    BY <1>6, <1>11
  <2>2. CASE q = r
    BY <1>2, <2>2 DEF TypeInv, TypeOK
  <2>3. CASE Ahead(p, q)
    <3>1. Pending(p)
      BY <1>2, <1>11, <2>1 DEF Pending, TypeInv, TypeOK
    <3>2. job[q] = "wait"
      BY <2>3, <3>1 DEF FifoInv
    <3> QED
      BY <1>2, <3>2 DEF TypeInv, TypeOK
  <2> QED
    BY <2>1, <2>2, <2>3
<1>12. ASSUME NEW p \in Request, NEW q \in Request, Ahead(p, q)',
              NEW i \in Runs(p), NEW j \in Runs(q)
       PROVE  i < j
  <2>1. Cardinality(Runs(r)) = 0
    BY <1>1 DEF Budgeted
  <2>2. Runs(r) = {}
    BY <2>1, RunsFinite, FS_EmptySet
  <2>3. Ahead(p, q)
    BY <1>6, <1>12, <2>2
  <2> QED
    BY <1>12, <2>3 DEF FifoInv
<1> QED
  BY <1>7, <1>8, <1>9, <1>10, <1>11, <1>12 DEF FifoInv

\* A recovered job has stalled; the others keep their places.
LEMMA RecoverFifo ==
    ASSUME TypeInv, FifoInv, NEW r \in Request, RecoverStalled(r)
    PROVE  FifoInv'
<1>1. /\ stalls' = [stalls EXCEPT ![r] = @ + 1]
      /\ UNCHANGED <<stage, holds, enqueued, commits>>
  BY DEF RecoverStalled, workers, history
<1>2. PICK s \in {"wait", "error"} : job' = [job EXCEPT ![r] = s]
  BY DEF RecoverStalled
<1>3. queue \in Seq(Request)
  BY DEF TypeInv, TypeOK
<1>4. ASSUME NEW p \in Request, NEW q \in Request, Ahead(p, q)'
      PROVE  Ahead(p, q) /\ p # r /\ q # r
  <2>1. stalls[r] \in Nat /\ stalls'[r] = stalls[r] + 1
    BY <1>1 DEF TypeInv, TypeOK
  <2>2. p # r /\ q # r
    BY <1>4, <2>1 DEF Ahead
  <2>3. stalls'[p] = stalls[p] /\ stalls'[q] = stalls[q]
    BY <1>1, <2>2 DEF TypeInv, TypeOK
  <2> QED
    BY <1>1, <1>4, <2>2, <2>3 DEF Ahead
<1>5. \A p : Runs(p)' = Runs(p)
  BY <1>1 DEF Runs
<1>6. \A i \in DOMAIN enqueued' : job'[enqueued'[i]] # "none"
  <2>1. \A i \in DOMAIN enqueued : enqueued[i] \in Request
    BY DEF TypeInv, TypeOK
  <2> QED
    BY <1>1, <1>2, <2>1 DEF FifoInv, TypeInv, TypeOK
<1>7. ASSUME NEW p \in Request, NEW q \in Request, Ahead(p, q)', Pending(p)'
      PROVE  job'[q] = "wait"
  <2>1. Ahead(p, q) /\ p # r /\ q # r
    BY <1>4, <1>7
  <2>2. Pending(p)
    BY <1>1, <1>2, <1>7, <2>1 DEF Pending, TypeInv, TypeOK
  <2>3. job[q] = "wait"
    BY <2>1, <2>2 DEF FifoInv
  <2> QED
    BY <1>2, <2>1, <2>3 DEF TypeInv, TypeOK
<1>8. ASSUME NEW p \in Request, NEW q \in Request, Ahead(p, q)',
             NEW i \in Runs(p), NEW j \in Runs(q)
      PROVE  i < j
  BY <1>4, <1>8 DEF FifoInv
<1>9. CASE queue' = <<r>> \o queue
  <2>1. <<r>> \in Seq(Request) /\ Len(<<r>>) = 1 /\ <<r>>[1] = r
    OBVIOUS
  <2>2. Len(<<r>> \o queue) = 1 + Len(queue) /\ <<r>> \o queue \in Seq(Request)
    BY <1>3, <2>1, ConcatProperties
  <2>3. ASSUME NEW i \in 1..(1 + Len(queue))
        PROVE  (<<r>> \o queue)[i] = IF i <= 1 THEN <<r>>[i] ELSE queue[i - 1]
    BY <1>3, <2>1, ConcatProperties
  <2>4. /\ DOMAIN queue' = 1..(1 + Len(queue)) /\ Len(queue) \in Nat
        /\ DOMAIN queue = 1..Len(queue)
        /\ queue'[1] = r
        /\ \A i \in 2..(1 + Len(queue)) : queue'[i] = queue[i - 1]
    BY <1>3, <1>9, <2>1, <2>2, <2>3
  <2>5. ASSUME NEW q \in Request, job'[q] = "wait"
        PROVE  \E i \in DOMAIN queue' : queue'[i] = q
    <3>1. CASE q = r
      BY <2>4, <3>1
    <3>2. CASE q # r
      <4>1. job[q] = "wait"
        BY <1>2, <2>5, <3>2 DEF TypeInv, TypeOK
      <4>2. PICK i \in DOMAIN queue : queue[i] = q
        BY <4>1 DEF FifoInv
      <4>3. i + 1 \in DOMAIN queue' /\ queue'[i + 1] = queue[i]
        BY <2>4
      <4> QED
        BY <4>2, <4>3
    <3> QED
      BY <3>1, <3>2
  <2>6. ASSUME NEW p \in Request, NEW q \in Request, Ahead(p, q)',
               NEW i \in DOMAIN queue', NEW j \in DOMAIN queue',
               queue'[i] = p, queue'[j] = q
        PROVE  i < j
    <3>1. Ahead(p, q) /\ p # r /\ q # r
      BY <1>4, <2>6
    <3>2. i # 1 /\ j # 1
      BY <2>4, <2>6, <3>1
    <3>3. /\ i - 1 \in DOMAIN queue /\ j - 1 \in DOMAIN queue
          /\ queue[i - 1] = p /\ queue[j - 1] = q
      BY <2>4, <2>6, <3>2
    <3>4. i - 1 < j - 1
      BY <3>1, <3>3 DEF FifoInv
    <3> QED
      BY <2>4, <3>4
  <2> QED
    BY <1>5, <1>6, <1>7, <1>8, <2>5, <2>6 DEF FifoInv
<1>10. CASE queue' = queue /\ s = "error"
  <2>1. \A q \in Request : job'[q] = "wait" => job[q] = "wait"
    BY <1>2, <1>10 DEF TypeInv, TypeOK
  <2>2. ASSUME NEW p \in Request, NEW q \in Request, Ahead(p, q)',
               NEW i \in DOMAIN queue', NEW j \in DOMAIN queue',
               queue'[i] = p, queue'[j] = q
        PROVE  i < j
    BY <1>4, <1>10, <2>2 DEF FifoInv
  <2> QED
    BY <1>5, <1>6, <1>7, <1>8, <1>10, <2>1, <2>2 DEF FifoInv
<1> QED
  <2>1. queue' = <<r>> \o queue \/ (queue' = queue /\ job' = [job EXCEPT ![r] = "error"])
    BY DEF RecoverStalled
  <2>2. job' = [job EXCEPT ![r] = "error"] => s = "error"
    BY <1>2 DEF TypeInv, TypeOK
  <2> QED
    BY <1>9, <1>10, <2>1, <2>2

\* Every step keeps the jobs in order.
LEMMA NextFifoInv ==
    ASSUME FirstRunsApart', TypeInv, JobTokens, Budgeted, FifoInv, [Next]_vars
    PROVE  FifoInv'
<1>1. ASSUME NEW w \in Worker, Fails(w) \/ Misses(w) \/ Publish(w) \/ Restart(w)
      PROVE  FifoInv'
  <2>1. PICK s \in {"error", "notFound", "completed", "idle"} :
           stage' = [stage EXCEPT ![w] = s]
    BY <1>1 DEF Fails, Misses, Publish, Restart, Enter
  <2>2. UNCHANGED <<queue, job, stalls, enqueued, commits, holds>>
    BY <1>1 DEF Fails, Misses, Publish, Restart, bull, history
  <2>3. \A p \in Request : Pending(p)' => Pending(p)
    BY <2>1, <2>2 DEF Pending, TypeInv, TypeOK
  <2> QED
    BY <2>2, <2>3, SameQueueFifo
<1>2. ASSUME NEW w \in Worker, Selects(w)
      PROVE  FifoInv'
  <2>1. stage' = [stage EXCEPT ![w] = "read"] /\ stage[w] = "start"
    BY <1>2 DEF Selects, Enter
  <2>2. UNCHANGED <<queue, job, stalls, enqueued, commits, holds>>
    BY <1>2 DEF Selects, bull, history
  <2>3. \A p \in Request : Pending(p)' => Pending(p)
    BY <2>1, <2>2 DEF Pending, TypeInv, TypeOK
  <2> QED
    BY <2>2, <2>3, SameQueueFifo
<1>3. ASSUME NEW w \in Worker, Crash(w)
      PROVE  FifoInv'
  <2>1. /\ holds' = [holds EXCEPT ![w] = NULL]
        /\ stage' = [stage EXCEPT ![w] = "down"]
        /\ UNCHANGED <<queue, job, stalls, enqueued, commits>>
    BY <1>3 DEF Crash, Enter, LetGo, bull
  <2>2. \A p \in Request : Pending(p)' => Pending(p)
    BY <2>1 DEF Pending, TypeInv, TypeOK
  <2> QED
    BY <2>1, <2>2, SameQueueFifo
<1>4. ASSUME UNCHANGED <<queue, job, stalls, enqueued, commits, stage, holds>>
      PROVE  FifoInv'
  <2>1. \A p \in Request : Pending(p)' => Pending(p)
    BY <1>4 DEF Pending
  <2> QED
    BY <1>4, <2>1, SameQueueFifo
<1>5. ASSUME NEW r \in Request, NEW c \in Command, Authorize(r, c)
      PROVE  FifoInv'
  BY <1>4, <1>5 DEF Authorize, bull, workers, history
<1>6. ASSUME NEW r \in Request, Reject(r) \/ Deliver(r) \/ Timeout(r)
      PROVE  FifoInv'
  BY <1>4, <1>6 DEF Reject, Deliver, Timeout, bull, workers, history
<1>7. ASSUME DeleteTeam \/ UNCHANGED vars
      PROVE  FifoInv'
  BY <1>4, <1>7 DEF DeleteTeam, vars, bull, workers, history
<1>8. ASSUME NEW w \in Worker, NEW t \in Task,
             NEW k \in {"created", "updated", "deleted"}, NEW v \in Nat,
             Commits(w, t, k, v)
      PROVE  FifoInv'
  BY <1>8, CommitFifo
<1>9. ASSUME NEW w \in Worker, Take(w)
      PROVE  FifoInv'
  BY <1>9, TakeFifo
<1>10. ASSUME NEW w \in Worker, Settle(w)
       PROVE  FifoInv'
  BY <1>10, SettleFifo
<1>11. ASSUME NEW r \in Request, Dispatch(r)
       PROVE  FifoInv'
  BY <1>11, DispatchFifo
<1>12. ASSUME NEW r \in Request, RecoverStalled(r)
       PROVE  FifoInv'
  BY <1>12, RecoverFifo
<1> QED
  BY <1>1, <1>2, <1>3, <1>5, <1>6, <1>7, <1>8, <1>9, <1>10, <1>11, <1>12, StepKinds

\* Commands that never stalled commit in the order in which they were queued,
\* with any number of workers, as long as no two of them run at the same time:
\* the others may crash, be recovered and run beside them.
THEOREM ApartIsFifo == Spec /\ []FirstRunsApart => []FifoUnlessStalled
<1> DEFINE Inv == TypeInv /\ JobTokens /\ Budgeted /\ FifoInv
<1>1. Init => Inv
  <2>1. Init => FifoInv
    BY DEF Init, FifoInv, Runs, Ahead
  <2> QED
    BY <2>1, InitTypeInv, InitBudget
<1>2. FirstRunsApart' /\ Inv /\ [Next]_vars => Inv'
  BY NextTypeInv, NextJobTokens, NextBudgeted, NextFifoInv
<1>3. Inv => FifoUnlessStalled
  <2> SUFFICES ASSUME Inv, NEW m \in DOMAIN enqueued, NEW n \in DOMAIN enqueued,
                      m < n, stalls[enqueued[m]] = 0, stalls[enqueued[n]] = 0
               PROVE  \A i \in Runs(enqueued[m]), j \in Runs(enqueued[n]) : i < j
    BY DEF FifoUnlessStalled
  <2>1. Ahead(enqueued[m], enqueued[n])
    BY DEF Ahead
  <2>2. enqueued[m] \in Request /\ enqueued[n] \in Request
    BY DEF TypeInv, TypeOK
  <2> QED
    BY <2>1, <2>2 DEF FifoInv
<1> QED
  BY <1>1, <1>2, <1>3, PTL DEF Spec

\* With one worker, whatever crashes and recoveries befall the others.
THEOREM OneWorkerIsFifo ==
    ASSUME OneWorker
    PROVE  Spec => []FifoUnlessStalled
<1>1. FirstRunsApart
  BY OneWorker DEF OneWorker, FirstRunsApart
<1> QED
  BY <1>1, ApartIsFifo, PTL

-----------------------------------------------------------------------------
(* The command of whatever was committed, with any number of workers.      *)

\* Whoever had something committed has a command, which no step changes.
Commanded == \A i \in DOMAIN commits : call[commits[i].req] # "new"

\* A command is set once, by the permission check.
LEMMA CommandStays ==
    ASSUME TypeInv, [Next]_vars, NEW r \in Request, call[r] # "new"
    PROVE  call'[r] # "new" /\ cmd'[r] = cmd[r]
<1>1. ASSUME NEW q \in Request, NEW c \in Command, Authorize(q, c)
      PROVE  call'[r] # "new" /\ cmd'[r] = cmd[r]
  <2>1. q # r
    BY <1>1 DEF Authorize
  <2> QED
    BY <1>1, <2>1 DEF Authorize, TypeInv, TypeOK
<1>2. ASSUME NEW q \in Request, Reject(q) \/ Dispatch(q) \/ Deliver(q) \/ Timeout(q)
      PROVE  call'[r] # "new" /\ cmd'[r] = cmd[r]
  <2>1. PICK s \in {"rejected", "waiting", "ok", "notFound", "error", "timeout"} :
           call' = [call EXCEPT ![q] = s]
    BY <1>2 DEF Reject, Dispatch, Deliver, Timeout, Answer, Settled
  <2>2. cmd' = cmd
    BY <1>2 DEF Reject, Dispatch, Deliver, Timeout
  <2> QED
    BY <2>1, <2>2 DEF TypeInv, TypeOK
<1>3. ASSUME NEW w \in Worker, NEW t \in Task,
             NEW k \in {"created", "updated", "deleted"}, NEW v \in Nat,
             Commits(w, t, k, v)
      PROVE  UNCHANGED calls
  BY <1>3 DEF Commits
<1>4. ASSUME NEW w \in Worker,
             \/ Fails(w) \/ Misses(w) \/ Selects(w) \/ Take(w) \/ Publish(w)
             \/ Settle(w) \/ Crash(w) \/ Restart(w)
      PROVE  UNCHANGED calls
  BY <1>4 DEF Fails, Misses, Selects, Take, Publish, Settle, Crash, Restart
<1>5. ASSUME NEW q \in Request, RecoverStalled(q)
      PROVE  UNCHANGED calls
  BY <1>5 DEF RecoverStalled
<1>6. ASSUME DeleteTeam \/ UNCHANGED vars
      PROVE  UNCHANGED calls
  BY <1>6 DEF DeleteTeam, vars
<1>7. UNCHANGED calls => call'[r] # "new" /\ cmd'[r] = cmd[r]
  BY DEF calls
<1> QED
  BY <1>1, <1>2, <1>3, <1>4, <1>5, <1>6, <1>7, StepKinds

\* The requests of the records are requests.
LEMMA CommitTyped ==
    ASSUME TypeInv
    PROVE  \A i \in DOMAIN commits : i \in Nat /\ commits[i] \in Commit
                                     /\ commits[i].req \in Request
                                     /\ commits[i].task \in Task
<1>1. commits \in Seq(Commit)
  BY DEF TypeInv, TypeOK, Commit
<1>2. DOMAIN commits = 1..Len(commits) /\ \A i \in DOMAIN commits : commits[i] \in Commit
  BY <1>1, ElementOfSeq
<1> QED
  BY <1>1, <1>2 DEF Commit

LEMMA NextCommanded ==
    ASSUME TypeInv, Commanded, [Next]_vars
    PROVE  Commanded'
<1> SUFFICES ASSUME NEW i \in DOMAIN commits'
             PROVE  call'[commits'[i].req] # "new"
  BY DEF Commanded
<1>1. CASE i \in DOMAIN commits
  BY <1>1, CommitsKept, CommitTyped, CommandStays DEF Commanded
<1>2. CASE i \notin DOMAIN commits
  <2>1. PICK w \in Worker, t \in Task, k \in {"created", "updated", "deleted"}, v \in Nat :
           Commits(w, t, k, v)
    BY <1>2, CommitOrNot
  <2>2. PICK n \in DOMAIN commits' : RecordedAt(n, w, t, k, v)
    BY <2>1, CommitAppends
  <2>3. i = n /\ commits'[i].req = holds[w]
    BY <1>2, <2>2 DEF RecordedAt
  <2>4. holds[w] \in Request /\ call[holds[w]] # "new"
    BY <2>1 DEF Commits, TypeInv, WorkersReady, CommandsKept, Busy
  <2> QED
    BY <2>3, <2>4, CommandStays
<1> QED
  BY <1>1, <1>2

-----------------------------------------------------------------------------
(* Updates that do not overlap keep the activity log true.                 *)

\* Postgres tells the absence of a value from a JSON object.
NullIsNoChange == NULL \notin Change

\* What the processor records of a column is what happens to it.
LEMMA ChangeRecorded ==
    ASSUME NullIsNoChange, NEW row \in Row, NEW d \in Updates, NEW f \in Field
    PROVE  LET e == UpdatedEntry(row.fields, d)
               new == UpdatedRow(row, row.fields, d)
           IN  /\ Mentions(e, f) => /\ f \in DOMAIN d
                                    /\ e.changes[f].from = row.fields[f]
                                    /\ e.changes[f].to = new.fields[f]
               /\ ~Mentions(e, f) => new.fields[f] = row.fields[f]
<1> DEFINE e == UpdatedEntry(row.fields, d)
           new == UpdatedRow(row, row.fields, d)
<1>1. e.changes = Diff(row.fields, d)
  BY DEF UpdatedEntry
<1>2. new.fields = [g \in Field |-> IF g \in DOMAIN d THEN d[g] ELSE row.fields[g]]
  BY DEF UpdatedRow
<1>3. row.fields[f] \in Value /\ (f \in DOMAIN d => d[f] \in Value)
  BY CommandAssumption DEF Row, Fields
<1>4. e.changes[f] = IF f \in DOMAIN d /\ Differs(f, row.fields[f], d[f])
                     THEN [from |-> row.fields[f], to |-> d[f]]
                     ELSE NULL
  BY <1>1 DEF Diff
<1>5. new.fields[f] = IF f \in DOMAIN d THEN d[f] ELSE row.fields[f]
  BY <1>2
<1>6. CASE f \in DOMAIN d /\ Differs(f, row.fields[f], d[f])
  <2>1. e.changes[f] = [from |-> row.fields[f], to |-> d[f]]
    BY <1>4, <1>6
  <2>2. e.changes[f].from = row.fields[f] /\ e.changes[f].to = d[f]
    BY <2>1
  <2>3. e.changes[f] \in Change
    BY <1>3, <1>6, <2>1 DEF Change
  <2>4. e.changes[f] # NULL
    BY <2>3 DEF NullIsNoChange
  <2> QED
    BY <1>5, <1>6, <2>2, <2>4 DEF Mentions
<1>7. CASE ~(f \in DOMAIN d /\ Differs(f, row.fields[f], d[f]))
  <2>1. e.changes[f] = NULL
    BY <1>4, <1>7
  <2>2. new.fields[f] = row.fields[f]
    BY <1>5, <1>7 DEF Differs
  <2> QED
    BY <2>1, <2>2 DEF Mentions
<1> QED
  BY <1>6, <1>7

\* Only a due date is recorded as changed without a change, and not a cleared one.
LEMMA ChangeIsOne ==
    ASSUME NEW row \in Row, NEW d \in Updates, NEW f \in Field,
           Mentions(UpdatedEntry(row.fields, d), f),
           row.fields[f] = UpdatedRow(row, row.fields, d).fields[f]
    PROVE  f = "dueDate" /\ row.fields[f] # NULL
<1>1. f \in DOMAIN d /\ Differs(f, row.fields[f], d[f])
  BY DEF Mentions, UpdatedEntry, Diff
<1>2. row.fields[f] = d[f]
  BY <1>1 DEF UpdatedRow
<1> QED
  BY <1>1, <1>2 DEF Differs

\* One more row at the end of a log.
LEMMA LogAppend ==
    ASSUME NEW entries \in Seq(Entry), NEW e \in Entry
    PROVE  /\ Len(entries) \in Nat
           /\ DOMAIN entries = 1..Len(entries)
           /\ DOMAIN Append(entries, e) = 1..(Len(entries) + 1)
           /\ \A i \in 1..Len(entries) : Append(entries, e)[i] = entries[i]
           /\ Append(entries, e)[Len(entries) + 1] = e
BY AppendProperties, LenProperties

\* One more row does not change what the rows before it make of a column.
LEMMA MakesStill ==
    ASSUME NEW entries \in Seq(Entry), NEW e \in Entry, NEW created, NEW f,
           NEW n \in 0..Len(entries), NEW value,
           MakesValue(entries, created, f, n, value)
    PROVE  MakesValue(Append(entries, e), created, f, n, value)
<1> DEFINE more == Append(entries, e)
<1>1. Len(entries) \in Nat /\ \A i \in 1..n : more[i] = entries[i]
  BY LogAppend
<1> HIDE DEF more
<1>2. {i \in 1..n : Mentions(more[i], f)} = {i \in 1..n : Mentions(entries[i], f)}
  BY <1>1
<1>3. MakesValue(more, created, f, n, value)
  BY <1>1, <1>2 DEF MakesValue
<1> QED
  BY <1>3 DEF more

\* A row that joins up with what the log told so far leaves it replayable.
LEMMA ReplayAppend ==
    ASSUME NEW entries \in Seq(Entry), NEW e \in Entry, NEW created,
           NEW old, NEW new, Replays(entries, created, old),
           \A f \in Field :
              /\ Mentions(e, f) =>
                    /\ e.changes[f].from = old[f]
                    /\ e.changes[f].to = new[f]
                    /\ old[f] = new[f] => f = "dueDate" /\ new[f] # NULL
              /\ ~Mentions(e, f) => new[f] = old[f]
    PROVE  Replays(Append(entries, e), created, new)
<1> DEFINE more == Append(entries, e)
           n == Len(entries)
<1>1. /\ n \in Nat /\ DOMAIN entries = 1..n
      /\ DOMAIN more = 1..(n + 1) /\ Len(more) = n + 1
      /\ \A j \in 1..n : more[j] = entries[j]
      /\ more[n + 1] = e
  BY LogAppend, AppendProperties
<1>2. ASSUME NEW f \in Field, NEW k \in 0..n, NEW value,
             MakesValue(entries, created, f, k, value)
      PROVE  MakesValue(more, created, f, k, value)
  BY <1>2, MakesStill
<1> HIDE DEF more, n
<1> SUFFICES ASSUME NEW f \in Field
             PROVE  /\ MakesValue(more, created, f, n + 1, new[f])
                    /\ \A i \in DOMAIN more : Mentions(more[i], f) =>
                          LET change == more[i].changes[f]
                          IN  /\ MakesValue(more, created, f, i - 1, change.from)
                              /\ change.from = change.to =>
                                    f = "dueDate" /\ change.to # NULL
  BY <1>1 DEF Replays, more
<1>3. MakesValue(entries, created, f, n, old[f])
  BY DEF Replays, n
<1>4. MakesValue(more, created, f, n, old[f])
  BY <1>1, <1>2, <1>3
<1>5. MakesValue(more, created, f, n + 1, new[f])
  <2>1. CASE Mentions(e, f)
    <3>1. n + 1 \in {i \in 1..(n + 1) : Mentions(more[i], f)}
      BY <1>1, <2>1
    <3>2. new[f] = more[n + 1].changes[f].to
      BY <1>1, <2>1
    <3>3. \A j \in {i \in 1..(n + 1) : Mentions(more[i], f)} : j <= n + 1
      BY <1>1
    <3> QED
      BY <3>1, <3>2, <3>3 DEF MakesValue
  <2>2. CASE ~Mentions(e, f)
    <3>1. {i \in 1..(n + 1) : Mentions(more[i], f)} = {i \in 1..n : Mentions(more[i], f)}
      BY <1>1, <2>2
    <3> QED
      BY <1>4, <2>2, <3>1 DEF MakesValue
  <2> QED
    BY <2>1, <2>2
<1>6. ASSUME NEW i \in DOMAIN more, Mentions(more[i], f)
      PROVE  /\ MakesValue(more, created, f, i - 1, more[i].changes[f].from)
             /\ more[i].changes[f].from = more[i].changes[f].to =>
                   f = "dueDate" /\ more[i].changes[f].to # NULL
  <2>1. CASE i = n + 1
    <3>1. more[i] = e /\ i - 1 = n
      BY <1>1, <2>1
    <3> QED
      BY <1>4, <1>6, <3>1
  <2>2. CASE i # n + 1
    <3>1. i \in DOMAIN entries /\ more[i] = entries[i] /\ i - 1 \in 0..n
      BY <1>1, <2>2
    <3>2. /\ MakesValue(entries, created, f, i - 1, entries[i].changes[f].from)
          /\ entries[i].changes[f].from = entries[i].changes[f].to =>
                f = "dueDate" /\ entries[i].changes[f].to # NULL
      BY <1>6, <3>1 DEF Replays
    <3> QED
      BY <1>2, <3>1, <3>2
  <2> QED
    BY <2>1, <2>2
<1> QED
  BY <1>5, <1>6

\* The log of a task just created, which records no change, replays.
LEMMA CreatedReplays ==
    ASSUME NEW created
    PROVE  Replays(<<CreatedEntry>>, created, created)
<1>1. \A f \in Field : ~Mentions(CreatedEntry, f)
  BY DEF Mentions, CreatedEntry
<1>2. /\ Len(<<CreatedEntry>>) = 1 /\ DOMAIN <<CreatedEntry>> = 1..1
      /\ \A i \in 1..1 : <<CreatedEntry>>[i] = CreatedEntry
  OBVIOUS
<1>3. \A f \in Field : MakesValue(<<CreatedEntry>>, created, f, 1, created[f])
  BY <1>1, <1>2 DEF MakesValue
<1> QED
  BY <1>1, <1>2, <1>3 DEF Replays

\* The row of a completion or a reopening is recorded as such, no other is.
LEMMA CompletionRecorded ==
    ASSUME NullIsNoChange, NEW row \in Row, NEW d \in Updates
    PROVE  LET e == UpdatedEntry(row.fields, d)
               new == UpdatedRow(row, row.fields, d)
           IN  /\ e.action = "COMPLETED" => new.completed = TRUE
               /\ e.action = "REOPENED" => new.completed = FALSE
               /\ e.action \notin {"COMPLETED", "REOPENED"} =>
                     new.completed = row.completed
<1> DEFINE e == UpdatedEntry(row.fields, d)
           new == UpdatedRow(row, row.fields, d)
           was == row.fields
<1>1. e.changes = Diff(was, d) /\ e.action = DeriveAction(was, d, e.changes)
  BY DEF UpdatedEntry
<1>2. new.completed = (Completes(was, d) \/ (row.completed /\ ~Reopens(was, d)))
      /\ row.completed \in BOOLEAN
  BY DEF UpdatedRow, Row
<1>3. "status" \in Field
  BY DEF Field
<1>4. /\ Mentions(e, "status") => "status" \in DOMAIN d
      /\ e.changes["status"] = IF "status" \in DOMAIN d
                                     /\ Differs("status", was["status"], d["status"])
                               THEN [from |-> was["status"], to |-> d["status"]]
                               ELSE NULL
  <2>1. e.changes["status"] = IF "status" \in DOMAIN d
                                    /\ Differs("status", was["status"], d["status"])
                              THEN [from |-> was["status"], to |-> d["status"]]
                              ELSE NULL
    BY <1>1, <1>3 DEF Diff
  <2> QED
    BY <1>3, <2>1, ChangeRecorded
<1>5. e.changes["status"] # NULL <=> "status" \in DOMAIN d /\ was["status"] # d["status"]
  <2>1. Differs("status", was["status"], d["status"]) <=> was["status"] # d["status"]
    BY DEF Differs
  <2>2. CASE "status" \in DOMAIN d /\ was["status"] # d["status"]
    <3>1. was["status"] \in Value /\ d["status"] \in Value
      BY <1>3, <2>2, CommandAssumption DEF Row, Fields
    <3>2. e.changes["status"] \in Change
      BY <1>4, <2>1, <2>2, <3>1 DEF Change
    <3> QED
      BY <2>2, <3>2 DEF NullIsNoChange
  <2>3. CASE ~("status" \in DOMAIN d /\ was["status"] # d["status"])
    BY <1>4, <2>1, <2>3
  <2> QED
    BY <2>2, <2>3
<1> HIDE DEF e, new
<1>6. CASE Completes(was, d)
  <2>1. e.changes["status"] # NULL /\ d["status"] = Done
    BY <1>5, <1>6 DEF Completes
  <2>2. e.action = "COMPLETED"
    BY <1>1, <2>1 DEF DeriveAction
  <2> QED
    BY <1>2, <1>6, <2>2 DEF e, new
<1>7. CASE Reopens(was, d)
  <2>1. e.changes["status"] # NULL /\ d["status"] # Done /\ was["status"] = Done
    BY <1>5, <1>7 DEF Reopens
  <2>2. e.action = "REOPENED"
    BY <1>1, <2>1 DEF DeriveAction
  <2>3. ~Completes(was, d)
    BY <2>1 DEF Completes
  <2> QED
    BY <1>2, <1>7, <2>2, <2>3 DEF e, new
<1>8. CASE ~Completes(was, d) /\ ~Reopens(was, d)
  <2>1. \/ e.changes["status"] = NULL
        \/ /\ e.changes["status"] # NULL /\ d["status"] # Done /\ was["status"] # Done
    BY <1>5, <1>8 DEF Completes, Reopens
  <2>2. e.action \notin {"COMPLETED", "REOPENED"}
    <3>1. CASE e.changes["status"] = NULL
      BY <1>1, <3>1 DEF DeriveAction
    <3>2. CASE e.changes["status"] # NULL /\ d["status"] # Done /\ was["status"] # Done
      BY <1>1, <3>2 DEF DeriveAction
    <3> QED
      BY <2>1, <3>1, <3>2
  <2> QED
    BY <1>2, <1>8, <2>2 DEF e, new
<1> QED
  BY <1>6, <1>7, <1>8

\* The last such row of a log still tells the state of the task.
LEMMA TellAppend ==
    ASSUME NEW entries \in Seq(Entry), NEW e \in Entry, NEW old, NEW new,
           TellsCompletion(entries, old),
           e.action = "COMPLETED" => new.completed = TRUE,
           e.action = "REOPENED" => new.completed = FALSE,
           e.action \notin {"COMPLETED", "REOPENED"} => new.completed = old.completed
    PROVE  TellsCompletion(Append(entries, e), new)
<1> DEFINE more == Append(entries, e)
           n == Len(entries) + 1
<1>1. /\ Len(entries) \in Nat /\ DOMAIN entries = 1..Len(entries)
      /\ DOMAIN more = 1..n
      /\ \A j \in 1..Len(entries) : more[j] = entries[j]
      /\ more[n] = e
  BY LogAppend
<1> SUFFICES ASSUME NEW i \in DOMAIN more,
                    more[i].action \in {"COMPLETED", "REOPENED"},
                    \A j \in DOMAIN more :
                       more[j].action \in {"COMPLETED", "REOPENED"} => j <= i
             PROVE  new.completed <=> more[i].action = "COMPLETED"
  BY DEF TellsCompletion
<1> HIDE DEF more
<1>2. CASE i = n
  BY <1>1, <1>2
<1>3. CASE i # n
  <2>1. i \in DOMAIN entries /\ more[i] = entries[i] /\ i < n /\ n \in DOMAIN more
    BY <1>1, <1>3
  <2>2. e.action \notin {"COMPLETED", "REOPENED"}
    BY <1>1, <2>1
  <2>3. \A j \in DOMAIN entries :
           entries[j].action \in {"COMPLETED", "REOPENED"} => j <= i
    BY <1>1
  <2>4. old.completed <=> entries[i].action = "COMPLETED"
    BY <2>1, <2>3 DEF TellsCompletion
  <2> QED
    BY <2>1, <2>2, <2>4
<1> QED
  BY <1>2, <1>3

\* The log of task t, replayed from the values of the i-th commit, gives its row.
ReplaysFrom(i, t) ==
    /\ commits[i].task = t
    /\ commits[i].kind = "created"
    /\ Replays(log[t], NewRow(cmd[commits[i].req].data).fields, tasks[t].fields)

\* The log of every existing task tells the truth about its row.
LogTrue ==
    \A t \in Task : tasks[t] # NULL =>
        (\E i \in DOMAIN commits : ReplaysFrom(i, t)) /\ TellsCompletion(log[t], tasks[t])

\* A commit and the data of its command stay what they are.
LEMMA CreationStays ==
    ASSUME TypeInv, Commanded, [Next]_vars, NEW i \in DOMAIN commits
    PROVE  /\ i \in DOMAIN commits' /\ commits'[i] = commits[i]
           /\ cmd'[commits'[i].req] = cmd[commits[i].req]
BY CommitsKept, CommitTyped, CommandStays DEF Commanded

\* What is left alone stays true.
LEMMA TruthStays ==
    ASSUME TypeInv, Commanded, LogTrue, [Next]_vars, NEW t \in Task,
           tasks[t] # NULL, tasks'[t] = tasks[t], log'[t] = log[t]
    PROVE  /\ \E i \in DOMAIN commits' : ReplaysFrom(i, t)'
           /\ TellsCompletion(log'[t], tasks'[t])
<1>1. PICK i \in DOMAIN commits : ReplaysFrom(i, t)
  BY DEF LogTrue
<1>2. i \in DOMAIN commits' /\ ReplaysFrom(i, t)'
  BY <1>1, CreationStays DEF ReplaysFrom
<1> QED
  BY <1>2 DEF LogTrue

\* An update changes the row as it was read.
LEMMA NextLogTrue ==
    ASSUME NullIsNoChange, TypeInv, ReadFresh, Commanded, LogTrue, [Next]_vars
    PROVE  LogTrue'
<1> DEFINE Truth(t) ==
             /\ \E i \in DOMAIN commits' : ReplaysFrom(i, t)'
             /\ TellsCompletion(log'[t], tasks'[t])
<1> SUFFICES ASSUME NEW u \in Task, tasks'[u] # NULL
             PROVE  Truth(u)
  BY DEF LogTrue
<1>0. tasks'[u] = tasks[u] /\ log'[u] = log[u] => Truth(u)
  BY TruthStays
<1> HIDE DEF Truth
<1>1. ASSUME NEW w \in Worker, HandleCreate(w)
      PROVE  Truth(u)
  <2> DEFINE data == cmd[holds[w]].data
  <2>1. CASE UNCHANGED <<tasks, log>>
    BY <1>0, <2>1
  <2>2. ASSUME NEW t \in Task, Committed(w, t, "created", 0),
               tasks' = [tasks EXCEPT ![t] = NewRow(data)],
               log' = [log EXCEPT ![t] = <<CreatedEntry>>]
        PROVE  Truth(u)
    <3>1. CASE u # t
      BY <1>0, <2>2, <3>1 DEF TypeInv, TypeOK
    <3>2. CASE u = t
      <4>1. tasks'[u] = NewRow(data) /\ log'[u] = <<CreatedEntry>>
        BY <2>2, <3>2 DEF TypeInv, TypeOK
      <4>2. Commits(w, t, "created", 0)
        BY <1>1, <2>2, WorkInHand DEF HandleCreate, Commits
      <4>3. PICK n \in DOMAIN commits' : RecordedAt(n, w, t, "created", 0)
        BY <4>2, CommitAppends
      <4>4. /\ commits'[n].req = holds[w] /\ commits'[n].task = t
            /\ commits'[n].kind = "created" /\ cmd' = cmd
        BY <4>2, <4>3 DEF RecordedAt, Commits, calls
      <4>5. Replays(<<CreatedEntry>>, NewRow(data).fields, NewRow(data).fields)
        BY CreatedReplays
      <4>6. ReplaysFrom(n, u)'
        BY <3>2, <4>1, <4>4, <4>5 DEF ReplaysFrom
      <4>7. TellsCompletion(<<CreatedEntry>>, NewRow(data))
        BY DEF TellsCompletion, CreatedEntry
      <4> QED
        BY <4>1, <4>3, <4>6, <4>7 DEF Truth
    <3> QED
      BY <3>1, <3>2
  <2> QED
    BY <1>1, <2>1, <2>2 DEF HandleCreate
<1>2. ASSUME NEW w \in Worker, HandleUpdate(w)
      PROVE  Truth(u)
  <2> DEFINE t == cmd[holds[w]].task
             data == cmd[holds[w]].data
             new == UpdatedRow(tasks[t], tasks[t].fields, data)
             e == UpdatedEntry(tasks[t].fields, data)
  <2>1. CASE UNCHANGED <<tasks, log>>
    BY <1>0, <2>1
  <2>2. CASE /\ tasks[t] # NULL
             /\ tasks' = [tasks EXCEPT ![t] = UpdatedRow(@, read[w], data)]
             /\ log' = [log EXCEPT ![t] = Append(@, UpdatedEntry(read[w], data))]
    <3>1. t \in Task /\ data \in Updates
      BY <1>2, WorkInHand
    <3>2. read[w] = tasks[t].fields
      BY <1>2, <2>2 DEF HandleUpdate, ReadFresh
    <3>3. tasks[t] \in Row /\ log[t] \in Seq(Entry)
      BY <2>2, <3>1 DEF TypeInv, TypeOK
    <3>4. e \in Entry
      BY <3>1, <3>3, UpdatedEntryType DEF Row
    <3>5. /\ tasks'[t] = new /\ log'[t] = Append(log[t], e)
          /\ \A v \in Task \ {t} : log'[v] = log[v] /\ tasks'[v] = tasks[v]
      BY <2>2, <3>1, <3>2 DEF TypeInv, TypeOK
    <3>6. \A f \in Field :
             /\ Mentions(e, f) => /\ e.changes[f].from = tasks[t].fields[f]
                                  /\ e.changes[f].to = new.fields[f]
             /\ ~Mentions(e, f) => new.fields[f] = tasks[t].fields[f]
      BY <3>1, <3>3, ChangeRecorded
    <3>7. \A f \in Field :
              Mentions(e, f) /\ tasks[t].fields[f] = new.fields[f] =>
                 f = "dueDate" /\ tasks[t].fields[f] # NULL
      BY <3>1, <3>3, ChangeIsOne
    <3>8. /\ e.action = "COMPLETED" => new.completed = TRUE
          /\ e.action = "REOPENED" => new.completed = FALSE
          /\ e.action \notin {"COMPLETED", "REOPENED"} =>
                new.completed = tasks[t].completed
      BY <3>1, <3>3, CompletionRecorded
    <3>9. PICK i \in DOMAIN commits : ReplaysFrom(i, t)
      BY <2>2, <3>1 DEF LogTrue
    <3>10. TellsCompletion(log[t], tasks[t])
      BY <2>2, <3>1 DEF LogTrue
    <3> DEFINE created == NewRow(cmd[commits[i].req].data).fields
    <3>11. Replays(log[t], created, tasks[t].fields)
      BY <3>9 DEF ReplaysFrom
    <3>12. created' = created /\ i \in DOMAIN commits'
           /\ commits'[i].task = t /\ commits'[i].kind = "created"
      BY <3>9, CreationStays DEF ReplaysFrom
    <3> HIDE DEF e, new, t, data, created
    <3>13. Replays(Append(log[t], e), created, new.fields)
      BY <3>3, <3>4, <3>6, <3>7, <3>11, ReplayAppend
    <3>14. TellsCompletion(Append(log[t], e), new)
      BY <3>3, <3>4, <3>8, <3>10, TellAppend
    <3>15. CASE u = t
      <4>1. ReplaysFrom(i, u)'
        BY <3>5, <3>12, <3>13, <3>15 DEF ReplaysFrom, created
      <4> QED
        BY <3>5, <3>12, <3>14, <3>15, <4>1 DEF Truth
    <3>16. CASE u # t
      BY <1>0, <3>5, <3>16
    <3> QED
      BY <3>15, <3>16
  <2> QED
    BY <1>2, <2>1, <2>2 DEF HandleUpdate
<1>3. ASSUME NEW w \in Worker, HandleDelete(w)
      PROVE  Truth(u)
  BY <1>0, <1>3, WorkInHand DEF HandleDelete, TypeInv, TypeOK
<1>4. CASE DeleteTeam
  BY <1>4 DEF DeleteTeam
<1>5. CASE UNCHANGED <<tasks, log, commits>>
  BY <1>0, <1>5
<1> QED
  BY <1>1, <1>2, <1>3, <1>4, <1>5, TableSteps

\* Updates apart, and a database that knows NULL from an object, keep it true.
LEMMA LogStaysTrue ==
    ASSUME NullIsNoChange
    PROVE  Spec /\ []UpdatesApart => []LogTrue
<1>1. Init => Commanded /\ LogTrue
  BY DEF Init, Commanded, LogTrue
<1>2. TypeInv /\ SerialInv /\ Commanded /\ LogTrue /\ [Next]_vars
         => Commanded' /\ LogTrue'
  BY NullIsNoChange, NextCommanded, NextLogTrue DEF SerialInv
<1> QED
  BY <1>1, <1>2, ReadStaysFresh, PTL DEF Spec

\* Replaying the activity log of a task, from the values of the command that
\* created it, gives its row in every column, with any number of workers, as long
\* as no two updates of one task overlap.
THEOREM ApartLogReplays ==
    ASSUME NullIsNoChange
    PROVE  Spec /\ []UpdatesApart => []TimelineReplays
<1>1. LogTrue => TimelineReplays
  BY DEF LogTrue, ReplaysFrom, TimelineReplays
<1>2. Spec /\ []UpdatesApart => []LogTrue
  BY NullIsNoChange, LogStaysTrue
<1> QED
  BY <1>1, <1>2, PTL

\* The last COMPLETED or REOPENED row of a task's log tells whether the task is
\* completed, under the same condition.
THEOREM ApartLogTellsCompletion ==
    ASSUME NullIsNoChange
    PROVE  Spec /\ []UpdatesApart => []TimelineTellsCompletion
<1>1. LogTrue => TimelineTellsCompletion
  BY DEF LogTrue, TimelineTellsCompletion
<1>2. Spec /\ []UpdatesApart => []LogTrue
  BY NullIsNoChange, LogStaysTrue
<1> QED
  BY <1>1, <1>2, PTL

\* With one worker, replaying the activity log of a task, from the values of the
\* command that created it, gives its row in every column.
THEOREM OneWorkerLogReplays ==
    ASSUME OneWorker, NullIsNoChange
    PROVE  Spec => []TimelineReplays
<1>1. UpdatesApart
  BY OneWorker, OneWorkerApart
<1>2. Spec /\ []UpdatesApart => []TimelineReplays
  BY NullIsNoChange, ApartLogReplays
<1> QED
  BY <1>1, <1>2, PTL

\* With one worker, the last COMPLETED or REOPENED row tells the completion.
THEOREM OneWorkerLogTellsCompletion ==
    ASSUME OneWorker, NullIsNoChange
    PROVE  Spec => []TimelineTellsCompletion
<1>1. UpdatesApart
  BY OneWorker, OneWorkerApart
<1>2. Spec /\ []UpdatesApart => []TimelineTellsCompletion
  BY NullIsNoChange, ApartLogTellsCompletion
<1> QED
  BY <1>1, <1>2, PTL
-----------------------------------------------------------------------------
(* No update is lost, with any number of workers.                          *)

\* Without a commit the writes are as they were.
LEMMA SameWrites ==
    ASSUME TypeInv, Commanded, [Next]_vars, UNCHANGED commits, NEW t, NEW f
    PROVE  /\ WritesTo(t, f)' = WritesTo(t, f)
           /\ \A i \in DOMAIN commits : cmd'[commits[i].req] = cmd[commits[i].req]
<1>1. \A i \in DOMAIN commits : cmd'[commits[i].req] = cmd[commits[i].req]
  BY CommitTyped, CommandStays DEF Commanded
<1> QED
  BY <1>1 DEF WritesTo

\* A commit adds one write to each column that its command sends, and the write
\* is the last.
LEMMA OneMoreWrite ==
    ASSUME TypeInv, NEW w \in Worker, NEW t \in Task,
           NEW k \in {"created", "updated", "deleted"}, NEW v \in Nat,
           Commits(w, t, k, v)
    PROVE  \E n \in Nat :
             /\ n \in DOMAIN commits' /\ commits'[n].req = holds[w]
             /\ \A i \in DOMAIN commits : i < n /\ i \in Nat
             /\ \A u \in Task, f \in Field : WritesTo(u, f)' =
                   IF u = t /\ k # "deleted" /\ f \in DOMAIN cmd[holds[w]].data
                   THEN WritesTo(u, f) \cup {n} ELSE WritesTo(u, f)
<1>1. PICK n \in DOMAIN commits' : RecordedAt(n, w, t, k, v)
  BY CommitAppends
<1>2. cmd' = cmd
  BY DEF Commits, calls
<1>3. \A i \in DOMAIN commits : i \in DOMAIN commits' /\ commits'[i] = commits[i]
  BY CommitAppends
<1>4. /\ n \notin DOMAIN commits /\ DOMAIN commits' = DOMAIN commits \cup {n}
      /\ commits'[n].req = holds[w] /\ commits'[n].task = t /\ commits'[n].kind = k
      /\ \A i \in DOMAIN commits : i < n
  BY <1>1 DEF RecordedAt
<1>5. ASSUME NEW u \in Task, NEW f \in Field
      PROVE  WritesTo(u, f)' =
               IF u = t /\ k # "deleted" /\ f \in DOMAIN cmd[holds[w]].data
               THEN WritesTo(u, f) \cup {n} ELSE WritesTo(u, f)
  <2>1. WritesTo(u, f)' =
          {i \in DOMAIN commits' : /\ commits'[i].task = u
                                   /\ commits'[i].kind # "deleted"
                                   /\ f \in DOMAIN cmd[commits'[i].req].data}
    BY <1>2 DEF WritesTo
  <2> QED
    BY <1>3, <1>4, <2>1 DEF WritesTo
<1>6. n \in Nat /\ \A i \in DOMAIN commits : i \in Nat
  <2>1. commits \in Seq(Commit) /\ commits' \in Seq(Commit)
    <3> DEFINE c == [req |-> holds[w], task |-> t, kind |-> k, version |-> v]
    <3>1. commits \in Seq(Commit) /\ c \in Commit /\ commits' = Append(commits, c)
      BY DEF TypeInv, TypeOK, Commits, Committed, Commit
    <3> QED
      BY <3>1, AppendProperties
  <2> QED
    BY <2>1, <1>1
<1> QED
  BY <1>1, <1>4, <1>5, <1>6

\* What LastWriteStands says of one column.
Stands(t, f) ==
    \/ WritesTo(t, f) = {} /\ tasks[t].fields[f] = DefaultFields[f]
    \/ \E i \in WritesTo(t, f) :
          /\ \A j \in WritesTo(t, f) : j <= i
          /\ tasks[t].fields[f] = cmd[commits[i].req].data[f]

\* A column that a commit does not send keeps its value and its last write.
LEMMA StandsStill ==
    ASSUME TypeInv, Commanded, [Next]_vars, NEW t \in Task, NEW f \in Field,
           Stands(t, f), WritesTo(t, f)' = WritesTo(t, f),
           tasks'[t].fields[f] = tasks[t].fields[f]
    PROVE  Stands(t, f)'
<1>1. \A i \in WritesTo(t, f) : cmd'[commits'[i].req] = cmd[commits[i].req]
  BY CommitsKept, CommitTyped, CommandStays DEF Commanded, WritesTo
<1> QED
  BY <1>1 DEF Stands

\* A created row has the values sent and the defaults, and no earlier write: its
\* id is new.
LEMMA CreateStands ==
    ASSUME TypeInv, Commanded, LastWriteStands, [Next]_vars,
           NEW w \in Worker, HandleCreate(w), NEW u \in Task, NEW f \in Field,
           tasks'[u] # NULL
    PROVE  Stands(u, f)'
<1> DEFINE data == cmd[holds[w]].data
<1>0. tasks[u] # NULL => Stands(u, f)
  BY DEF LastWriteStands, Stands
<1>1. CASE UNCHANGED <<tasks, commits>>
  BY <1>0, <1>1, SameWrites, StandsStill
<1>2. ASSUME NEW t \in Task \ Minted, Committed(w, t, "created", 0),
             tasks' = [tasks EXCEPT ![t] = NewRow(data)]
      PROVE  Stands(u, f)'
  <2>1. Commits(w, t, "created", 0)
    BY <1>2, WorkInHand DEF HandleCreate, Commits
  <2>2. PICK n \in Nat :
          /\ n \in DOMAIN commits' /\ commits'[n].req = holds[w]
          /\ \A i \in DOMAIN commits : i < n /\ i \in Nat
          /\ \A x \in Task, g \in Field : WritesTo(x, g)' =
                IF x = t /\ g \in DOMAIN cmd[holds[w]].data
                THEN WritesTo(x, g) \cup {n} ELSE WritesTo(x, g)
    BY <2>1, OneMoreWrite
  <2>3. cmd' = cmd
    BY <2>1 DEF Commits, calls
  <2>4. CASE u # t
    <3>1. tasks'[u] = tasks[u]
      BY <1>2, <2>4 DEF TypeInv, TypeOK
    <3> QED
      BY <1>0, <2>2, <2>4, <3>1, StandsStill
  <2>5. CASE u = t
    <3>1. WritesTo(t, f) = {}
      BY <1>2 DEF WritesTo, Minted
    <3>2. tasks'[t].fields[f] = IF f \in DOMAIN data THEN data[f] ELSE DefaultFields[f]
      <4>1. tasks'[t] = NewRow(data)
        BY <1>2 DEF TypeInv, TypeOK
      <4> QED
        BY <4>1 DEF NewRow
    <3>3. CASE f \in DOMAIN data
      <4>1. WritesTo(t, f)' = {n}
        BY <2>2, <3>1, <3>3
      <4>2. tasks'[t].fields[f] = cmd'[commits'[n].req].data[f]
        BY <2>2, <2>3, <3>2, <3>3
      <4>3. \A j \in WritesTo(t, f)' : j <= n
        BY <2>2, <4>1
      <4> QED
        BY <2>5, <4>1, <4>2, <4>3 DEF Stands
    <3>4. CASE f \notin DOMAIN data
      <4>1. WritesTo(t, f)' = {}
        BY <2>2, <3>1, <3>4
      <4> QED
        BY <2>5, <3>2, <3>4, <4>1 DEF Stands
    <3> QED
      BY <3>3, <3>4
  <2> QED
    BY <2>4, <2>5
<1> QED
  BY <1>1, <1>2 DEF HandleCreate

\* An update takes the columns it does not send from the row it writes over, not
\* from the one it read.
LEMMA UpdateStands ==
    ASSUME TypeInv, Commanded, LastWriteStands, [Next]_vars,
           NEW w \in Worker, HandleUpdate(w), NEW u \in Task, NEW f \in Field,
           tasks'[u] # NULL
    PROVE  Stands(u, f)'
<1> DEFINE t == cmd[holds[w]].task
           data == cmd[holds[w]].data
<1>0. tasks[u] # NULL => Stands(u, f)
  BY DEF LastWriteStands, Stands
<1>1. CASE UNCHANGED <<tasks, commits>>
  BY <1>0, <1>1, SameWrites, StandsStill
<1>2. CASE /\ tasks[t] # NULL
           /\ tasks' = [tasks EXCEPT ![t] = UpdatedRow(@, read[w], data)]
           /\ Committed(w, t, "updated", tasks[t].version + 1)
  <2>0. t \in Task /\ holds[w] \in Request
    BY WorkInHand
  <2>1. tasks[t].version + 1 \in Nat
    <3>1. tasks[t] \in Row
      BY <1>2, <2>0 DEF TypeInv, TypeOK
    <3> QED
      BY <3>1 DEF Row
  <2>2. Commits(w, t, "updated", tasks[t].version + 1)
    BY <1>2, <2>0 DEF HandleUpdate, Commits
  <2>3. PICK n \in Nat :
          /\ n \in DOMAIN commits' /\ commits'[n].req = holds[w]
          /\ \A i \in DOMAIN commits : i < n /\ i \in Nat
          /\ \A x \in Task, g \in Field : WritesTo(x, g)' =
                IF x = t /\ g \in DOMAIN cmd[holds[w]].data
                THEN WritesTo(x, g) \cup {n} ELSE WritesTo(x, g)
    BY <2>0, <2>1, <2>2, OneMoreWrite
  <2>4. cmd' = cmd
    BY <2>2 DEF Commits, calls
  <2>5. CASE u # t
    <3>1. tasks'[u] = tasks[u]
      BY <1>2, <2>5 DEF TypeInv, TypeOK
    <3> QED
      BY <1>0, <2>3, <2>5, <3>1, StandsStill
  <2>6. CASE u = t
    <3>1. tasks'[u].fields[f] = IF f \in DOMAIN data THEN data[f] ELSE tasks[u].fields[f]
      <4>1. tasks'[u] = UpdatedRow(tasks[u], read[w], data)
        BY <1>2, <2>0, <2>6 DEF TypeInv, TypeOK
      <4> QED
        BY <4>1 DEF UpdatedRow
    <3>2. CASE f \in DOMAIN data
      <4>1. WritesTo(u, f)' = WritesTo(u, f) \cup {n}
        BY <2>3, <2>6, <3>2
      <4>2. cmd'[commits'[n].req].data[f] = data[f]
        BY <2>3, <2>4
      <4>3. \A j \in WritesTo(u, f)' : j <= n
        BY <2>3, <4>1 DEF WritesTo
      <4>4. n \in WritesTo(u, f)'
        BY <4>1
      <4> HIDE DEF data, t
      <4> QED
        BY <3>1, <3>2, <4>2, <4>3, <4>4 DEF Stands
    <3>3. CASE f \notin DOMAIN data
      <4>1. WritesTo(u, f)' = WritesTo(u, f)
        BY <2>3, <2>6, <3>3
      <4>2. Stands(u, f)
        BY <1>0, <1>2, <2>6
      <4>3. tasks'[u].fields[f] = tasks[u].fields[f]
        BY <3>1, <3>3
      <4> QED
        BY <4>1, <4>2, <4>3, StandsStill
    <3> QED
      BY <3>2, <3>3
  <2> QED
    BY <2>5, <2>6
<1> QED
  BY <1>1, <1>2 DEF HandleUpdate

\* Deletions send no column, and what they leave keeps its writes.
LEMMA DeleteStands ==
    ASSUME TypeInv, Commanded, LastWriteStands, [Next]_vars,
           NEW w \in Worker, HandleDelete(w), NEW u \in Task, NEW f \in Field,
           tasks'[u] # NULL
    PROVE  Stands(u, f)'
<1> DEFINE t == cmd[holds[w]].task
<1>0. tasks[u] # NULL => Stands(u, f)
  BY DEF LastWriteStands, Stands
<1>1. CASE UNCHANGED <<tasks, commits>>
  BY <1>0, <1>1, SameWrites, StandsStill
<1>2. CASE /\ tasks' = [tasks EXCEPT ![t] = NULL]
           /\ Committed(w, t, "deleted", 0)
  <2>1. t \in Task /\ holds[w] \in Request
    BY WorkInHand
  <2>2. Commits(w, t, "deleted", 0)
    BY <1>2, <2>1 DEF HandleDelete, Commits
  <2>3. WritesTo(u, f)' = WritesTo(u, f)
    BY <2>1, <2>2, OneMoreWrite
  <2>4. tasks'[u] = tasks[u]
    BY <1>2, <2>1 DEF TypeInv, TypeOK
  <2> QED
    BY <1>0, <2>3, <2>4, StandsStill
<1> QED
  BY <1>1, <1>2 DEF HandleDelete

LEMMA NextLastWrite ==
    ASSUME TypeInv, Commanded, LastWriteStands, [Next]_vars
    PROVE  LastWriteStands'
<1> SUFFICES ASSUME NEW t \in Task, NEW f \in Field, tasks'[t] # NULL
             PROVE  Stands(t, f)'
  BY DEF LastWriteStands, Stands
<1>1. CASE DeleteTeam
  BY <1>1 DEF DeleteTeam
<1>2. CASE UNCHANGED <<tasks, log, commits>>
  <2>1. Stands(t, f)
    BY <1>2 DEF LastWriteStands, Stands
  <2> QED
    BY <1>2, <2>1, SameWrites, StandsStill
<1> QED
  BY <1>1, <1>2, CreateStands, UpdateStands, DeleteStands, TableSteps

\* However many workers update one task from stale reads, crash and repeat
\* commands, no committed value of a column is overwritten by a command that did
\* not send that column: the last one that sent it stands.
THEOREM NoWriteIsLost == Spec => []LastWriteStands
<1> DEFINE Inv == TypeInv /\ Commanded /\ LastWriteStands
<1>1. Init => Inv
  <2>1. Init => Commanded /\ LastWriteStands
    BY DEF Init, Commanded, LastWriteStands
  <2> QED
    BY <2>1, InitTypeInv
<1>2. Inv /\ [Next]_vars => Inv'
  BY NextTypeInv, NextCommanded, NextLastWrite
<1> QED
  BY <1>1, <1>2, PTL DEF Spec
-----------------------------------------------------------------------------
(* What is recorded stays, with any number of workers.                     *)

\* An activity row stays where it was written as long as its task exists, every
\* change of the row adds one to the version and one row to the log, and a
\* deleted task never comes back, though its rows went with it ("append-only",
\* migration 005).
RecordStays ==
    [][\A t \in Task :
          /\ t \in Minted /\ tasks[t] = NULL => tasks'[t] = NULL
          /\ tasks[t] # NULL /\ tasks'[t] # NULL =>
                \/ tasks'[t] = tasks[t] /\ log'[t] = log[t]
                \/ /\ tasks'[t].version = tasks[t].version + 1
                   /\ Len(log'[t]) = Len(log[t]) + 1
                   /\ \A i \in DOMAIN log[t] : log'[t][i] = log[t][i]]_vars

LEMMA NextRecord ==
    ASSUME TypeInv, TasksMinted, [Next]_vars, NEW t \in Task,
           tasks[t] # NULL, tasks'[t] # NULL
    PROVE  \/ tasks'[t] = tasks[t] /\ log'[t] = log[t]
           \/ /\ tasks'[t].version = tasks[t].version + 1
              /\ Len(log'[t]) = Len(log[t]) + 1
              /\ \A i \in DOMAIN log[t] : log'[t][i] = log[t][i]
<1>1. ASSUME NEW w \in Worker, HandleCreate(w)
      PROVE  tasks'[t] = tasks[t] /\ log'[t] = log[t]
  BY <1>1 DEF HandleCreate, TasksMinted, TypeInv, TypeOK
<1>2. ASSUME NEW w \in Worker, HandleUpdate(w), tasks'[t] # tasks[t] \/ log'[t] # log[t]
      PROVE  /\ tasks'[t].version = tasks[t].version + 1
             /\ Len(log'[t]) = Len(log[t]) + 1
             /\ \A i \in DOMAIN log[t] : log'[t][i] = log[t][i]
  <2> DEFINE data == cmd[holds[w]].data
             e == UpdatedEntry(read[w], data)
  <2>0. data \in Updates /\ read[w] \in Fields
    BY <1>2, WorkInHand
  <2>1. /\ cmd[holds[w]].task = t
        /\ tasks' = [tasks EXCEPT ![t] = UpdatedRow(@, read[w], data)]
        /\ log' = [log EXCEPT ![t] = Append(@, e)]
    BY <1>2 DEF HandleUpdate, TypeInv, TypeOK
  <2>2. tasks'[t] = UpdatedRow(tasks[t], read[w], data) /\ log'[t] = Append(log[t], e)
    BY <2>1 DEF TypeInv, TypeOK
  <2>3. tasks'[t].version = tasks[t].version + 1
    BY <2>2 DEF UpdatedRow
  <2>4. log[t] \in Seq(Entry) /\ e \in Entry
    BY <2>0, UpdatedEntryType DEF TypeInv, TypeOK
  <2> HIDE DEF e
  <2>5. /\ Len(log'[t]) = Len(log[t]) + 1
        /\ \A i \in DOMAIN log[t] : log'[t][i] = log[t][i]
    BY <2>2, <2>4, LogAppend, LenProperties, AppendProperties
  <2> QED
    BY <2>3, <2>5
<1>3. ASSUME NEW w \in Worker, HandleDelete(w)
      PROVE  tasks'[t] = tasks[t] /\ log'[t] = log[t]
  BY <1>3, WorkInHand DEF HandleDelete, TypeInv, TypeOK
<1>4. ASSUME DeleteTeam
      PROVE  FALSE
  BY <1>4 DEF DeleteTeam
<1> QED
  BY <1>1, <1>2, <1>3, <1>4, TableSteps

\* However many workers run, the log of a task only grows, by one row for every
\* version, until the task is gone for good.
THEOREM RecordsStay == Spec => RecordStays
<1> DEFINE Inv == TypeInv /\ TasksMinted
           Stays ==
             \A t \in Task :
               /\ t \in Minted /\ tasks[t] = NULL => tasks'[t] = NULL
               /\ tasks[t] # NULL /\ tasks'[t] # NULL =>
                     \/ tasks'[t] = tasks[t] /\ log'[t] = log[t]
                     \/ /\ tasks'[t].version = tasks[t].version + 1
                        /\ Len(log'[t]) = Len(log[t]) + 1
                        /\ \A i \in DOMAIN log[t] : log'[t][i] = log[t][i]
<1>1. Init => Inv
  BY InitTypeInv, InitSerialInv DEF SerialInv
<1>2. Inv /\ [Next]_vars => Inv'
  BY NextTypeInv, NextTasksMinted
<1>3. Inv /\ [Next]_vars => [Stays]_vars
  BY AbsentStays, NextRecord
<1>4. RecordStays <=> [][Stays]_vars
  BY PTL DEF RecordStays
<1> QED
  BY <1>1, <1>2, <1>3, <1>4, PTL DEF Spec
=============================================================================
