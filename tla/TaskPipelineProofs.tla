-------------------------- MODULE TaskPipelineProofs --------------------------
(***************************************************************************)
(* What TaskPipeline guarantees for every number of requests, workers and  *)
(* tasks, and what more it guarantees when there is a single worker.       *)
(***************************************************************************)
EXTENDS TaskPipeline, SequenceTheorems, TLAPS

-----------------------------------------------------------------------------
(* The rows the processor computes.                                        *)

\* An INSERT produces a row of the table.
LEMMA NewRowType ==
    ASSUME NEW d \in Creates
    PROVE  NewRow(d) \in Row
BY ValueAssumption, CommandAssumption
   DEF NewRow, DefaultFields, Row, Fields, Field

\* An UPDATE produces a row of the table, whatever was read before it.
LEMMA UpdatedRowType ==
    ASSUME NEW row \in Row, NEW before \in Fields, NEW d \in Updates
    PROVE  UpdatedRow(row, before, d) \in Row
BY CommandAssumption
   DEF UpdatedRow, Completes, Reopens, Row, Fields, Field

\* An activity row is well formed, whatever was read before the UPDATE.
LEMMA UpdatedEntryType ==
    ASSUME NEW before \in Fields, NEW d \in Updates
    PROVE  UpdatedEntry(before, d) \in Entry
<1>1. Diff(before, d) \in [Field -> Change \cup {NULL}]
  BY CommandAssumption DEF Diff, Change, Fields
<1>2. \A c : DeriveAction(before, d, c) \in Action
  BY DEF DeriveAction, Action
<1> QED
  BY <1>1, <1>2 DEF UpdatedEntry, Entry

\* The activity row of a creation is well formed.
LEMMA CreatedEntryType == CreatedEntry \in Entry
BY DEF CreatedEntry, Entry, Action

\* A recovered job goes in front of the queue: nothing else changes in it.
LEMMA PushFront ==
    ASSUME NEW S, NEW s \in Seq(S), NEW e \in S
    PROVE  /\ <<e>> \o s \in Seq(S)
           /\ \A i \in DOMAIN (<<e>> \o s) :
                 \/ (<<e>> \o s)[i] = e
                 \/ \E j \in DOMAIN s : (<<e>> \o s)[i] = s[j]
<1>1. <<e>> \in Seq(S) /\ Len(<<e>>) = 1 /\ <<e>>[1] = e
  OBVIOUS
<1>2. <<e>> \o s \in Seq(S) /\ Len(<<e>> \o s) = 1 + Len(s)
  BY <1>1, ConcatProperties
<1>3. ASSUME NEW i \in 1..(1 + Len(s))
      PROVE  (<<e>> \o s)[i] = IF i <= 1 THEN <<e>>[i] ELSE s[i - 1]
  BY <1>1, ConcatProperties
<1> QED
  BY <1>1, <1>2, <1>3

-----------------------------------------------------------------------------
(* Type correctness.                                                       *)

\* A command that reached the queue stays as it was when it was authorized.
CommandsKept ==
    /\ \A r \in Request : call[r] = "authorized" => cmd[r] \in Command
    /\ \A r \in Request : job[r] # "none" =>
          cmd[r] \in Command /\ call[r] \notin {"new", "authorized"}
    /\ \A i \in DOMAIN queue : job[queue[i]] # "none"

\* What a worker has in hand at each stage.
Busy == {"start", "read", "publish"} \cup Settled

WorkersReady ==
    \A w \in Worker :
        /\ stage[w] \in Busy => holds[w] \in Request /\ job[holds[w]] # "none"
        /\ stage[w] = "read" => read[w] \in Fields
                                /\ cmd[holds[w]].type = "update"
        /\ stage[w] = "publish" => note[w] \in Event

TypeInv == TypeOK /\ CommandsKept /\ WorkersReady

LEMMA InitTypeInv == Init => TypeInv
BY DEF Init, TypeInv, TypeOK, CommandsKept, WorkersReady, Busy, Settled, Job,
       Call, Stage

\* The steps of a request keep the invariant.
LEMMA RequestTypeInv ==
    ASSUME TypeInv, NEW r \in Request,
           \/ \E c \in Command : Authorize(r, c)
           \/ Reject(r) \/ Dispatch(r) \/ Deliver(r) \/ Timeout(r)
           \/ RecoverStalled(r)
    PROVE  TypeInv'
<1> USE DEF TypeInv, database, bull, calls, workers, history
<1>1. CASE \E c \in Command : Authorize(r, c)
  <2> PICK c \in Command : Authorize(r, c)
    BY <1>1
  <2>1. TypeOK'
    BY DEF TypeOK, Authorize, Call
  <2>2. CommandsKept'
    BY DEF TypeOK, CommandsKept, Authorize
  <2>3. WorkersReady'
    BY DEF TypeOK, CommandsKept, WorkersReady, Authorize, Busy
  <2> QED
    BY <2>1, <2>2, <2>3
<1>2. CASE Reject(r)
  BY <1>2 DEF TypeOK, CommandsKept, WorkersReady, Reject, Call
<1>3. CASE Dispatch(r)
  <2>1. TypeOK'
    BY <1>3 DEF TypeOK, Dispatch, Call, Job
  <2>2. CommandsKept'
    BY <1>3 DEF TypeOK, CommandsKept, Dispatch
  <2>3. WorkersReady'
    BY <1>3 DEF TypeOK, WorkersReady, Dispatch
  <2> QED
    BY <2>1, <2>2, <2>3
<1>4. CASE Deliver(r)
  <2>1. Answer(job[r]) \in Call /\ Answer(job[r]) \notin {"new", "authorized"}
    BY <1>4 DEF Deliver, Answer, Settled, Call
  <2> QED
    BY <1>4, <2>1 DEF TypeOK, CommandsKept, WorkersReady, Deliver
<1>5. CASE Timeout(r)
  BY <1>5 DEF TypeOK, CommandsKept, WorkersReady, Timeout, Call
<1>6. CASE RecoverStalled(r)
  <2>0. /\ queue' \in Seq(Request)
        /\ \A i \in DOMAIN queue' :
              queue'[i] = r \/ \E j \in DOMAIN queue : queue'[i] = queue[j]
    <3>1. queue \in Seq(Request)
      BY DEF TypeOK
    <3>2. queue' = queue \/ queue' = <<r>> \o queue
      BY <1>6 DEF RecoverStalled
    <3>3. CASE queue' = queue
      BY <3>1, <3>3
    <3>4. CASE queue' = <<r>> \o queue
      <4>1. <<r>> \o queue \in Seq(Request)
        BY <3>1, PushFront
      <4>2. \A i \in DOMAIN (<<r>> \o queue) :
               \/ (<<r>> \o queue)[i] = r
               \/ \E j \in DOMAIN queue : (<<r>> \o queue)[i] = queue[j]
        BY <3>1, PushFront
      <4> QED
        BY <3>4, <4>1, <4>2
    <3> QED
      BY <3>2, <3>3, <3>4
  <2>1. TypeOK'
    <3>1. job' \in [Request -> Job]
      <4>1. job' = [job EXCEPT ![r] = "wait"] \/ job' = [job EXCEPT ![r] = "error"]
        BY <1>6 DEF RecoverStalled
      <4> QED
        BY <4>1 DEF TypeOK, Job, Settled
    <3>2. stalls' \in [Request -> Nat]
      BY <1>6 DEF TypeOK, RecoverStalled
    <3> QED
      BY <1>6, <2>0, <3>1, <3>2 DEF TypeOK, RecoverStalled
  <2>2. CommandsKept'
    <3>1. \A q \in Request : job[q] # "none" <=> job'[q] # "none"
      BY <1>6 DEF TypeOK, RecoverStalled
    <3>2. job'[r] # "none"
      BY <1>6 DEF TypeOK, RecoverStalled
    <3>3. \A i \in DOMAIN queue : queue[i] \in Request
      BY DEF TypeOK
    <3>4. cmd' = cmd /\ call' = call
      BY <1>6 DEF RecoverStalled
    <3> QED
      BY <2>0, <3>1, <3>2, <3>3, <3>4 DEF CommandsKept
  <2>3. WorkersReady'
    BY <1>6 DEF TypeOK, WorkersReady, RecoverStalled
  <2> QED
    BY <2>1, <2>2, <2>3
<1> QED
  BY <1>1, <1>2, <1>3, <1>4, <1>5, <1>6

\* A transaction's record and its event are well formed.
LEMMA CommittedType ==
    ASSUME TypeOK, NEW w \in Worker, holds[w] \in Request, NEW t \in Task,
           NEW k \in {"created", "updated", "deleted"}, NEW v \in Nat,
           Committed(w, t, k, v)
    PROVE  /\ stage' = [stage EXCEPT ![w] = "publish"]
           /\ note' \in [Worker -> Event \cup {NULL}]
           /\ note'[w] \in Event
           /\ \A x \in Worker \ {w} : note'[x] = note[x]
           /\ commits' \in Seq([req : Request, task : Task,
                                kind : {"created", "updated", "deleted"},
                                version : Nat])
<1> DEFINE n == [task |-> t, kind |-> k, version |-> v]
           c == [req |-> holds[w], task |-> t, kind |-> k, version |-> v]
           C == [req : Request, task : Task,
                 kind : {"created", "updated", "deleted"}, version : Nat]
<1>1. n \in Event
  BY DEF Event
<1>2. note' = [note EXCEPT ![w] = n] /\ note \in [Worker -> Event \cup {NULL}]
  BY DEF TypeOK, Committed
<1>3. c \in C /\ commits \in Seq(C) /\ commits' = Append(commits, c)
  BY DEF TypeOK, Committed
<1>4. commits' \in Seq(C)
  BY <1>3, AppendProperties
<1> QED
  BY <1>1, <1>2, <1>4 DEF Committed, Enter

\* A worker that commits keeps the invariant if the new rows are well formed.
LEMMA CommittedTypeInv ==
    ASSUME TypeInv, NEW w \in Worker, stage[w] \in Busy, NEW t \in Task,
           NEW k \in {"created", "updated", "deleted"}, NEW v \in Nat,
           Committed(w, t, k, v),
           tasks' \in [Task -> Row \cup {NULL}], log' \in [Task -> Seq(Entry)],
           UNCHANGED <<team, bull, calls, holds, read, published, enqueued, crashes>>
    PROVE  TypeInv'
<1> USE DEF TypeInv, bull, calls
<1>1. holds[w] \in Request
  BY DEF WorkersReady
<1>2. /\ stage' = [stage EXCEPT ![w] = "publish"]
      /\ note' \in [Worker -> Event \cup {NULL}]
      /\ note'[w] \in Event
      /\ \A x \in Worker \ {w} : note'[x] = note[x]
      /\ commits' \in Seq([req : Request, task : Task,
                           kind : {"created", "updated", "deleted"},
                           version : Nat])
  BY <1>1, CommittedType
<1>3. stage' \in [Worker -> Stage]
  BY <1>2 DEF TypeOK, Stage
<1>4. TypeOK'
  BY <1>2, <1>3 DEF TypeOK
<1>5. CommandsKept' /\ WorkersReady'
  BY <1>1, <1>2 DEF TypeOK, CommandsKept, WorkersReady, Busy
<1> QED
  BY <1>4, <1>5

\* So does a worker whose job fails, whose event is sent or which restarts.
LEMMA EnterTypeInv ==
    ASSUME TypeInv, NEW w \in Worker, NEW s \in Settled, stage[w] \in Busy,
           Enter(w, s), published' \in Seq(Event),
           UNCHANGED <<database, bull, calls, holds, read, note, commits, enqueued,
                       crashes>>
    PROVE  TypeInv'
<1> USE DEF TypeInv, database, bull, calls
<1>1. stage' = [stage EXCEPT ![w] = s] /\ s \in Stage
      /\ s # "read" /\ s # "publish"
  BY DEF Enter, Settled, Stage
<1>2. TypeOK'
  BY <1>1 DEF TypeOK
<1>3. CommandsKept' /\ WorkersReady'
  BY <1>1 DEF TypeOK, CommandsKept, WorkersReady, Busy
<1> QED
  BY <1>2, <1>3

\* The steps of a worker keep the invariant.
LEMMA WorkerTypeInv ==
    ASSUME TypeInv, NEW w \in Worker, WorkerStep(w) \/ Crash(w) \/ Restart(w)
    PROVE  TypeInv'
<1> USE DEF TypeInv, database, bull, calls, workers, history
<1>1. CASE Take(w)
  <2>1. /\ Head(queue) \in Request /\ Tail(queue) \in Seq(Request)
        /\ job[Head(queue)] # "none"
        /\ \A i \in DOMAIN Tail(queue) : job[Tail(queue)[i]] # "none"
                                        /\ Tail(queue)[i] \in Request
    <3>1. queue \in Seq(Request) /\ queue # <<>>
      BY <1>1 DEF Take, TypeOK
    <3>2. Len(Tail(queue)) = Len(queue) - 1 /\ Head(queue) = queue[1]
          /\ Tail(queue) \in Seq(Request) /\ Head(queue) \in Request
          /\ \A i \in 1..Len(Tail(queue)) : Tail(queue)[i] = queue[i + 1]
      BY <3>1, HeadTailProperties
    <3> QED
      BY <3>1, <3>2 DEF CommandsKept
  <2>2. /\ queue' = Tail(queue) /\ job' = [job EXCEPT ![Head(queue)] = "active"]
        /\ holds' = [holds EXCEPT ![w] = Head(queue)]
        /\ stage' = [stage EXCEPT ![w] = "start"]
    BY <1>1 DEF Take, Enter
  <2>3. TypeOK'
    <3>1. job' \in [Request -> Job] /\ stage' \in [Worker -> Stage]
          /\ holds' \in [Worker -> Request \cup {NULL}]
      BY <2>1, <2>2 DEF TypeOK, Job, Stage
    <3> QED
      BY <1>1, <2>1, <2>2, <3>1 DEF TypeOK, Take
  <2>4. CommandsKept'
    BY <1>1, <2>1, <2>2 DEF TypeOK, CommandsKept, Take
  <2>5. WorkersReady'
    BY <1>1, <2>1, <2>2 DEF TypeOK, WorkersReady, Busy, Settled, Take
  <2> QED
    BY <2>3, <2>4, <2>5
<1>2. CASE HandleCreate(w)
  <2>1. stage[w] \in Busy /\ holds[w] \in Request /\ cmd[holds[w]] \in Command
    BY <1>2 DEF HandleCreate, WorkersReady, CommandsKept, Busy
  <2>2. cmd[holds[w]].data \in Creates
    BY <1>2, <2>1 DEF HandleCreate, Command
  <2>3. CASE Enter(w, "error") /\ UNCHANGED <<tasks, log, note, commits>>
    <3>1. published' \in Seq(Event)
      BY <1>2 DEF HandleCreate, TypeOK
    <3> QED
      BY <1>2, <2>1, <2>3, <3>1, EnterTypeInv DEF HandleCreate, Settled
  <2>4. ASSUME NEW t \in Task,
               tasks' = [tasks EXCEPT ![t] = NewRow(cmd[holds[w]].data)],
               log' = [log EXCEPT ![t] = <<CreatedEntry>>],
               Committed(w, t, "created", 0)
        PROVE  TypeInv'
    <3>1. tasks' \in [Task -> Row \cup {NULL}]
      BY <2>2, <2>4, NewRowType DEF TypeOK
    <3>2. log' \in [Task -> Seq(Entry)]
      BY <2>4, CreatedEntryType DEF TypeOK
    <3> QED
      BY <1>2, <2>1, <2>4, <3>1, <3>2, CommittedTypeInv DEF HandleCreate
  <2> QED
    BY <1>2, <2>3, <2>4 DEF HandleCreate
<1>3. CASE ReadTask(w)
  <2>1. stage[w] \in Busy /\ holds[w] \in Request /\ cmd[holds[w]] \in Command
    BY <1>3 DEF ReadTask, WorkersReady, CommandsKept, Busy
  <2> DEFINE row == tasks[cmd[holds[w]].task]
  <2>2. CASE row # NULL /\ read' = [read EXCEPT ![w] = row.fields]
             /\ Enter(w, "read")
    <3>1. row \in Row
      BY <1>3, <2>1, <2>2 DEF ReadTask, Command, TypeOK
    <3>2. row.fields \in Fields
      BY <3>1 DEF Row
    <3>3. stage' = [stage EXCEPT ![w] = "read"] /\ stage' \in [Worker -> Stage]
      BY <2>2 DEF Enter, TypeOK, Stage
    <3>4. TypeOK'
      BY <1>3, <2>2, <3>2, <3>3 DEF ReadTask, TypeOK
    <3>5. CommandsKept' /\ WorkersReady'
      BY <1>3, <2>1, <2>2, <3>2, <3>3
         DEF ReadTask, TypeOK, CommandsKept, WorkersReady, Busy
    <3> QED
      BY <3>4, <3>5
  <2>3. CASE Enter(w, "notFound") /\ UNCHANGED read
    <3>1. published' \in Seq(Event)
      BY <1>3 DEF ReadTask, TypeOK
    <3> QED
      BY <1>3, <2>1, <2>3, <3>1, EnterTypeInv DEF ReadTask, Settled
  <2> QED
    BY <1>3, <2>2, <2>3 DEF ReadTask
<1>4. CASE HandleUpdate(w)
  <2>1. /\ stage[w] \in Busy /\ holds[w] \in Request
        /\ cmd[holds[w]] \in Command /\ cmd[holds[w]].type = "update"
        /\ read[w] \in Fields
    BY <1>4 DEF HandleUpdate, WorkersReady, CommandsKept, Busy
  <2> DEFINE t == cmd[holds[w]].task
             data == cmd[holds[w]].data
  <2>2. t \in Task /\ data \in Updates
    BY <2>1 DEF Command
  <2>3. CASE /\ tasks[t] # NULL
             /\ tasks' = [tasks EXCEPT ![t] = UpdatedRow(@, read[w], data)]
             /\ log' = [log EXCEPT ![t] = Append(@, UpdatedEntry(read[w], data))]
             /\ Committed(w, t, "updated", tasks[t].version + 1)
    <3>1. tasks[t] \in Row
      BY <2>2, <2>3 DEF TypeOK
    <3>2. tasks' \in [Task -> Row \cup {NULL}]
      BY <2>1, <2>2, <2>3, <3>1, UpdatedRowType DEF TypeOK
    <3>3. log' \in [Task -> Seq(Entry)]
      BY <2>1, <2>2, <2>3, UpdatedEntryType DEF TypeOK
    <3>4. tasks[t].version + 1 \in Nat
      BY <3>1 DEF Row
    <3> QED
      BY <1>4, <2>1, <2>2, <2>3, <3>2, <3>3, <3>4, CommittedTypeInv
         DEF HandleUpdate
  <2>4. CASE Enter(w, "error") /\ UNCHANGED <<tasks, log, note, commits>>
    <3>1. published' \in Seq(Event)
      BY <1>4 DEF HandleUpdate, TypeOK
    <3> QED
      BY <1>4, <2>1, <2>4, <3>1, EnterTypeInv DEF HandleUpdate, Settled
  <2> QED
    BY <1>4, <2>3, <2>4 DEF HandleUpdate
<1>5. CASE HandleDelete(w)
  <2>1. /\ stage[w] \in Busy /\ holds[w] \in Request
        /\ cmd[holds[w]] \in Command /\ cmd[holds[w]].type = "delete"
    BY <1>5 DEF HandleDelete, WorkersReady, CommandsKept, Busy
  <2> DEFINE t == cmd[holds[w]].task
  <2>2. t \in Task
    BY <2>1 DEF Command
  <2>3. CASE /\ tasks' = [tasks EXCEPT ![t] = NULL]
             /\ log' = [log EXCEPT ![t] = <<>>]
             /\ Committed(w, t, "deleted", 0)
    <3>1. tasks' \in [Task -> Row \cup {NULL}] /\ log' \in [Task -> Seq(Entry)]
      BY <2>2, <2>3 DEF TypeOK
    <3> QED
      BY <1>5, <2>1, <2>2, <2>3, <3>1, CommittedTypeInv DEF HandleDelete
  <2>4. CASE Enter(w, "notFound") /\ UNCHANGED <<tasks, log, note, commits>>
    <3>1. published' \in Seq(Event)
      BY <1>5 DEF HandleDelete, TypeOK
    <3> QED
      BY <1>5, <2>1, <2>4, <3>1, EnterTypeInv DEF HandleDelete, Settled
  <2> QED
    BY <1>5, <2>3, <2>4 DEF HandleDelete
<1>6. CASE Abort(w)
  <2>1. stage[w] \in Busy /\ published' \in Seq(Event)
    BY <1>6 DEF Abort, Busy, TypeOK
  <2> QED
    BY <1>6, <2>1, EnterTypeInv DEF Abort, Settled
<1>7. CASE Publish(w)
  <2>1. stage[w] \in Busy /\ note[w] \in Event
    BY <1>7 DEF Publish, Busy, WorkersReady
  <2>2. published' \in Seq(Event)
    <3>1. published \in Seq(Event)
      BY DEF TypeOK
    <3>2. Append(published, note[w]) \in Seq(Event)
      BY <2>1, <3>1, AppendProperties
    <3> QED
      BY <1>7, <3>1, <3>2 DEF Publish
  <2> QED
    BY <1>7, <2>1, <2>2, EnterTypeInv DEF Publish, Settled
<1>8. CASE Settle(w)
  <2>1. holds[w] \in Request /\ job[holds[w]] # "none" /\ stage[w] \in Job
        /\ stage[w] # "none"
    BY <1>8 DEF Settle, WorkersReady, Busy, Settled, Job
  <2>2. TypeOK'
    BY <1>8, <2>1 DEF Settle, LetGo, Enter, TypeOK, Stage
  <2>3. CommandsKept' /\ WorkersReady'
    BY <1>8, <2>1 DEF Settle, LetGo, Enter, TypeOK, CommandsKept, WorkersReady,
       Busy, Settled
  <2> QED
    BY <2>2, <2>3
<1>9. CASE Crash(w)
  <2>1. TypeOK'
    BY <1>9 DEF Crash, LetGo, Enter, TypeOK, Stage
  <2>2. CommandsKept' /\ WorkersReady'
    BY <1>9 DEF Crash, LetGo, Enter, TypeOK, CommandsKept, WorkersReady, Busy,
       Settled
  <2> QED
    BY <2>1, <2>2
<1>10. CASE Restart(w)
  <2>1. TypeOK'
    <3>1. stage' \in [Worker -> Stage]
      BY <1>10 DEF Restart, Enter, TypeOK, Stage
    <3> QED
      BY <1>10, <3>1 DEF Restart, TypeOK
  <2>2. CommandsKept' /\ WorkersReady'
    BY <1>10 DEF Restart, Enter, TypeOK, CommandsKept, WorkersReady, Busy, Settled
  <2> QED
    BY <2>1, <2>2
<1> QED
  BY <1>1, <1>2, <1>3, <1>4, <1>5, <1>6, <1>7, <1>8, <1>9, <1>10 DEF WorkerStep

\* Every step keeps the invariant.
LEMMA NextTypeInv ==
    ASSUME TypeInv, [Next]_vars
    PROVE  TypeInv'
<1>1. CASE \E r \in Request :
              \/ \E c \in Command : Authorize(r, c)
              \/ Reject(r) \/ Dispatch(r) \/ Deliver(r) \/ Timeout(r)
              \/ RecoverStalled(r)
  BY <1>1, RequestTypeInv
<1>2. CASE \E w \in Worker : WorkerStep(w) \/ Crash(w) \/ Restart(w)
  BY <1>2, WorkerTypeInv
<1>3. CASE DeleteTeam
  <2>1. TypeOK'
    <3>1. tasks' \in [Task -> Row \cup {NULL}] /\ log' \in [Task -> Seq(Entry)]
      BY <1>3 DEF DeleteTeam
    <3> QED
      BY <1>3, <3>1 DEF DeleteTeam, TypeInv, TypeOK, bull, calls, workers, history
  <2>2. CommandsKept' /\ WorkersReady'
    BY <1>3 DEF DeleteTeam, TypeInv, CommandsKept, WorkersReady, bull, calls,
       workers, history
  <2> QED
    BY <2>1, <2>2 DEF TypeInv
<1>4. CASE UNCHANGED vars
  BY <1>4 DEF TypeInv, TypeOK, CommandsKept, WorkersReady, vars, database, bull,
     calls, workers, history
<1> QED
  BY <1>1, <1>2, <1>3, <1>4 DEF Next

\* No interleaving of requests, workers, crashes and recoveries gives a variable
\* a value outside its type.
THEOREM TypeCorrect == Spec => []TypeOK
<1>1. TypeInv => TypeOK
  BY DEF TypeInv
<1> QED
  BY <1>1, InitTypeInv, NextTypeInv, PTL DEF Spec

-----------------------------------------------------------------------------
(* The version counts the updates, with any number of workers.             *)

\* The only steps that write the two tables.
LEMMA TableSteps ==
    ASSUME [Next]_vars
    PROVE  \/ \E w \in Worker : HandleCreate(w) \/ HandleUpdate(w) \/ HandleDelete(w)
           \/ DeleteTeam
           \/ UNCHANGED <<tasks, log, commits>>
<1> USE DEF vars, database, history
<1>1. ASSUME NEW r \in Request, NEW c \in Command, Authorize(r, c)
      PROVE  UNCHANGED <<tasks, log, commits>>
  BY <1>1 DEF Authorize
<1>2. ASSUME NEW r \in Request,
             Reject(r) \/ Dispatch(r) \/ Deliver(r) \/ Timeout(r)
             \/ RecoverStalled(r)
      PROVE  UNCHANGED <<tasks, log, commits>>
  BY <1>2 DEF Reject, Dispatch, Deliver, Timeout, RecoverStalled
<1>3. ASSUME NEW w \in Worker,
             \/ Take(w) \/ ReadTask(w) \/ Abort(w) \/ Publish(w) \/ Settle(w)
             \/ Crash(w) \/ Restart(w)
      PROVE  UNCHANGED <<tasks, log, commits>>
  BY <1>3 DEF Take, ReadTask, Abort, Publish, Settle, Crash, Restart
<1> QED
  BY <1>1, <1>2, <1>3 DEF Next, WorkerStep

\* An update adds one to the version and one row to the log, in one transaction.
LEMMA NextVersionCounts ==
    ASSUME TypeInv, VersionCountsUpdates, [Next]_vars
    PROVE  VersionCountsUpdates'
<1> USE DEF TypeInv, VersionCountsUpdates
<1>1. ASSUME NEW w \in Worker, HandleCreate(w)
      PROVE  VersionCountsUpdates'
  <2>1. CASE UNCHANGED <<tasks, log>>
    BY <2>1
  <2>2. ASSUME NEW t \in Task,
               tasks' = [tasks EXCEPT ![t] = NewRow(cmd[holds[w]].data)],
               log' = [log EXCEPT ![t] = <<CreatedEntry>>]
        PROVE  VersionCountsUpdates'
    <3>1. NewRow(cmd[holds[w]].data).version = 0 /\ Len(<<CreatedEntry>>) = 1
      BY DEF NewRow
    <3> QED
      BY <2>2, <3>1 DEF TypeOK
  <2> QED
    BY <1>1, <2>1, <2>2 DEF HandleCreate
<1>2. ASSUME NEW w \in Worker, HandleUpdate(w)
      PROVE  VersionCountsUpdates'
  <2> DEFINE t == cmd[holds[w]].task
             data == cmd[holds[w]].data
  <2>1. CASE UNCHANGED <<tasks, log>>
    BY <2>1
  <2>2. CASE /\ tasks[t] # NULL
             /\ tasks' = [tasks EXCEPT ![t] = UpdatedRow(@, read[w], data)]
             /\ log' = [log EXCEPT ![t] = Append(@, UpdatedEntry(read[w], data))]
    <3>1. t \in Task /\ data \in Updates /\ read[w] \in Fields
      BY <1>2 DEF HandleUpdate, WorkersReady, CommandsKept, Busy, Command
    <3>2. tasks[t] \in Row /\ log[t] \in Seq(Entry)
      BY <2>2, <3>1 DEF TypeOK
    <3>3. UpdatedRow(tasks[t], read[w], data).version = tasks[t].version + 1
      BY DEF UpdatedRow
    <3>4. Len(Append(log[t], UpdatedEntry(read[w], data))) = Len(log[t]) + 1
      BY <3>1, <3>2, UpdatedEntryType, AppendProperties
    <3>5. tasks[t].version \in Nat /\ Len(log[t]) \in Nat
      BY <3>2, LenProperties DEF Row
    <3> QED
      BY <2>2, <3>1, <3>3, <3>4, <3>5 DEF TypeOK
  <2> QED
    BY <1>2, <2>1, <2>2 DEF HandleUpdate
<1>3. ASSUME NEW w \in Worker, HandleDelete(w)
      PROVE  VersionCountsUpdates'
  BY <1>3 DEF HandleDelete, TypeOK
<1>4. CASE DeleteTeam
  BY <1>4 DEF DeleteTeam
<1>5. CASE UNCHANGED <<tasks, log>>
  BY <1>5
<1> QED
  BY <1>1, <1>2, <1>3, <1>4, <1>5, TableSteps
\* However many workers run, crash and repeat commands, the version of a task is
\* the number of updates its activity log records.
THEOREM VersionsCount == Spec => []VersionCountsUpdates
<1>1. Init => VersionCountsUpdates
  BY DEF Init, VersionCountsUpdates
<1> QED
  BY <1>1, InitTypeInv, NextTypeInv, NextVersionCounts, PTL DEF Spec

-----------------------------------------------------------------------------
(* Updates of one task that do not overlap.                                *)

\* No two workers are between the SELECT and the COMMIT of an update of the same
\* task.  One server instance with concurrency 1 is enough, but so are many
\* whose commands happen to be apart, or to concern different tasks.
UpdatesApart ==
    \A v, w \in Worker :
        stage[v] = "read" /\ stage[w] = "read"
          /\ cmd[holds[v]].task = cmd[holds[w]].task => v = w

\* Concurrency 1 in a single server instance.
OneWorker == \A v, w \in Worker : v = w

\* What handleUpdate read is still what the row holds, if the row still exists;
\* the task's id will not be produced for another row.
ReadFresh ==
    \A w \in Worker : stage[w] = "read" =>
        LET t == cmd[holds[w]].task
        IN  /\ t \in Minted
            /\ tasks[t] # NULL => read[w] = tasks[t].fields

\* An existing task has an id that was produced.
TasksMinted == \A t \in Task : tasks[t] # NULL => t \in Minted

SerialInv == ReadFresh /\ TasksMinted

LEMMA InitSerialInv == Init => SerialInv
BY DEF Init, SerialInv, ReadFresh, TasksMinted

\* A committed transaction adds its task to the ids produced.
LEMMA MintedGrows ==
    ASSUME TypeInv, NEW w \in Worker, holds[w] \in Request, NEW t \in Task,
           NEW k, NEW v, Committed(w, t, k, v),
           k \in {"created", "updated", "deleted"}, v \in Nat
    PROVE  Minted' = Minted \cup {t}
<1> DEFINE c == [req |-> holds[w], task |-> t, kind |-> k, version |-> v]
           C == [req : Request, task : Task,
                 kind : {"created", "updated", "deleted"}, version : Nat]
<1>1. commits \in Seq(C) /\ c \in C /\ commits' = Append(commits, c)
  BY DEF TypeInv, TypeOK, Committed
<1>2. /\ DOMAIN commits' = 1..(Len(commits) + 1) /\ Len(commits) \in Nat
      /\ DOMAIN commits = 1..Len(commits)
      /\ \A i \in 1..Len(commits) : commits'[i] = commits[i]
      /\ commits'[Len(commits) + 1] = c
  BY <1>1, AppendProperties, LenProperties
<1>3. c.task = t
  OBVIOUS
<1> HIDE DEF c
<1>4. Minted' = {commits'[i].task : i \in DOMAIN commits'}
  BY DEF Minted
<1> QED
  BY <1>2, <1>3, <1>4 DEF Minted

\* Where a handler writes: the worker was busy with a complete command, and the
\* task is one that exists or, for a creation, one that never did.
LEMMA WorkInHand ==
    ASSUME TypeInv, NEW w \in Worker
    PROVE  /\ HandleCreate(w) => holds[w] \in Request
                                 /\ cmd[holds[w]].data \in Creates
           /\ HandleUpdate(w) => /\ holds[w] \in Request
                                 /\ cmd[holds[w]].task \in Task
                                 /\ cmd[holds[w]].data \in Updates
                                 /\ read[w] \in Fields
           /\ HandleDelete(w) => holds[w] \in Request
                                 /\ cmd[holds[w]].task \in Task
BY DEF TypeInv, HandleCreate, HandleUpdate, HandleDelete, WorkersReady,
   CommandsKept, Busy, Command

LEMMA NextTasksMinted ==
    ASSUME TypeInv, TasksMinted, [Next]_vars
    PROVE  TasksMinted'
<1> USE DEF TasksMinted
<1>1. ASSUME NEW w \in Worker, HandleCreate(w)
      PROVE  TasksMinted'
  <2>1. CASE UNCHANGED <<tasks, commits>>
    BY <2>1 DEF Minted
  <2>2. ASSUME NEW t \in Task, Committed(w, t, "created", 0),
               tasks' = [tasks EXCEPT ![t] = NewRow(cmd[holds[w]].data)]
        PROVE  TasksMinted'
    <3>1. Minted' = Minted \cup {t}
      BY <1>1, <2>2, WorkInHand, MintedGrows
    <3> QED
      BY <2>2, <3>1 DEF TypeInv, TypeOK
  <2> QED
    BY <1>1, <2>1, <2>2 DEF HandleCreate
<1>2. ASSUME NEW w \in Worker, HandleUpdate(w)
      PROVE  TasksMinted'
  <2> DEFINE t == cmd[holds[w]].task
  <2>1. CASE UNCHANGED <<tasks, commits>>
    BY <2>1 DEF Minted
  <2>2. CASE /\ tasks[t] # NULL
             /\ tasks' = [tasks EXCEPT ![t] =
                            UpdatedRow(@, read[w], cmd[holds[w]].data)]
             /\ Committed(w, t, "updated", tasks[t].version + 1)
    <3>1. t \in Task /\ tasks[t].version + 1 \in Nat
      <4>1. t \in Task
        BY <1>2, WorkInHand
      <4>2. tasks[t] \in Row
        BY <2>2, <4>1 DEF TypeInv, TypeOK
      <4> QED
        BY <4>1, <4>2 DEF Row
    <3>2. Minted' = Minted \cup {t}
      BY <1>2, <2>2, <3>1, WorkInHand, MintedGrows
    <3> QED
      BY <2>2, <3>1, <3>2 DEF TypeInv, TypeOK
  <2> QED
    BY <1>2, <2>1, <2>2 DEF HandleUpdate
<1>3. ASSUME NEW w \in Worker, HandleDelete(w)
      PROVE  TasksMinted'
  <2> DEFINE t == cmd[holds[w]].task
  <2>1. CASE UNCHANGED <<tasks, commits>>
    BY <2>1 DEF Minted
  <2>2. CASE tasks' = [tasks EXCEPT ![t] = NULL] /\ Committed(w, t, "deleted", 0)
    <3>1. Minted' = Minted \cup {t}
      BY <1>3, <2>2, WorkInHand, MintedGrows
    <3> QED
      BY <1>3, <2>2, <3>1, WorkInHand DEF TypeInv, TypeOK
  <2> QED
    BY <1>3, <2>1, <2>2 DEF HandleDelete
<1>4. CASE DeleteTeam
  BY <1>4 DEF DeleteTeam
<1>5. CASE UNCHANGED <<tasks, log, commits>>
  BY <1>5 DEF Minted
<1> QED
  BY <1>1, <1>2, <1>3, <1>4, <1>5, TableSteps

\* The id of a transaction's task counts as produced, as do those before it.
LEMMA WritesMint ==
    ASSUME TypeInv, [Next]_vars
    PROVE  /\ \A t \in Task : t \in Minted => t \in Minted'
           /\ \A w \in Worker : HandleCreate(w) => \A t \in Minted :
                                    t \in Task => tasks'[t] = tasks[t]
<1>1. ASSUME NEW w \in Worker, HandleCreate(w)
      PROVE  \A t \in Minted : t \in Task => t \in Minted' /\ tasks'[t] = tasks[t]
  <2>1. CASE UNCHANGED <<tasks, commits>>
    BY <2>1 DEF Minted
  <2>2. ASSUME NEW t \in Task \ Minted, Committed(w, t, "created", 0),
               tasks' = [tasks EXCEPT ![t] = NewRow(cmd[holds[w]].data)]
        PROVE  \A u \in Minted : u \in Task => u \in Minted' /\ tasks'[u] = tasks[u]
    <3>1. Minted' = Minted \cup {t}
      BY <1>1, <2>2, WorkInHand, MintedGrows
    <3> QED
      BY <2>2, <3>1 DEF TypeInv, TypeOK
  <2> QED
    BY <1>1, <2>1, <2>2 DEF HandleCreate
<1>2. ASSUME NEW w \in Worker, HandleUpdate(w)
      PROVE  \A t \in Minted : t \in Minted'
  <2> DEFINE t == cmd[holds[w]].task
  <2>1. CASE UNCHANGED commits
    BY <2>1 DEF Minted
  <2>2. CASE tasks[t] # NULL /\ Committed(w, t, "updated", tasks[t].version + 1)
    <3>1. t \in Task /\ holds[w] \in Request
      BY <1>2, WorkInHand
    <3>2. tasks[t] \in Row
      BY <2>2, <3>1 DEF TypeInv, TypeOK
    <3>3. tasks[t].version + 1 \in Nat
      BY <3>2 DEF Row
    <3> QED
      BY <2>2, <3>1, <3>3, MintedGrows
  <2> QED
    BY <1>2, <2>1, <2>2 DEF HandleUpdate
<1>3. ASSUME NEW w \in Worker, HandleDelete(w)
      PROVE  \A t \in Minted : t \in Minted'
  <2>1. CASE UNCHANGED commits
    BY <2>1 DEF Minted
  <2>2. CASE Committed(w, cmd[holds[w]].task, "deleted", 0)
    BY <1>3, <2>2, WorkInHand, MintedGrows
  <2> QED
    BY <1>3, <2>1, <2>2 DEF HandleDelete
<1>4. ASSUME DeleteTeam \/ UNCHANGED <<tasks, log, commits>>
      PROVE  Minted' = Minted
  BY <1>4 DEF DeleteTeam, history, Minted
<1>5. \A t \in Task : t \in Minted => t \in Minted'
  BY <1>1, <1>2, <1>3, <1>4, TableSteps
<1> QED
  BY <1>1, <1>5

\* Between the SELECT and the UPDATE of a worker its task is not written: not by
\* a creation, whose id is new, nor by another update, which would overlap.
LEMMA NextReadFresh ==
    ASSUME UpdatesApart, TypeInv, TasksMinted, ReadFresh, [Next]_vars
    PROVE  ReadFresh'
<1> DEFINE T(w) == cmd[holds[w]].task
<1> SUFFICES ASSUME NEW w \in Worker, stage'[w] = "read"
             PROVE  /\ T(w)' \in Minted'
                    /\ tasks'[T(w)'] # NULL => read'[w] = tasks'[T(w)'].fields
  BY DEF ReadFresh
<1>a. Minted \subseteq Task
  <2> DEFINE C == [req : Request, task : Task,
                   kind : {"created", "updated", "deleted"}, version : Nat]
  <2>1. commits \in Seq(C)
    BY DEF TypeInv, TypeOK
  <2>2. \A i \in DOMAIN commits : commits[i] \in C
    <3> HIDE DEF C
    <3> QED
      BY <2>1
  <2>3. \A i \in DOMAIN commits : commits[i].task \in Task
    BY <2>2
  <2> QED
    BY <2>3 DEF Minted
<1>1. CASE ReadTask(w)
  <2>1. /\ T(w)' = T(w) /\ UNCHANGED <<tasks, commits>>
        /\ tasks[T(w)] # NULL /\ read'[w] = tasks[T(w)].fields
    BY <1>1 DEF ReadTask, Enter, database, calls, history, TypeInv, TypeOK
  <2>2. T(w) \in Task
    BY <1>1 DEF ReadTask, TypeInv, WorkersReady, CommandsKept, Busy, Command
  <2> QED
    BY <2>1, <2>2 DEF TasksMinted, Minted
<1>2. CASE ~ReadTask(w)
  <2>1. stage[w] = "read" /\ T(w)' = T(w) /\ read'[w] = read[w]
    <3>1. ASSUME NEW r \in Request, NEW c \in Command, Authorize(r, c)
          PROVE  stage[w] = "read" /\ T(w)' = T(w) /\ read'[w] = read[w]
      <4>1. stage' = stage /\ holds' = holds /\ read' = read
        BY <3>1 DEF Authorize, workers
      <4>2. call[r] = "new" /\ \A q \in Request \ {r} : cmd'[q] = cmd[q]
        BY <3>1 DEF Authorize, TypeInv, TypeOK
      <4>3. holds[w] \in Request /\ holds[w] # r
        BY <4>1, <4>2 DEF TypeInv, WorkersReady, CommandsKept, Busy
      <4> QED
        BY <4>1, <4>2, <4>3
    <3>2. ASSUME NEW r \in Request,
                 Reject(r) \/ Dispatch(r) \/ Deliver(r) \/ Timeout(r)
                 \/ RecoverStalled(r)
          PROVE  stage[w] = "read" /\ T(w)' = T(w) /\ read'[w] = read[w]
      BY <3>2 DEF Reject, Dispatch, Deliver, Timeout, RecoverStalled, calls, workers
    <3>3. ASSUME NEW v \in Worker, WorkerStep(v) \/ Crash(v) \/ Restart(v)
          PROVE  stage[w] = "read" /\ T(w)' = T(w) /\ read'[w] = read[w]
      <4>1. v # w
        BY <1>2, <3>3 DEF WorkerStep, Take, HandleCreate, HandleUpdate, HandleDelete,
           Abort, Publish, Settle, Crash, Restart, Committed, Enter, LetGo, TypeInv,
           TypeOK, Settled
      <4>2. stage'[w] = stage[w] /\ holds'[w] = holds[w] /\ read'[w] = read[w]
            /\ cmd' = cmd
        BY <3>3, <4>1 DEF WorkerStep, Take, HandleCreate, ReadTask, HandleUpdate,
           HandleDelete, Abort, Publish, Settle, Crash, Restart, Committed, Enter,
           LetGo, calls, TypeInv, TypeOK
      <4> QED
        BY <4>2
    <3>4. CASE DeleteTeam \/ UNCHANGED vars
      BY <3>4 DEF DeleteTeam, vars, calls, workers
    <3> QED
      BY <3>1, <3>2, <3>3, <3>4 DEF Next
  <2>2. T(w) \in Minted /\ T(w) \in Task /\ T(w) \in Minted'
        /\ (tasks[T(w)] # NULL => read[w] = tasks[T(w)].fields)
    BY <2>1, <1>a, WritesMint DEF ReadFresh
  <2>3. tasks'[T(w)] = tasks[T(w)] \/ tasks'[T(w)] = NULL
    <3>1. ASSUME NEW v \in Worker, HandleCreate(v)
          PROVE  tasks'[T(w)] = tasks[T(w)]
      BY <2>2, <3>1, WritesMint
    <3>2. ASSUME NEW v \in Worker, HandleUpdate(v)
          PROVE  tasks'[T(w)] = tasks[T(w)]
      <4>1. stage[v] = "read" /\ stage'[v] # "read"
        BY <3>2 DEF HandleUpdate, Committed, Enter, TypeInv, TypeOK
      <4>2. T(v) # T(w)
        BY <2>1, <4>1 DEF UpdatesApart
      <4> QED
        BY <2>2, <3>2, <4>2 DEF HandleUpdate, TypeInv, TypeOK
    <3>3. ASSUME NEW v \in Worker, HandleDelete(v)
          PROVE  tasks'[T(w)] = tasks[T(w)] \/ tasks'[T(w)] = NULL
      BY <2>2, <3>3 DEF HandleDelete, TypeInv, TypeOK
    <3>4. CASE DeleteTeam \/ UNCHANGED <<tasks, log, commits>>
      BY <2>2, <3>4 DEF DeleteTeam
    <3> QED
      BY <3>1, <3>2, <3>3, <3>4, TableSteps
  <2> QED
    BY <2>1, <2>2, <2>3
<1> QED
  BY <1>1, <1>2

\* completedAt is decided on what was read; unless updates overlap that is the row.
LEMMA NextCompletedIffDone ==
    ASSUME TypeInv, ReadFresh, CompletedIffDone, [Next]_vars
    PROVE  CompletedIffDone'
<1> USE DEF CompletedIffDone
<1>1. ASSUME NEW w \in Worker, HandleCreate(w)
      PROVE  CompletedIffDone'
  <2> DEFINE new == NewRow(cmd[holds[w]].data)
  <2>1. CASE UNCHANGED tasks
    BY <2>1
  <2>2. ASSUME NEW t \in Task, tasks' = [tasks EXCEPT ![t] = new]
        PROVE  CompletedIffDone'
    <3>1. new.completed <=> new.fields["status"] = Done
      BY DEF NewRow
    <3> QED
      BY <2>2, <3>1 DEF TypeInv, TypeOK
  <2> QED
    BY <1>1, <2>1, <2>2 DEF HandleCreate
<1>2. ASSUME NEW w \in Worker, HandleUpdate(w)
      PROVE  CompletedIffDone'
  <2> DEFINE t == cmd[holds[w]].task
             data == cmd[holds[w]].data
             new == UpdatedRow(tasks[t], read[w], data)
  <2>1. CASE UNCHANGED tasks
    BY <2>1
  <2>2. CASE tasks[t] # NULL /\ tasks' = [tasks EXCEPT ![t] = new]
    <3>1. t \in Task /\ data \in Updates
      BY <1>2, WorkInHand
    <3>2. read[w] = tasks[t].fields
      BY <1>2, <2>2 DEF HandleUpdate, ReadFresh
    <3>3. tasks[t].completed \in BOOLEAN
          /\ (tasks[t].completed <=> tasks[t].fields["status"] = Done)
      BY <2>2, <3>1 DEF TypeInv, TypeOK, Row
    <3>4. new.completed <=> new.fields["status"] = Done
      BY <3>2, <3>3 DEF UpdatedRow, Completes, Reopens, Field
    <3> QED
      BY <2>2, <3>1, <3>4 DEF TypeInv, TypeOK
  <2> QED
    BY <1>2, <2>1, <2>2 DEF HandleUpdate
<1>3. ASSUME NEW w \in Worker, HandleDelete(w)
      PROVE  CompletedIffDone'
  BY <1>3, WorkInHand DEF HandleDelete, TypeInv, TypeOK
<1>4. CASE DeleteTeam
  BY <1>4 DEF DeleteTeam
<1>5. CASE UNCHANGED <<tasks, log, commits>>
  BY <1>5
<1> QED
  BY <1>1, <1>2, <1>3, <1>4, <1>5, TableSteps

\* One worker alone cannot overlap with itself.
LEMMA OneWorkerApart == OneWorker => UpdatesApart
BY DEF OneWorker, UpdatesApart

\* With any number of workers, what was read stays fresh while updates are apart.
LEMMA ReadStaysFresh == Spec /\ []UpdatesApart => [](TypeInv /\ SerialInv)
<1>1. Init => TypeInv /\ SerialInv
  BY InitTypeInv, InitSerialInv
<1>2. UpdatesApart /\ TypeInv /\ SerialInv /\ [Next]_vars => TypeInv' /\ SerialInv'
  BY NextTypeInv, NextReadFresh, NextTasksMinted DEF SerialInv
<1> QED
  BY <1>1, <1>2, PTL DEF Spec

\* completedAt is set exactly for the tasks that are DONE, with any number of
\* workers, as long as no two updates of one task overlap: nothing else that
\* may happen in between (a creation, a deletion, a crash, a repetition, an
\* update of another task) separates the two.
THEOREM CompletedFollowsStatus == Spec /\ []UpdatesApart => []CompletedIffDone
<1>1. Init => CompletedIffDone
  BY DEF Init, CompletedIffDone
<1>2. TypeInv /\ SerialInv /\ CompletedIffDone /\ [Next]_vars => CompletedIffDone'
  BY NextCompletedIffDone DEF SerialInv
<1> QED
  BY <1>1, <1>2, ReadStaysFresh, PTL DEF Spec

\* In particular with one worker, as README.md of the repository promises.
THEOREM OneWorkerCompletes ==
    ASSUME OneWorker
    PROVE  Spec => []CompletedIffDone
<1>1. UpdatesApart
  BY OneWorker, OneWorkerApart
<1> QED
  BY <1>1, CompletedFollowsStatus, PTL

-----------------------------------------------------------------------------
(* Updates that do not overlap implement the atomic timeline.              *)

\* Both specifications compute rows with the operators of TaskRows.
LEMMA SameRows ==
    /\ Timeline!CreatedEntry = CreatedEntry
    /\ \A data : Timeline!NewRow(data) = NewRow(data)
    /\ \A row, before, data :
          Timeline!UpdatedRow(row, before, data) = UpdatedRow(row, before, data)
    /\ \A before, data : Timeline!UpdatedEntry(before, data) = UpdatedEntry(before, data)
<1>1. \A f, x, y : Timeline!Differs(f, x, y) = Differs(f, x, y)
  BY DEF Timeline!Differs, Differs
<1>2. \A before, data : Timeline!Diff(before, data) = Diff(before, data)
  BY <1>1 DEF Timeline!Diff, Diff, Timeline!Field, Field
<1>3. \A before, data, c :
         Timeline!DeriveAction(before, data, c) = DeriveAction(before, data, c)
  BY DEF Timeline!DeriveAction, DeriveAction
<1>4. \A before, data : Timeline!UpdatedEntry(before, data) = UpdatedEntry(before, data)
  BY <1>2, <1>3 DEF Timeline!UpdatedEntry, UpdatedEntry
<1>5. \A row, before, data :
         Timeline!UpdatedRow(row, before, data) = UpdatedRow(row, before, data)
  BY DEF Timeline!UpdatedRow, UpdatedRow, Timeline!Completes, Completes,
         Timeline!Reopens, Reopens, Timeline!Field, Field
<1> QED
  BY <1>4, <1>5 DEF Timeline!NewRow, NewRow, Timeline!DefaultFields, DefaultFields,
     Timeline!Field, Field, Timeline!CreatedEntry, CreatedEntry

LEMMA InitRefines == Init => Timeline!Init
BY DEF Init, Timeline!Init, Minted

\* Each transaction of the worker is one command of TaskTimeline.
LEMMA NextRefines ==
    ASSUME TypeInv, SerialInv, [Next]_vars
    PROVE  [Timeline!Next]_(Timeline!vars)
<1> USE DEF SerialInv, Timeline!Next, Timeline!vars
<1>1. ASSUME NEW w \in Worker, HandleCreate(w)
      PROVE  [Timeline!Next]_(Timeline!vars)
  <2> DEFINE data == cmd[holds[w]].data
  <2>1. CASE UNCHANGED <<tasks, log, commits>>
    BY <2>1 DEF Minted
  <2>2. ASSUME NEW t \in Task \ Minted, Committed(w, t, "created", 0),
               tasks' = [tasks EXCEPT ![t] = NewRow(data)],
               log' = [log EXCEPT ![t] = <<CreatedEntry>>]
        PROVE  Timeline!Next
    <3>1. Minted' = Minted \cup {t} /\ data \in Creates
      BY <1>1, <2>2, WorkInHand, MintedGrows
    <3>2. Timeline!Create(t, data)
      BY <2>2, <3>1, SameRows DEF Timeline!Create
    <3> QED
      BY <3>1, <3>2
  <2> QED
    BY <1>1, <2>1, <2>2 DEF HandleCreate
<1>2. ASSUME NEW w \in Worker, HandleUpdate(w)
      PROVE  [Timeline!Next]_(Timeline!vars)
  <2> DEFINE t == cmd[holds[w]].task
             data == cmd[holds[w]].data
  <2>1. CASE UNCHANGED <<tasks, log, commits>>
    BY <2>1 DEF Minted
  <2>2. CASE /\ tasks[t] # NULL
             /\ tasks' = [tasks EXCEPT ![t] = UpdatedRow(@, read[w], data)]
             /\ log' = [log EXCEPT ![t] = Append(@, UpdatedEntry(read[w], data))]
             /\ Committed(w, t, "updated", tasks[t].version + 1)
    <3>1. t \in Task /\ data \in Updates /\ tasks[t].version + 1 \in Nat
      <4>1. t \in Task /\ data \in Updates
        BY <1>2, WorkInHand
      <4>2. tasks[t] \in Row
        BY <2>2, <4>1 DEF TypeInv, TypeOK
      <4> QED
        BY <4>1, <4>2 DEF Row
    <3>2. read[w] = tasks[t].fields
      BY <1>2, <2>2 DEF HandleUpdate, ReadFresh
    <3>3. Minted' = Minted
      BY <1>2, <2>2, <3>1, WorkInHand, MintedGrows DEF TasksMinted
    <3>4. Timeline!Update(t, data)
      BY <2>2, <3>1, <3>2, <3>3, SameRows DEF Timeline!Update, TypeInv, TypeOK
    <3> QED
      BY <3>1, <3>4
  <2> QED
    BY <1>2, <2>1, <2>2 DEF HandleUpdate
<1>3. ASSUME NEW w \in Worker, HandleDelete(w)
      PROVE  [Timeline!Next]_(Timeline!vars)
  <2> DEFINE t == cmd[holds[w]].task
  <2>1. CASE UNCHANGED <<tasks, log, commits>>
    BY <2>1 DEF Minted
  <2>2. CASE /\ tasks[t] # NULL
             /\ tasks' = [tasks EXCEPT ![t] = NULL]
             /\ log' = [log EXCEPT ![t] = <<>>]
             /\ Committed(w, t, "deleted", 0)
    <3>1. t \in Task /\ Minted' = Minted
      BY <1>3, <2>2, WorkInHand, MintedGrows DEF TasksMinted
    <3>2. Timeline!Delete(t)
      BY <2>2, <3>1 DEF Timeline!Delete
    <3> QED
      BY <3>1, <3>2
  <2> QED
    BY <1>3, <2>1, <2>2 DEF HandleDelete
<1>4. CASE DeleteTeam
  BY <1>4 DEF DeleteTeam, history, Minted, Timeline!DeleteAll
<1>5. CASE UNCHANGED <<tasks, log, commits>>
  BY <1>5 DEF Minted
<1> QED
  BY <1>1, <1>2, <1>3, <1>4, <1>5, TableSteps

\* The tasks and their activity log behave as if every command ran alone on what
\* the previous one left, with any number of workers, as long as no two updates
\* of one task overlap, whatever requests time out and whatever crashes and
\* repetitions happen.
THEOREM ApartImplementsTimeline == Spec /\ []UpdatesApart => RefinesTimeline
<1>1. TypeInv /\ SerialInv /\ [Next]_vars => [Timeline!Next]_(Timeline!vars)
  BY NextRefines
<1> QED
  BY <1>1, InitRefines, ReadStaysFresh, PTL
     DEF Spec, RefinesTimeline, Timeline!Spec

\* With one worker they always do.
THEOREM OneWorkerImplementsTimeline ==
    ASSUME OneWorker
    PROVE  Spec => RefinesTimeline
<1>1. UpdatesApart
  BY OneWorker, OneWorkerApart
<1> QED
  BY <1>1, ApartImplementsTimeline, PTL
=============================================================================
