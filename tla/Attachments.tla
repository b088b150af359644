------------------------------ MODULE Attachments ------------------------------
(***************************************************************************)
(* The files and links of a task: attachment.service.ts, which keeps rows  *)
(* in PostgreSQL and files on the disk of the server, writes the two one   *)
(* after the other and announces the outcome to the team.  Tasks are       *)
(* deleted by the worker (TaskPipeline), and their rows go with them.      *)
(* Left out: listing, names and contents, and what a link preview shows.   *)
(***************************************************************************)
EXTENDS Naturals

CONSTANTS
    Task, Request, NULL,
    Attachment,   \* ids: of a row, and of the file stored under a random name
    MaxRequests,  \* bound on the requests that are made
    MaxFailures   \* bound on statements that fail

ASSUME BoundAssumption == MaxRequests \in Nat /\ MaxFailures \in Nat

VARIABLES
    task,     \* the tasks that exist
    row,      \* rows of "TaskAttachment"
    file,     \* the directory and the state of a file below uploads/
    minted,   \* ids already handed out: none is used twice
    said,     \* the last event about an attachment
    op, pc,   \* what a request asks for with its locals, and its next statement
    requests, failures,
    calm      \* whether clients remove only what was announced to them

stores == <<task, row, file, minted, said>>
vars == <<task, row, file, minted, said, op, pc, requests, failures, calm>>

AttachmentType == {"FILE", "LINK"}
AttachmentRow == [task : Task, type : AttachmentType]
File == [task : Task, whole : BOOLEAN]
Op == [do : {"uploadFile", "addLink", "remove"}, task : Task,
       attachment : Attachment \cup {NULL}, type : AttachmentType]
Pc == {"idle", "access", "write", "insert", "added", "find", "delete", "unlink", "removed"}

ASSUME NullAssumption ==
    NULL \notin Attachment \cup AttachmentRow \cup File \cup Op \cup {"added", "removed"}

First == [uploadFile |-> "write", addLink |-> "insert", remove |-> "find"]

Init ==
    /\ task = Task
    /\ row = [a \in Attachment |-> NULL] /\ file = [a \in Attachment |-> NULL]
    /\ minted = {}
    /\ said = [a \in Attachment |-> NULL]
    /\ op = [r \in Request |-> NULL] /\ pc = [r \in Request |-> "idle"]
    /\ requests = 0 /\ failures = 0
    /\ calm \in BOOLEAN

Goto(r, label) ==
    pc' = [pc EXCEPT ![r] = label] /\ UNCHANGED <<requests, failures, calm>>

Finish(r) == Goto(r, "idle") /\ op' = [op EXCEPT ![r] = NULL]

Refuse(r) == Finish(r) /\ UNCHANGED stores

Start(r, o) ==
    /\ pc[r] = "idle" /\ requests < MaxRequests
    /\ calm /\ o.do = "remove" => said[o.attachment] = "added"
    /\ requests' = requests + 1
    /\ op' = [op EXCEPT ![r] = o] /\ pc' = [pc EXCEPT ![r] = "access"]
    /\ UNCHANGED <<stores, failures, calm>>

\* Any task and any attachment may be named.
Requests ==
    [do : {"uploadFile"}, task : Task, attachment : {NULL}, type : {"FILE"}]
    \cup [do : {"addLink"}, task : Task, attachment : {NULL}, type : {"LINK"}]
    \cup [do : {"remove"}, task : Task, attachment : minted, type : {"LINK"}]

\* getTaskAccess and assertCan: no such task, or not allowed.
Access(r) ==
    /\ pc[r] = "access"
    /\ \/ Refuse(r)
       \/ /\ op[r].task \in task
          /\ Goto(r, First[op[r].do]) /\ UNCHANGED <<stores, op>>

-----------------------------------------------------------------------------
\* uploadFile: mkdir and writeFile under a name of its own.  A failure may leave
\* a part of the file.
Write(r) ==
    LET o == op[r] IN
    /\ pc[r] = "write"
    /\ \E a \in Attachment \ minted :
          /\ file' = [file EXCEPT ![a] = [task |-> o.task, whole |-> TRUE]]
          /\ minted' = minted \cup {a}
          /\ op' = [op EXCEPT ![r].attachment = a]
    /\ Goto(r, "insert") /\ UNCHANGED <<task, row, said>>

WriteFails(r) ==
    /\ pc[r] = "write" /\ failures < MaxFailures
    /\ \E a \in Attachment \ minted :
          /\ file' = [file EXCEPT ![a] = [task |-> op[r].task, whole |-> FALSE]]
          /\ minted' = minted \cup {a}
    /\ failures' = failures + 1
    /\ op' = [op EXCEPT ![r] = NULL] /\ pc' = [pc EXCEPT ![r] = "idle"]
    /\ UNCHANGED <<task, row, said, requests, calm>>

\* Mutant: a link is added without an event.
InsertQuietly(r) ==
    /\ pc[r] = "insert" /\ op[r].task \in task /\ op[r].do = "addLink"
    /\ \E a \in Attachment \ minted :
          /\ row' = [row EXCEPT ![a] = [task |-> op[r].task, type |-> "LINK"]]
          /\ minted' = minted \cup {a}
    /\ Finish(r) /\ UNCHANGED <<task, file, said>>

\* uploadFile and addLink, which looked at the page meanwhile: the foreign key
\* refuses a row whose task is gone.
Insert(r) ==
    LET o == op[r] IN
    /\ pc[r] = "insert"
    /\ \/ o.task \notin task /\ Refuse(r)
       \/ /\ o.task \in task
          /\ \E a \in IF o.do = "uploadFile" THEN {o.attachment} ELSE Attachment \ minted :
                /\ row' = [row EXCEPT ![a] = [task |-> o.task, type |-> o.type]]
                /\ minted' = minted \cup {a}
                /\ op' = [op EXCEPT ![r].attachment = a]
          /\ Goto(r, "added") /\ UNCHANGED <<task, file, said>>

Announce(r, event) ==
    /\ pc[r] = event
    /\ said' = [said EXCEPT ![op[r].attachment] = event]
    /\ Finish(r) /\ UNCHANGED <<task, row, file, minted>>

Found(a, t) == row[a] # NULL /\ row[a].task = t

\* Mutant: the file goes before its row.
FindThenUnlink(r) ==
    LET o == op[r] IN
    /\ pc[r] = "find" /\ o.attachment \in {a \in Attachment : Found(a, o.task)}
    /\ op' = [op EXCEPT ![r].type = row[o.attachment].type]
    /\ file' = [file EXCEPT ![o.attachment] = NULL]
    /\ Goto(r, "delete") /\ UNCHANGED <<task, row, minted, said>>

\* remove: the row of this task, or 404.
Find(r) ==
    LET o == op[r]
        found == o.attachment \in {a \in Attachment : Found(a, o.task)}
    IN
    /\ pc[r] = "find"
    /\ \/ ~found /\ Refuse(r)
       \/ /\ found
          /\ op' = [op EXCEPT ![r].type = row[o.attachment].type]
          /\ Goto(r, "delete") /\ UNCHANGED stores

\* remove: DELETE, which says nothing of a row that another request deleted.
Delete(r) ==
    /\ pc[r] = "delete"
    /\ row' = [row EXCEPT ![op[r].attachment] = NULL]
    /\ Goto(r, "unlink") /\ UNCHANGED <<task, file, minted, said, op>>

\* Mutant: the file of a link is looked for, that of an upload is kept.
UnlinkLinks(r) ==
    LET a == op[r].attachment IN
    /\ pc[r] = "unlink"
    /\ file' = [file EXCEPT ![a] = IF op[r].type = "LINK" THEN NULL ELSE @]
    /\ Goto(r, "removed") /\ UNCHANGED <<task, row, minted, said, op>>

\* remove: the file of an upload.
Unlink(r) ==
    LET a == op[r].attachment IN
    /\ pc[r] = "unlink"
    /\ file' = [file EXCEPT ![a] = IF op[r].type = "FILE" THEN NULL ELSE @]
    /\ Goto(r, "removed") /\ UNCHANGED <<task, row, minted, said, op>>

\* An unlink that fails is not noticed.
UnlinkFails(r) ==
    /\ pc[r] = "unlink" /\ failures < MaxFailures
    /\ failures' = failures + 1
    /\ pc' = [pc EXCEPT ![r] = "removed"]
    /\ UNCHANGED <<stores, op, requests, calm>>

\* A statement fails, or the server dies: what was written stays.
Fail(r) ==
    /\ pc[r] # "idle" /\ failures < MaxFailures
    /\ failures' = failures + 1
    /\ op' = [op EXCEPT ![r] = NULL] /\ pc' = [pc EXCEPT ![r] = "idle"]
    /\ UNCHANGED <<stores, requests, calm>>

\* The worker deletes a task: ON DELETE CASCADE, and the files stay.
DeleteTask(t) ==
    /\ t \in task
    /\ task' = task \ {t}
    /\ row' = [a \in Attachment |-> IF Found(a, t) THEN NULL ELSE row[a]]
    /\ UNCHANGED <<file, minted, said, op, pc, requests, failures, calm>>

Step(r) ==
    \/ \E o \in Requests : Start(r, o)
    \/ Access(r) \/ Write(r) \/ WriteFails(r) \/ Insert(r) \/ Announce(r, "added")
    \/ Find(r) \/ Delete(r) \/ Unlink(r) \/ UnlinkFails(r) \/ Announce(r, "removed")
    \/ Fail(r)

Next == (\E r \in Request : Step(r)) \/ (\E t \in Task : DeleteTask(t))

Spec == Init /\ [][Next]_vars

-----------------------------------------------------------------------------
TypeOK ==
    /\ task \subseteq Task /\ minted \subseteq Attachment
    /\ row \in [Attachment -> AttachmentRow \cup {NULL}]
    /\ file \in [Attachment -> File \cup {NULL}]
    /\ said \in [Attachment -> {"added", "removed", NULL}]
    /\ op \in [Request -> Op \cup {NULL}] /\ pc \in [Request -> Pc]
    /\ \A r \in Request : op[r] = NULL <=> pc[r] = "idle"
    /\ requests \in Nat /\ failures \in Nat /\ calm \in BOOLEAN

\* Whatever fails and however requests overlap, the row of an upload has its
\* whole file below the directory of its task (attachment.service.ts line 58:
\* the file is written before the row, line 161: and removed after it).
RowsHaveFiles ==
    \A a \in Attachment : row[a] # NULL =>
        (row[a].type = "FILE" <=> file[a] = [task |-> row[a].task, whole |-> TRUE])

\* Requests that still have something to do about attachment a.
Handling(a) == {r \in Request : pc[r] # "idle" /\ op[r].attachment = a}

\* When nothing fails, a file without a row is on its way in or out, or its task
\* was deleted.
NoOrphanFiles ==
    failures = 0 => \A a \in Attachment :
        file[a] # NULL /\ row[a] = NULL =>
            \/ file[a].task \notin task
            \/ \E r \in Handling(a) : pc[r] \in {"insert", "unlink"}

\* When nothing fails and clients remove only what was announced to them, the
\* last event about an attachment says whether it exists, once no request is
\* busy with it (line 98 announces after the row is there, line 176 after it is
\* gone), unless some task was deleted.
CalmLastWord ==
    calm /\ failures = 0 => \A a \in Attachment :
        Handling(a) = {} => /\ row[a] # NULL => said[a] = "added"
                            /\ said[a] = "added" /\ task = Task => row[a] # NULL
=============================================================================
