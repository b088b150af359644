# Verification of Rival Tasks

TLA+ models of the Rival Tasks server (`src/`): a NestJS application over PostgreSQL,
Redis and BullMQ in which teams work on tasks together. Several server instances may run
against one database and one Redis. Each component that has state of its own and more than
one actor gets a module; TLC checks small instances, TLAPS proves the most important
invariants for all instances. `PROJECT.json` lists runs, mutants, hazards, theorems and the
source lines behind every definition.

## 1. Inventory

| Component | State | Operations | Talks to | What is hard |
| --- | --- | --- | --- | --- |
| Task command pipeline (`task.service`, `task-command.queue`, `task.processor`) | tables `Task`, `TaskActivity`; BullMQ queue and job hashes | create, update, delete; list and get only read | authorization, database, queue, publisher | a write spans an HTTP handler, a queue, a worker and a broadcast; callers time out; workers die and their jobs run again; every instance has a worker; the team may be deleted meanwhile |
| Edit lock (`edit-lock.service`, three handlers of `realtime.controller`) | one Redis key with a time to live per task | acquire, refresh by draft, release | Redis, publisher | reads and writes are separate calls, the key may expire in between, some Redis errors are swallowed and some are not |
| Presence and event stream (`presence.service`, `realtime.controller` `stream`) | a Redis hash of connection counters per team; open SSE streams | open, set up, disconnect, tear down | authorization, Redis, bus | clients disconnect during the set-up; join and leave race on one counter; counters never expire |
| Realtime bus (`realtime-bus.service`) | listeners per channel, one subscriber connection | subscribe, unsubscribe, deliver | Redis pub/sub | reference counts against asynchronous SUBSCRIBE and UNSUBSCRIBE, and their failure (not modelled) |
| Authorization (`authorization.service`, guards) | none; reads `Team`, `TeamMember`, `Role` | getTeamAccess, assertTeamPermission, getTaskAccess | database | decisions are stale by the time they are acted on |
| Sessions and OTPs (`auth.service`) | tables `Session`, `User` | sign-up, sign-in, request and verify codes, refresh, log out | database, e-mail | rotation and one-time use in separate statements; one failing after another was written |
| User cache and admin actions (`auth.service`, `admin.service`) | Redis entries per access token; `User.role`, `User.isDisabled` | validate, invalidate, change role, disable | Redis, database | a fill racing an invalidation; lifetimes of entry and token; two admins at once; Redis errors that are swallowed |
| Teams, roles, members, invites (`team.service`, `invite.service`) | `Team`, `Role`, `TeamMember`, `Invite` | CRUD, invite, accept, decline, revoke | authorization, publisher, e-mail | check-then-act on rows of other requests, held together by foreign keys |
| Attachments (`attachment.service`) | `TaskAttachment` rows and files | upload, link, remove | authorization, disk, publisher | two stores written one after the other |
| E-mail queue, throttling, logging, start-up, Redis client | none of the program's own | | | libraries and I/O |

How they interact: a handler authorizes against the database, then acts. Task writes act
through the queue; the worker commits and publishes to the team's Redis channel; every
instance's bus hands the event to its streams. Lock and presence act on Redis directly and
publish on the same channels. Authorization answers are a snapshot: no component holds a
lock on the rows it was authorized by.

What makes each component correct:

* *Pipeline*: row, version and activity log agree; the log, replayed over the
  values the task was created with, gives the row; the answer to
  the caller is true; events carry committed state in order; commands commit in queue order;
  nothing stays queued for ever; the whole amounts to atomic steps on the tables.
* *Edit lock*: one holder at a time; nobody is told that it holds a lock that is not its own;
  drafts come from holders; the lock of a vanished editor goes away.
* *Presence*: a user is online exactly while it has an open stream, and the transitions
  announced say so.
* *User cache*: an entry that no longer tells what the row says is gone after the lifetime the
  code gives it; an entry outlives its token by a bounded time; an admin remains.
* *Sessions*: a refresh token that was replaced is refused; an ended session stays ended; a
  code is accepted once, and the stored one is the mailed one.
* *Teams and invites*: the owner stays an administrator; roles in use exist and belong to the
  team; nobody is a member without an invite of its own; an invite is used once.
* *Attachments*: no row without its file; no file without a row unless something failed or the
  task was deleted; the last event about an attachment tells whether it is there.

## 2. Modules

| Module | Models |
| --- | --- |
| `TaskRows` | the rows of migration 005 and the pure functions of `task.processor.ts`: column defaults, the UPDATE, `diff`, `deriveAction`, and what a consistent log means |
| `TaskTimeline` | the abstract specification: tables that change by atomic create, update, delete and cascade |
| `TaskPipeline` | the request, the queue, the workers and the broadcast |
| `TaskPipelineProofs` | theorems about it: types, versions, completion, the refinement of `TaskTimeline` |
| `TaskHistoryProofs` | theorems about its history: runs, answers, events, the activity log, writes that stand |
| `EditLease` | the abstract specification of the lock: a lease that is won, renewed, handed back or lapses, each at once |
| `EditLock`, `EditLockProofs` | the lock and theorems about it; implements `EditLease` |
| `Presence`, `PresenceProofs` | streams and connection counters, and theorems about them |
| `TokenCache`, `TokenCacheProofs` | validation of access tokens through Redis, the administration of users, and theorems |
| `TeamBook` | the abstract specification of teams: whole commands on the tables, each with what it needs true at the write |
| `Teams`, `TeamsProofs` | teams, members, roles, invites and their authorization, and theorems; implements `TeamBook` |
| `SessionBook` | the abstract specification of accounts and sessions: whole commands, and which tokens may leave |
| `Sessions`, `SessionsProofs` | accounts, one-time codes, sessions and their refresh tokens, and theorems; implements `SessionBook` |
| `Attachments`, `AttachmentsProofs` | rows and files of attachments, and theorems |
| `MC…` | constants for TLC |

`TaskPipeline` composes `TaskRows` with the queue and implements `TaskTimeline`; `Teams`
implements `TeamBook`, `Sessions` `SessionBook` and `EditLock` `EditLease`. The abstract modules
have no requests: one step per command, with the guard that makes it right, so that what a
handler checked some statements before its write is what the refinement is about. The others
share no variable: their tables and keys are disjoint, and what one needs of another is an
action of its own (the deletion of a team in `TaskPipeline`, of a task in `Attachments`; the
home team a sign-up makes is the initial state of `Teams`).

Correspondence. A handler is an asynchronous function; between two `await`s it runs alone,
so one action stands for the code from one awaited call to the next. Each module keeps the
place of a handler in a variable (`call` and `stage` in `TaskPipeline`, `pc` elsewhere) whose
values name the call that is due.

`TaskPipeline`: `tasks`, `log`, `team` are the tables; `queue`, `job`, `stalls` are BullMQ's
wait list, job states and stalled counters; `cmd`, `call` belong to requests; `stage`, `holds`,
`read`, `note` to workers (`read` is the row `handleUpdate` selected, `note` the event still
to be sent). `published`, `commits`, `enqueued` are histories. A create or delete is one step
up to COMMIT since its transaction has a single deciding statement; an update is two
(`ReadTask`, `HandleUpdate`) because its SELECT takes no lock. BullMQ is external: taking a job,
settling it and the stalled check are modelled from how the code uses it and from the options
it sets or leaves alone (`attempts: 1`, `concurrency: 1`, `maxStalledCount` at its default).

`EditLock`: `lock` and `ttl` are the Redis key; `granted[u]` is what `u` was told and has no
reason to doubt (it released nothing and its time is not over).

`Presence`: `count` is the Redis hash, `said[u]` the last transition announced for `u`,
`held` the streams counted in and not out.

`TokenCache`: `row` is the User table reduced to role and block, `cache` the Redis entries by
token, each with the tick until which it lives; `pc` walks through `get`, `select`, `fill` of
`validateUserByToken`, the guarded `handler`, and `scan`, `probe`, `delete` of
`invalidateUserCache`, whose loop over the scanned keys is a step per key (`keys`, `doomed`).
`changed` is a history. `Fail` is a Redis error, swallowed by `get`, `set` and `del` as
`redis.service.ts` does; `Die` is a crash between any two steps. The clock is in ticks, `Tick`
expires entries. Ticks pass between any two statements; as the code sets no limit to the time
between the SELECT of a validation and its SET, `MaxDelay` names one, `since` (a history) is
when the row was read, and what is shown about the age of an entry is counted in `MaxDelay`.

`Teams`: one variable per table. A request passes `access` and `member` (`getTeamAccess`), the
checks of its handler (`isDefault`, `usable`, `owner`, `existing`) and the statement named like
the operation. `DeleteTeam` and `DropRole` follow the foreign keys of migration 004: CASCADE
for members, roles and invites of a team, RESTRICT for a role that a row still names.
`minted` holds the ids handed out, `admitted` counts the members an invite made.

`Sessions`: `account` and `session` are the rows; a token is the user, the session and the
second it was signed in (`iat`; `PerSecond` requests arrive in one). `Digest` is what
`bcrypt.hash` keeps of a token: it reads 72 bytes, and those of a JWT end within the user's id,
so the digests of two tokens of one user are equal. `mailed` is the code last queued, `issued`
the cookies that reached clients, `drawn` and `accepted` count codes. `Fail` ends a handler at
any statement with what was written before.

`Attachments`: `row`, `file` and `said` are the table, the disk and the last event per id. A
write to disk may stop half-way (`WriteFails`), an unlink may fail silently (`UnlinkFails`),
any other statement may throw (`Fail`); `DeleteTask` cascades over rows and leaves files.

Abstractions. `title` stands for title, description and priority, which the processor treats
alike. Timestamps, actors and payload texts are left out. `TaskPipeline`, `Presence` and
`EditLock` have one team, `EditLock` one task: the keys and rows of others are disjoint.
Permissions are an arbitrary answer in `TaskPipeline` and computed in `Teams`. Names of teams
and roles are left out: an INSERT that a unique index may refuse has a refusal as alternative. A
swallowed Redis error is an alternative in which nothing happens. Publishing is atomic with
delivery to the channel. Definitions marked as mutants are faulty variants that show each
property can fail; no specification uses them.

## 3. Runs

| Run | Bounds | Shows |
| --- | --- | --- |
| `pipeline_one` | 1 worker, 3 requests, 2 task ids, 1 crash, 1 stall | eight invariants, among them that the log replays to the row, and the refinement of `TaskTimeline` |
| `pipeline_live` | 2 workers, 2 crashes, from a task with an update and another command queued | the last write of a column stands, every update counts, a command is repeated only by stalls; every queued command ends |
| `pipeline_two` | 2 workers | `CompletedIffDone` fails (finding 1) |
| `pipeline_retry` | 1 worker, 1 crash | `AppliedAtMostOnce` fails (finding 2) |
| `editlock` | 2 users, 3 requests | holders, drafters, takeovers; vanished editors lose the lock; the refinement of `EditLease` |
| `presence` | 2 users, 3 streams, 1 failure | counters and announcements |
| `presence_leak` | 2 users, 2 streams, no failure | `GoesOffline` fails (finding 4) |
| `tokencache` | 2 users with a token each, 2 requests, 2 ticks, a delay of 1, 2 changes, 1 failure | how long a cached user can be wrong, and what holds when nothing races |
| `teams` | 2 users, 2 teams, 1 custom role, 1 invite, 4 requests, 2 at a time | ownership, roles, membership; an invite is used once; the refinement of `TeamBook` |
| `sessions` | 2 users, 2 sessions, 2 codes, 4 requests, 2 at a time and 2 a second, 1 failure | ended sessions stay ended, codes; the refinement of `SessionBook` |
| `sessions_rotation` | 1 user, 1 session, 3 requests, one at a time and one a second, no failure | `ReplacedTokenRefused` fails (finding 3) |
| `attachments` | 2 tasks, 3 attachments, 4 requests, 3 at a time, 1 failure | rows have files, files have rows, the last event is right |

Why the bounds suffice. The races of the pipeline need a command that creates a task, one that
touches it and one more to overtake or contradict it: three requests; a second task id shows
that ids are not mixed up; one crash reaches each stage, since it may come at any; with
`MaxStalls = 1` the run with two workers also takes a job through stalling too often. That run
is about commands that overlap on one task, so it starts (`Queued`) where `Spec` gets by
creating a task and queuing two commands for it: an update of status and title, whose caller has
given up waiting, and any other command that was found to be admissible, among them an update of
status and assignee. Each update so sends a column that the other one does not, and either may
commit between the SELECT and the UPDATE of the other, before or after a crash. The update data
of `pipeline_one` set, clear and repeat a date, clear an assignee, enter and leave DONE, so that
every branch of `deriveAction` but STATUS_CHANGED (which needs a third status) is taken and an
update without any effect occurs. The lock needs a holder, a rival, and a late request of the
first: two users, three requests. The counter races need two streams of one user, and a third
stream to come after them; a second user shows that counters are not mixed up. In `tokencache` a
token and an entry live a tick each and a validation may take one, so an entry can be filled
before, at and after a change, or with a token that has expired meanwhile, and outlive it; two
changes and two administrators make the mutual demotion. In `teams` a request overtakes another
between any two of its statements; ann has her home team, bob has none, so an insider and an
outsider meet in each team; one role and one invite are enough for the check to be stale at the
write; ids are not used again, so runs are short. `sessions` needs two codes for the wrong one
to be stored or mailed, two sessions for a user to have a new one after an old one ended, and
four requests to sign up, get a code, verify it and overlap with one more. `attachments` needs
an upload, two removals of it and a bystander. `CHECK_DEADLOCK FALSE` is set throughout: every
request is sent once, so each system comes to rest.

Where a component's type invariant is a theorem and its run checks a refinement instead
(`pipeline_one`, `editlock`, `teams`, `sessions`), the run leaves `TypeOK` to the proof.

Fairness. `TaskPipeline`: a live worker goes on, a dead instance is restarted by its process
manager, and BullMQ's stalled check runs on a timer; crashes are finite in number, or nothing
could be promised. `EditLock` and `Presence`: a handler that was started runs to its end, and
Redis drops a key whose time is over. The four other modules state no liveness and assume no
fairness: their handlers are sequences without loops or waits, and whatever they leave undone
when they die is what the properties are about. Nowhere must a client send anything, nor a
caller wait.

`calm`. Most modules promise more to well-behaved clients than to others. Both behaviours are in
one run: `calm` is chosen initially and never changes, and the stronger properties are
conditional on it. In `EditLock` calm means that a user has one request at a time and its key
does not expire during it; in `Presence`, that a user opens or closes a stream only when its
others are settled, and that nothing fails; in `TokenCache`, that Redis answers, that no
validation is between its SELECT and its SET when the row changes, and that administrators act
one at a time; in `Teams`, that no handler of an invite starts while another has loaded it and
not written it; in `Sessions`, that codes of a user are sent one by one and checked one by one;
in `Attachments`, that clients remove what was announced to them. The code enforces neither; the
properties say what it relies on.

## 4. Findings

1. `completedAt` can contradict the status. `handleUpdate` decides it on a row read without a
   lock, and `concurrency: 1` bounds each instance's worker, not the queue. With two instances
   two updates interleave. The same holds for the recorded changes and the activity kind.
2. A command can be applied twice. `attempts: 1` does not stop BullMQ from running a stalled
   job again; if the worker died after COMMIT, the second run creates a second task.
3. Refresh tokens do not rotate. The README says that they do on every refresh, and
   `refreshToken` compares the token it is shown with the stored digest before it replaces both.
   But bcrypt reads 72 bytes, and those of a JWT end inside the user's id: the digests of all
   refresh tokens of one user are equal, and a token that was replaced is accepted for as long
   as its session lives.
4. A user can stay online for ever. A client that disconnects during the set-up of its stream
   finds an empty teardown; the stream then joins and subscribes with nobody to end it.

Not a run of its own, but visible in the models: in `leave`, a join between HINCRBY and HDEL is
erased from the counter, which is why `CountsTabs` is conditional; an activity row is removed
by the cascade of its task although the table is called append-only; and no update carries a
version although migration 005 says that stale ones are rejected: what holds is that the last
committed write wins, column by column, and none is lost (`LastWriteStands`).

Further behaviour without a run of its own, which the properties are stated around:

* Two users can be told that they hold the lock: a refresh reads the holder, the key expires,
  another user wins it, and the refresh writes its stale holder back. `OneEditorWhenCalm` is
  stated for keys that do not expire under a running handler; `NoTakeoverByOutsider` and
  `RefinesLease` bound what a late write can do: it serves only a user who won the lock before.
* A cached user outlives its token, by less than `USER_TOKEN_CACHE_TTL` and the time its
  validation took: `constants.ts:5` says that it cannot. `OutlivesByLessThanTtl` is what holds.
* A Redis error or a crash between the UPDATE of an administrator and the last DEL leaves the
  old user cached until the entry expires, and so does a validation that had read the row
  (`StaleAtMostTtl`; `CalmDropsStale` is what the code does otherwise).
* Two administrators who demote each other at once leave none (`CalmAdminRemains`).
* `accept`, `decline` and the expiry write the status of an invite without asking for PENDING
  again: a revoked invite may still be accepted, or an accepted one end as declined.
* `verifyOtp` compares and clears in two statements: two verifications at once both pass.
* The refresh that finds its session expired deletes it even if another refresh has prolonged
  it meanwhile.
* Files stay behind when the INSERT after a write fails, when an unlink fails or its process
  dies, and when a task is deleted. Nothing collects them.
* `TeamService.create` looks for a team of the same name and inserts in two statements, without
  a unique index: two requests make two.

## 5. Proofs

The theorems are invariants (`Spec => []Inv`), action properties and refinements, for every
value of the constants under the named assumptions of the modules. Some of the pipeline's hold
only while concurrent workers keep out of each other's way; those are `Spec /\ []Apart => ...`,
where `Apart` is a state predicate that says of which statements two workers must not both be
in the middle, and each has a corollary for the case in which it always holds, one worker
(`OneWorker...`).

`TaskPipelineProofs`. `TypeCorrect` and `VersionsCount` hold with any number of workers. The
type invariant is strengthened by what a stage knows: a live job's request has a command, a
worker past `start` holds an update and what it read. `CompletedFollowsStatus` and
`ApartImplementsTimeline` assume `UpdatesApart`: no two workers are between the SELECT and the
COMMIT of an update of the same task. Their invariant says that what a worker read is still
what the row holds (`ReadFresh`: nobody else updates the row meanwhile, and a deleted row stays
deleted since ids are minted once), which makes the two halves of an update one atomic step of
`TaskTimeline`. Several instances satisfy the assumption as long as updates of one task do not
overlap; finding 1 is what happens when they do.

`TaskHistoryProofs`. With any number of workers: `EventsTellCommits` (an event that waits to be
sent was recorded by its transaction), `SuccessWasApplied` (whoever is past COMMIT, and every
completed job, has a commit), `NotFoundMeansGone` (`MissedGone`: whoever was told TASK_NOT_FOUND
named an id that was minted, and a minted id that is gone never comes back) and
`RepeatedOnlyByStalls`, which rests on `JobTokens` (a job is in the wait list once or in the
hands of one worker) and `Budgeted` (while a job may still commit, it has been applied no more
often than it stalled). Two more of that kind say what does survive the race of finding 1.
`NoWriteIsLost`: a column holds what the last committed command that sent it carried, because
the UPDATE names the columns sent and takes the others from the row it writes over, not from the
one it read. `LastWriteStands` is inductive with `Commanded`, that a command is set before its
first commit and never changes. `pipeline_live` checks the property where two workers overlap;
the theorem has no bound on the workers. `RecordsStay`: a step of any worker leaves a row and
its log alone, or adds one to the version and one row to the end of the log; a deleted id stays
deleted.

Under assumptions on overlap: `ApartSendsInOrder` (`NotesApart`: no two workers hold an unsent
event of the same task; then, by `OrderInv`, no event sent outruns the row, and the one to be
sent outruns all that were), `ApartIsFifo` (`FirstRunsApart`: no two workers run, at the same
time, commands that never stalled; by `FifoInv` a later command then waits as long as an earlier
one may still commit), and `ApartLogReplays` and `ApartLogTellsCompletion` (`UpdatesApart`: an
update appends what joins up with the log because it read what it writes over). Their invariant,
`LogTrue`, names the commit that created the task: replayed over the values of that command, the
log gives every column of the row, each recorded `from` is what the entries before it make of
the column, and only a due date that is set again is recorded without a change
(`CreatedReplays`, `ReplayAppend`). Both also assume `NullIsNoChange`, that SQL NULL is not a
change object.

`EditLockProofs`. `NoTakeover` and `DraftersWon` rest on `WinnersOnly`: the key, and whatever a
handler has read from it, name users who won the lock by SET NX. `OneEditorHolds` rests on
`CalmInv`: a handler about to write the key works for the user the key names.
`HandlersImplementLease` takes each SET, DEL and published draft to a command of `EditLease`,
whose guard `Entitled` is what the GET before it compared: its user won the lock once, and when
`calm` still holds it now. `DraftsHold` carries that past the refresh to the publication.

`PresenceProofs`. `CountersBounded` compares each counter with the cardinality of `held`;
HDEL only brings a counter to 0, which no cardinality is below. It needs to know that a stream
joins at most once (`Unjoined`) and leaves only what it joined (part of `TypeOK`).
`TabsCounted` rests on `TabsInv`: a user has one stream in transit at most, so between HINCRBY
and HDEL no join can come, the counter equals the cardinality, and the last announcement is
right except while it is being made.

`TokenCacheProofs`. `StaleEntriesLapse` and `EntriesOutliveBriefly` rest on `Clock`: an entry
that is out of date has at most one lifetime and `MaxDelay` from the change on; a fill under way
began no more than `MaxDelay` ago, with a token that was good then, and a row it no longer agrees
with changed at that tick or later. `ChangesReachTheCache` and
`SomebodyAdministrates` rest on `CalmInv`: every out-of-date entry is among the keys that some
request is still going to scan, probe or delete; a validation about to fill holds what the row
says; the one administrator at work is, in the row, who the guard took it for, so that the rule
against demoting oneself leaves that one.

`TeamsProofs`. The four invariants are inductive only together with what handlers remember:
`Knows` says what a request found out about rows that its next statement relies on (the target
is not the owner, the role is of this team, the invite is addressed to the caller), and
`Evolve`, that no step invalidates it, because ids are handed out once and owner, team of a
role and address of an invite are never updated. `OneInviteOneMember` adds that a handler about
to write an invite is the only one and has it pending as it was loaded. `HandlersImplementBook`
takes each statement that writes to its command of `TeamBook` (`Assign` for the UPDATE of a
member's role, and so on) and every other statement to a stutter. The guards of the commands are
what must be shown: the member is not the owner and the role is of the team, from `Knows` and
the foreign keys; the team is no default team, since `isDefault` never changes; an invite that
is closed as expired is past its time, and the invite accepted is pending when `calm`. Permissions
are not among the guards, because they may be gone by the write.

`SessionsProofs`. `EndedSessionsStayEnded` needs that ids are
minted once and that the rotation updates. `CodesWorkOnce` (`CodeInv`) charges each accepted
code to one drawn: a row with a code, and a handler about to clear one, have one drawn more
than was accepted. `StoredCodesAreMailed`
(`MailInv`) follows the one request that has drawn a code and not mailed it yet.
`HandlersImplementBook` maps the cookies that reached clients to the pairs of user and session
they name. A sign-up needs that the email is still free at the INSERT, which only the unique
index gives; a rotation, that the session it updates is its user's (`TokenInv`: every token
issued or in the hands of a handler names the user of its session); a token handed
out, that its session, if it still exists, stores the digest of that user's tokens; a code that
is cleared, that it was still there (`CodesThere`, when verifications of a user do not overlap).

`AttachmentsProofs`. `RowsHaveTheirFiles` is strengthened by what a request knows of its id:
the file of an upload that waits for its row is whole and nobody else's (`IdsFresh`), and a row
that a removal has read is never written again (`RemovalsKnow`).
`NoFileIsForgotten` follows with no failure so far. `LastWordIsTrue` splits the history of
an id in two: `FirstWord`, the one request that adds it speaks first, and nobody removes it
before; `NextWord`, whatever the last event does not tell yet, a request is about to. A client
that does not wait for the announcement breaks the first, a failed step the second.

The refinements share a shape: a lemma for the initial states, a lemma per command, one that
says that whatever leaves the shared tables alone leaves the abstract variables alone, and a
step lemma `[Next]_vars => [Book!Next]_(Book!vars)` under the strengthened invariant.

Only model-checked: all liveness (`EveryCommandSettles`, `VanishedEditorLosesLock`,
`CalmGoesOffline`), which is out of the prover's reach. Every other property that a passing run
checks is a theorem.

Left to do: abstract specifications of presence (a user is on while it has a stream), of the
user cache (a lease on a row) and of the attachments of a task, for `Presence`, `TokenCache` and
`Attachments` to implement.

## 6. Not modelled, and why

* A worker that stalls without dying (its lock expires while it still runs) and goes on to
  commit beside its successor: it would break the single-writer assumption like finding 1.
* A COMMIT whose acknowledgement is lost; QueueEvents missing the end of a job, which the
  caller sees as a timeout. Its effect is that of `Timeout`.
* When the model runs out of task ids a create can only abort. The database never does.
* The realtime bus: its table of listeners changes synchronously, and what is subscribed after
  overlapping SUBSCRIBE and UNSUBSCRIBE, an error or a reconnect is decided inside ioredis.
* What a client makes of the snapshot and events it receives, and a member who is removed while
  its stream is open: the server keeps no state of either and does nothing about them.
* Delivery of mail with its three attempts, and the throttler: BullMQ's and a library's state.
* Names of teams and roles, and with them two teams of one name.
* Listing and reading, paging, validation, e-mail texts, link previews: no shared state.
