------------------------------- MODULE EditLock -------------------------------
(***************************************************************************)
(* The one-editor-at-a-time lock of a task: edit-lock.service.ts and the   *)
(* three handlers of realtime.controller.ts that use it.  The lock is a    *)
(* Redis key with a time to live; a handler reads it and writes it in      *)
(* separate calls, so the key may expire or change between them.  Tasks    *)
(* have locks of their own: one task is modelled.  The membership check    *)
(* that precedes each handler does not concern the lock and is left out.   *)
(***************************************************************************)
EXTENDS Naturals

CONSTANTS
    User,
    Request,   \* HTTP requests, each sent once
    NULL       \* no key, nobody

ASSUME NullAssumption == NULL \notin User

VARIABLES
    lock,      \* whom the Redis key names, NULL when there is no key
    ttl,       \* whether the key has a time to live
    op, user,  \* what a request asks, and who sent it
    pc, seen,  \* how far its handler is, and what it read
    granted,   \* whether a user was told it has the lock and has not lost it since
    gone,      \* whether a user's client has vanished
    had,       \* history: users that ever won the lock
    heard,     \* history: users whose drafts the team channel carried
    calm       \* whether the clients and the clock behave as OneEditorWhenCalm asks

key  == <<lock, ttl>>
reqs == <<op, user, pc, seen>>
vars == <<lock, ttl, op, user, pc, seen, granted, gone, had, heard, calm>>

Op == {"acquire", "draft", "release"}
Pc == {"new", "setNx", "get", "extend", "delete", "publish", "done", "refused",
       "error"}
Ended == {"new", "done", "refused", "error"}

InFlight(u) == \E q \in Request : user[q] = u /\ pc[q] \notin Ended

Init ==
    /\ lock = NULL
    /\ ttl = FALSE
    /\ op = [q \in Request |-> NULL]
    /\ user = [q \in Request |-> NULL]
    /\ pc = [q \in Request |-> "new"]
    /\ seen = [q \in Request |-> NULL]
    /\ granted = [u \in User |-> FALSE]
    /\ gone = [u \in User |-> FALSE]
    /\ had = {}
    /\ heard = {}
    /\ calm \in BOOLEAN

Goto(q, label) == pc' = [pc EXCEPT ![q] = label]
Tell(q, told) == granted' = [granted EXCEPT ![user[q]] = told]

\* acquireEditLock, streamDraft or releaseEditLock is called.
Start(q, u, o) ==
    /\ pc[q] = "new"
    /\ ~gone[u]
    /\ calm => ~InFlight(u)
    /\ op' = [op EXCEPT ![q] = o]
    /\ user' = [user EXCEPT ![q] = u]
    /\ Goto(q, IF o = "acquire" THEN "setNx" ELSE "get")
    /\ UNCHANGED <<key, seen, granted, gone, had, heard, calm>>

\* Mutant: SET without NX.
SetAlways(q) ==
    /\ pc[q] = "setNx"
    /\ lock' = user[q]
    /\ ttl' = TRUE
    /\ had' = had \cup {user[q]}
    /\ Tell(q, TRUE)
    /\ Goto(q, "publish")
    /\ UNCHANGED <<op, user, seen, gone, heard, calm>>

\* acquire: SET NX EX wins a free lock.  setNxEx lets a Redis error through, of
\* which the caller cannot tell whether the key was set.
SetNx(q) ==
    /\ pc[q] = "setNx"
    /\ \/ /\ lock = NULL
          /\ lock' = user[q]
          /\ ttl' = TRUE
          /\ had' = had \cup {user[q]}
          /\ \/ Tell(q, TRUE) /\ Goto(q, "publish")
             \/ UNCHANGED granted /\ Goto(q, "error")
       \/ /\ lock # NULL
          /\ Goto(q, "get")
          /\ UNCHANGED <<key, had, granted>>
       \/ /\ Goto(q, "error")
          /\ UNCHANGED <<key, had, granted>>
    /\ UNCHANGED <<op, user, seen, gone, heard, calm>>

\* Mutant: whoever holds the lock, the caller goes on.
AfterGetAny(q, holder) ==
    CASE holder # NULL /\ op[q] = "release" -> "delete"
      [] holder # NULL /\ op[q] # "release" -> "extend"
      [] holder = NULL /\ op[q] = "release" -> "done"
      [] holder = NULL /\ op[q] # "release" -> "refused"

\* Mutant: a draft does not need the lock.
AfterGetOpen(q, holder) ==
    CASE op[q] = "draft" -> "publish"
      [] holder = user[q] /\ op[q] = "release" -> "delete"
      [] holder = user[q] /\ op[q] = "acquire" -> "extend"
      [] holder # user[q] /\ op[q] = "release" -> "done"
      [] holder # user[q] /\ op[q] = "acquire" -> "refused"

\* Mutant: a release does not compare the holder.
AfterGetReleasing(q, holder) ==
    CASE op[q] = "release" -> "delete"
      [] holder = user[q] /\ op[q] # "release" -> "extend"
      [] holder # user[q] /\ op[q] # "release" -> "refused"

AfterGet(q, holder) ==
    CASE holder = user[q] /\ op[q] = "release" -> "delete"
      [] holder = user[q] /\ op[q] # "release" -> "extend"
      [] holder # user[q] /\ op[q] = "release" -> "done"
      [] holder # user[q] /\ op[q] # "release" -> "refused"

\* getHolder: RedisService.get turns an error into "no key".
GetHolder(q) ==
    /\ pc[q] = "get"
    /\ \E holder \in {lock, NULL} :
          /\ seen' = [seen EXCEPT ![q] = holder]
          /\ Goto(q, AfterGet(q, holder))
    /\ UNCHANGED <<key, op, user, granted, gone, had, heard, calm>>

\* Mutant: the refreshing SET has no EX.
ExtendForever(q) ==
    /\ pc[q] = "extend"
    /\ lock' = seen[q]
    /\ ttl' = FALSE
    /\ Tell(q, TRUE)
    /\ Goto(q, IF op[q] = "draft" THEN "publish" ELSE "done")
    /\ UNCHANGED <<op, user, seen, gone, had, heard, calm>>

\* acquire and refresh: SET EX, without NX.  RedisService.set swallows errors,
\* and the caller is told it has the lock either way.
Extend(q) ==
    /\ pc[q] = "extend"
    /\ \/ lock' = seen[q] /\ ttl' = TRUE
       \/ UNCHANGED key
    /\ Tell(q, TRUE)
    /\ Goto(q, IF op[q] = "draft" THEN "publish" ELSE "done")
    /\ UNCHANGED <<op, user, seen, gone, had, heard, calm>>

\* release: DEL, whoever holds the key by now; an error is swallowed.
Delete(q) ==
    /\ pc[q] = "delete"
    /\ \/ lock' = NULL /\ ttl' = FALSE
       \/ UNCHANGED key
    /\ Tell(q, FALSE)
    /\ Goto(q, "publish")
    /\ UNCHANGED <<op, user, seen, gone, had, heard, calm>>

\* edit_locked, draft or edit_unlocked goes out, or is lost when Redis fails; only
\* the drafts are kept track of.
Publish(q) ==
    /\ pc[q] = "publish"
    /\ \/ op[q] = "draft" /\ heard' = heard \cup {user[q]}
       \/ UNCHANGED heard
    /\ Goto(q, "done")
    /\ UNCHANGED <<key, op, user, seen, granted, gone, had, calm>>

\* The server instance dies under the handler: nothing more comes of it.
Die(q) ==
    /\ pc[q] \notin Ended
    /\ Goto(q, "error")
    /\ UNCHANGED <<key, op, user, seen, granted, gone, had, heard, calm>>

\* The time to live runs out: a client that did not refresh in time knows it.
Expire ==
    /\ lock # NULL
    /\ ttl
    /\ calm => ~InFlight(lock)
    /\ lock' = NULL
    /\ ttl' = FALSE
    /\ granted' = [granted EXCEPT ![lock] = FALSE]
    /\ UNCHANGED <<reqs, gone, had, heard, calm>>

\* The editor closes the tab, or its network fails.
Vanish(u) ==
    /\ gone' = [gone EXCEPT ![u] = TRUE]
    /\ UNCHANGED <<key, reqs, granted, had, heard, calm>>

Step(q) == SetNx(q) \/ GetHolder(q) \/ Extend(q) \/ Delete(q) \/ Publish(q)
           \/ Die(q)

Next ==
    \/ \E q \in Request : Step(q) \/ \E u \in User, o \in Op : Start(q, u, o)
    \/ \E u \in User : Vanish(u)
    \/ Expire

Spec == Init /\ [][Next]_vars

\* Handlers run to their end, and Redis drops keys whose time is over.  No client
\* has to send anything.
Fairness == WF_vars(Expire) /\ \A q \in Request : WF_vars(Step(q))
FairSpec == Spec /\ Fairness

-----------------------------------------------------------------------------
(* Properties.                                                             *)

\* Every variable keeps its shape, and the key exists only with a holder.
TypeOK ==
    /\ lock \in User \cup {NULL}
    /\ ttl = (lock # NULL)
    /\ op \in [Request -> Op \cup {NULL}]
    /\ user \in [Request -> User \cup {NULL}]
    /\ pc \in [Request -> Pc]
    /\ seen \in [Request -> User \cup {NULL}]
    /\ granted \in [User -> BOOLEAN]
    /\ gone \in [User -> BOOLEAN]
    /\ had \subseteq User
    /\ heard \subseteq User
    /\ calm \in BOOLEAN

\* "One-editor-at-a-time lock": a user who was told it has the lock has it until
\* it releases it or lets it expire.
OneEditor == \A u \in User : granted[u] => lock = u

\* OneEditor needs two things the code cannot enforce: a user sends one request
\* at a time, and its key does not expire while one is being handled.  Without
\* them a late refresh (edit-lock.service.ts 93-98) takes the lock from whoever
\* won it in between, and two users were told that they have it.
OneEditorWhenCalm == calm => OneEditor

\* Whatever the races, the lock passes from one user straight to another only by
\* a late refresh of a user who once won it; a stranger has to wait.
NoTakeoverByOutsider ==
    [][lock # NULL /\ lock' # NULL /\ lock' # lock => lock' \in had]_vars

\* "Requires the edit lock": drafts reach the team only from users who won the
\* lock at some time.
DraftersHadLock == heard \subseteq had

\* GET, comparison and SET or DEL amount to one change of a lease: what a handler
\* compared still holds when it writes, and when it shows a draft, if `calm`.
Lease == INSTANCE EditLease
RefinesLease == Lease!Spec

\* "auto-expires if the editor vanishes so a task never stays locked", also when
\* its last refresh is still being handled.
VanishedEditorLosesLock ==
    \A u \in User : gone[u] ~> [](lock # u)
=============================================================================
