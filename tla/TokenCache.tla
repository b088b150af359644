------------------------------ MODULE TokenCache ------------------------------
(***************************************************************************)
(* The cache of validated users, keyed by access token, that               *)
(* auth.service.ts keeps in Redis, the guards that read it, and the        *)
(* administration of users (admin.service.ts) that has to drop entries     *)
(* when it changes a row.  Of a User row, the role and the block are kept: *)
(* isVerified is one more cached column a guard reads.  Time advances in   *)
(* ticks, between any two statements.  Nothing in the code bounds the time *)
(* between the SELECT and the SET of one validation: MaxDelay names it, as *)
(* what can be promised about the age of an entry depends on it.           *)
(***************************************************************************)
EXTENDS Naturals, FiniteSets

CONSTANTS
    User, Token, Request, NULL,
    Owner, Born,   \* whom an access token is for, and when it was signed
    TokenLife,     \* 15 minutes, in ticks
    CacheTtl,      \* USER_TOKEN_CACHE_TTL, in ticks
    MaxDelay,      \* bound on the ticks between the SELECT and the SET of a validation
    MaxTime,       \* bound on the clock
    MaxChanges,    \* bound on the rows changed
    MaxFailures    \* bound on Redis errors and deaths of a server

ASSUME OwnerAssumption == Owner \in [Token -> User]
ASSUME TimeAssumption ==
    /\ Born \in [Token -> Nat]
    /\ TokenLife \in Nat \ {0} /\ CacheTtl \in Nat \ {0} /\ MaxDelay \in Nat
    /\ MaxTime \in Nat /\ MaxChanges \in Nat /\ MaxFailures \in Nat
ASSUME AnAdminExists == User # {}

VARIABLES
    row,       \* the User table
    changed,   \* history: when the row of a user last changed
    cache,     \* Redis: the entry of a token, or NULL
    now,
    op, pc,    \* what a request asks for, and how far its handler got
    user,      \* the user its guard put on the request
    since,     \* history: when it read the row it is about to cache, else 0
    keys, doomed, \* invalidateUserCache: keys to look at, keys to delete
    changes, failures,
    calm       \* whether Redis and administrators behave as Calm* ask

request == <<op, pc, user, since, keys, doomed>>
vars == <<row, changed, cache, now, op, pc, user, since, keys, doomed,
          changes, failures, calm>>

Row == [role : {"ADMIN", "USER"}, isDisabled : BOOLEAN]
Entry == [user : Row, until : Nat]
AdminOp == {"promote", "demote", "disable", "enable"}
Op == [do : AdminOp \cup {"use", "logout"}, token : Token, whom : User]
Pc == {"idle", "get", "select", "fill", "handler", "scan", "probe", "delete"}

ASSUME NullAssumption == NULL \notin Entry \cup Row \cup Op

CacheKeys == {t \in Token : cache[t] # NULL}

\* Requests that change users and have not finished.
Administrating == {r \in Request : pc[r] # "idle" /\ op[r].do \in AdminOp}
\* Requests still dropping what the cache holds about u.
Dropping(u) == {r \in Request : pc[r] \in {"scan", "probe", "delete"} /\ op[r].whom = u}
\* Requests that read the row of u and are about to cache it.
Filling(u) == {r \in Request : pc[r] = "fill" /\ Owner[op[r].token] = u}

Init ==
    /\ row \in [User -> {w \in Row : w.role = "ADMIN" /\ ~w.isDisabled}]
    /\ changed = [u \in User |-> 0]
    /\ cache = [t \in Token |-> NULL]
    /\ now = 0
    /\ op = [r \in Request |-> NULL]
    /\ pc = [r \in Request |-> "idle"]
    /\ user = [r \in Request |-> NULL]
    /\ since = [r \in Request |-> 0]
    /\ keys = [r \in Request |-> {}]
    /\ doomed = [r \in Request |-> {}]
    /\ changes = 0 /\ failures = 0
    /\ calm \in BOOLEAN

Goto(r, label) ==
    /\ pc' = [pc EXCEPT ![r] = label]
    /\ since' = [since EXCEPT ![r] = IF label = "fill" THEN now ELSE 0]

\* The handler of r answers or throws: its locals are gone.
Finish(r) ==
    /\ Goto(r, "idle")
    /\ op' = [op EXCEPT ![r] = NULL]
    /\ user' = [user EXCEPT ![r] = NULL]
    /\ keys' = [keys EXCEPT ![r] = {}]
    /\ doomed' = [doomed EXCEPT ![r] = {}]

\* Something outside the program fails: explored a bounded number of times.
Fail == ~calm /\ failures < MaxFailures /\ failures' = failures + 1

\* A request arrives with an access token; only an administrator's request and
\* a logout have a user they are about.
Start(r, o) ==
    /\ pc[r] = "idle" /\ Born[o.token] <= now
    /\ o.do \in {"use", "logout"} => o.whom = Owner[o.token]
    /\ calm /\ o.do \in AdminOp => Administrating = {}
    /\ op' = [op EXCEPT ![r] = o]
    /\ Goto(r, "get")
    /\ UNCHANGED <<row, changed, changes, cache, now, user, keys, doomed, failures, calm>>

\* Mutant: a hit is served without its user on the request.
GetUnguarded(r) ==
    /\ pc[r] = "get"
    /\ Goto(r, IF cache[op[r].token] = NULL THEN "select" ELSE "handler")
    /\ UNCHANGED <<row, changed, changes, cache, now, op, user, keys, doomed, failures, calm>>

\* RedisService.get answers null for an error.
Get(r) ==
    LET hit == cache[op[r].token] IN
    /\ pc[r] = "get"
    /\ \/ /\ hit # NULL
          /\ user' = [user EXCEPT ![r] = hit.user]
          /\ Goto(r, "handler") /\ UNCHANGED failures
       \/ /\ (hit = NULL /\ UNCHANGED failures) \/ (hit # NULL /\ Fail)
          /\ Goto(r, "select") /\ UNCHANGED user
    /\ UNCHANGED <<row, changed, changes, cache, now, op, keys, doomed, calm>>

\* Mutant: the token is decoded but its expiry ignored.
SelectUnverified(r) ==
    LET u == Owner[op[r].token] IN
    /\ pc[r] = "select"
    /\ \/ /\ ~row[u].isDisabled
          /\ user' = [user EXCEPT ![r] = row[u]]
          /\ Goto(r, "fill")
          /\ UNCHANGED <<op, keys, doomed>>
       \/ row[u].isDisabled /\ Finish(r)
    /\ UNCHANGED <<row, changed, changes, cache, now, failures, calm>>

\* verifyAsync, then the SELECT: 401 for an expired token or a blocked account.
Select(r) ==
    LET u == Owner[op[r].token]
        good == now < Born[op[r].token] + TokenLife /\ ~row[u].isDisabled
    IN
    /\ pc[r] = "select"
    /\ \/ /\ good
          /\ user' = [user EXCEPT ![r] = row[u]]
          /\ Goto(r, "fill")
          /\ UNCHANGED <<op, keys, doomed>>
       \/ ~good /\ Finish(r)
    /\ UNCHANGED <<row, changed, changes, cache, now, failures, calm>>

\* Mutant: SET without EX, as RedisService.set does for a ttl of 0.
FillForever(r) ==
    /\ pc[r] = "fill"
    /\ cache' = [cache EXCEPT ![op[r].token] =
                     [user |-> user[r], until |-> MaxTime + CacheTtl + MaxDelay + 1]]
    /\ Goto(r, "handler")
    /\ UNCHANGED <<row, changed, changes, now, op, user, keys, doomed, failures, calm>>

\* SET EX of the row that was read; RedisService.set swallows an error.
Fill(r) ==
    LET entry == [user |-> user[r], until |-> now + CacheTtl] IN
    /\ pc[r] = "fill"
    /\ \/ cache' = [cache EXCEPT ![op[r].token] = entry] /\ UNCHANGED failures
       \/ Fail /\ UNCHANGED cache
    /\ Goto(r, "handler")
    /\ UNCHANGED <<row, changed, changes, now, op, user, keys, doomed, calm>>

\* Mutant: administrators may demote and block themselves.
AllowedSelf(r) == op[r].do \in AdminOp => user[r].role = "ADMIN"

\* RoleGuard, which sees the user of the request, and the handler's own check.
Allowed(r) ==
    op[r].do \in AdminOp =>
        /\ user[r].role = "ADMIN"
        /\ op[r].do \in {"demote", "disable"} => op[r].whom # Owner[op[r].token]

Updated(do, w) ==
    CASE do = "promote" -> [w EXCEPT !.role = "ADMIN"]
      [] do = "demote"  -> [w EXCEPT !.role = "USER"]
      [] do = "disable" -> [w EXCEPT !.isDisabled = TRUE]
      [] do = "enable"  -> [w EXCEPT !.isDisabled = FALSE]

\* A request that is not about users is answered; so is one that is refused.
Serve(r) ==
    /\ pc[r] = "handler"
    /\ op[r].do = "use" \/ ~Allowed(r)
    /\ Finish(r)
    /\ UNCHANGED <<row, changed, changes, cache, now, failures, calm>>

\* updateUserRole, setUserDisabled: the UPDATE.
Update(r) ==
    LET u == op[r].whom IN
    /\ pc[r] = "handler" /\ op[r].do \in AdminOp /\ Allowed(r)
    /\ calm => Filling(u) = {}
    /\ changes < MaxChanges /\ changes' = changes + 1
    /\ row' = [row EXCEPT ![u] = Updated(op[r].do, @)]
    /\ changed' = [changed EXCEPT ![u] = now]
    /\ Goto(r, "scan")
    /\ UNCHANGED <<cache, now, op, user, keys, doomed, failures, calm>>

\* logout: its session is deleted (Sessions), then it drops its own entries.
Logout(r) ==
    /\ pc[r] = "handler" /\ op[r].do = "logout"
    /\ Goto(r, "scan")
    /\ UNCHANGED <<row, changed, changes, cache, now, op, user, keys, doomed, failures, calm>>

\* scanKeys; an error leaves the keys found so far.
Scan(r) ==
    /\ pc[r] = "scan"
    /\ \/ keys' = [keys EXCEPT ![r] = CacheKeys] /\ UNCHANGED failures
       \/ Fail /\ \E found \in SUBSET CacheKeys : keys' = [keys EXCEPT ![r] = found]
    /\ Goto(r, "probe")
    /\ UNCHANGED <<row, changed, changes, cache, now, op, user, doomed, calm>>

\* Mutant: the last key that scanKeys returned is never looked at.
ProbeAllButOne(r) ==
    /\ pc[r] = "probe"
    /\ \/ \E k \in keys[r] :
            /\ Cardinality(keys[r]) > 1
            /\ keys' = [keys EXCEPT ![r] = @ \ {k}]
            /\ doomed' = [doomed EXCEPT ![r] = IF Owner[k] = op[r].whom THEN @ \cup {k} ELSE @]
            /\ UNCHANGED <<pc, since>>
       \/ /\ Cardinality(keys[r]) <= 1
          /\ Goto(r, "delete") /\ UNCHANGED <<keys, doomed>>
    /\ UNCHANGED <<row, changed, changes, cache, now, op, user, failures, calm>>

\* One key after the other is read: entries about the user are to go.
Probe(r) ==
    /\ pc[r] = "probe"
    /\ \/ \E k \in keys[r] :
            /\ keys' = [keys EXCEPT ![r] = @ \ {k}]
            /\ \/ /\ cache[k] # NULL /\ Owner[k] = op[r].whom
                  /\ doomed' = [doomed EXCEPT ![r] = @ \cup {k}] /\ UNCHANGED failures
               \/ /\ cache[k] = NULL \/ Owner[k] # op[r].whom
                  /\ UNCHANGED <<doomed, failures>>
               \/ Fail /\ UNCHANGED doomed
            /\ UNCHANGED <<pc, since>>
       \/ keys[r] = {} /\ Goto(r, "delete") /\ UNCHANGED <<keys, doomed, failures>>
    /\ UNCHANGED <<row, changed, changes, cache, now, op, user, calm>>

\* DEL of those keys, in one call; RedisService.del swallows an error.
Delete(r) ==
    /\ pc[r] = "delete"
    /\ \/ /\ cache' = [t \in Token |-> IF t \in doomed[r] THEN NULL ELSE cache[t]]
          /\ UNCHANGED failures
       \/ Fail /\ UNCHANGED cache
    /\ Finish(r)
    /\ UNCHANGED <<row, changed, changes, now, calm>>

\* The server that handles r dies.
Die(r) ==
    /\ pc[r] # "idle" /\ Fail /\ Finish(r)
    /\ UNCHANGED <<row, changed, changes, cache, now, calm>>

\* Redis drops the entries whose time has come.
Tick ==
    /\ now < MaxTime
    /\ \A r \in Request : pc[r] = "fill" => now < since[r] + MaxDelay
    /\ now' = now + 1
    /\ cache' = [t \in Token |->
           IF cache[t] # NULL /\ cache[t].until <= now + 1 THEN NULL ELSE cache[t]]
    /\ UNCHANGED <<row, changed, changes, op, pc, user, since, keys, doomed, failures, calm>>

Step(r) ==
    \/ \E o \in Op : Start(r, o)
    \/ Get(r) \/ Select(r) \/ Fill(r) \/ Serve(r) \/ Update(r) \/ Logout(r)
    \/ Scan(r) \/ Probe(r) \/ Delete(r) \/ Die(r)

Next == Tick \/ \E r \in Request : Step(r)

Spec == Init /\ [][Next]_vars

-----------------------------------------------------------------------------
TypeOK ==
    /\ row \in [User -> Row] /\ changed \in [User -> Nat] /\ now \in Nat
    /\ cache \in [Token -> Entry \cup {NULL}]
    /\ op \in [Request -> Op \cup {NULL}] /\ pc \in [Request -> Pc]
    /\ user \in [Request -> Row \cup {NULL}] /\ since \in [Request -> Nat]
    /\ keys \in [Request -> SUBSET Token] /\ doomed \in [Request -> SUBSET Token]
    /\ changes \in Nat /\ failures \in Nat /\ calm \in BOOLEAN
    /\ \A r \in Request : op[r] = NULL <=> pc[r] = "idle"
    /\ \A r \in Request : user[r] = NULL <=> pc[r] \in {"idle", "get", "select"}

\* Whatever races and fails, an entry that no longer tells what the row says is
\* gone one CacheTtl after the row changed, and later only by what a validation
\* took between its SELECT and its SET (validateUserByToken lines 71-79).
StaleAtMostTtl ==
    \A t \in Token :
        cache[t] # NULL /\ cache[t].user # row[Owner[t]] =>
            cache[t].until <= changed[Owner[t]] + CacheTtl + MaxDelay

\* A cached user does outlive its token (constants.ts line 5 says it cannot),
\* but by less than CacheTtl and the time its validation took.
OutlivesByLessThanTtl ==
    \A t \in Token :
        cache[t] # NULL => cache[t].until < Born[t] + TokenLife + CacheTtl + MaxDelay

\* When Redis answers and no validation has read the row just before it changes,
\* a change that has returned has left no old entry: the new role takes effect
\* on the next request (admin.service.ts line 124).
CalmDropsStale ==
    calm => \A t \in Token :
        cache[t] # NULL /\ Dropping(Owner[t]) = {} => cache[t].user = row[Owner[t]]

\* Then, when administrators act one at a time, the rule against demoting or
\* blocking oneself leaves somebody to administrate (admin.service.ts line 112).
CalmAdminRemains ==
    calm => \E u \in User : row[u].role = "ADMIN" /\ ~row[u].isDisabled
=============================================================================
