--------------------------- MODULE TokenCacheProofs ---------------------------
(***************************************************************************)
(* What TokenCache guarantees for every number of users, tokens and        *)
(* requests, and for all times.                                            *)
(***************************************************************************)
EXTENDS TokenCache, TLAPS

-----------------------------------------------------------------------------
(* Types.                                                                  *)

LEMMA InitType == Init => TypeOK
<1> SUFFICES ASSUME Init PROVE TypeOK
  OBVIOUS
<1>1. row \in [User -> Row]
  BY DEF Init, Row
<1> QED
  BY <1>1 DEF Init, TypeOK, Pc

\* What a step of r leaves to the other requests.
OthersKeep(r) ==
    \A q \in Request : q # r =>
        /\ pc'[q] = pc[q] /\ op'[q] = op[q] /\ user'[q] = user[q] /\ since'[q] = since[q]
        /\ keys'[q] = keys[q] /\ doomed'[q] = doomed[q]

\* The variables a request works with, after one of its steps.
LocalType ==
    /\ op \in [Request -> Op \cup {NULL}] /\ pc \in [Request -> Pc]
    /\ user \in [Request -> Row \cup {NULL}] /\ since \in [Request -> Nat]
    /\ keys \in [Request -> SUBSET Token] /\ doomed \in [Request -> SUBSET Token]
    /\ \A r \in Request : op[r] = NULL <=> pc[r] = "idle"
    /\ \A r \in Request : user[r] = NULL <=> pc[r] \in {"idle", "get", "select"}

LEMMA FinishType ==
    ASSUME TypeOK, NEW r \in Request, Finish(r)
    PROVE  LocalType' /\ OthersKeep(r) /\ pc'[r] = "idle" /\ user'[r] = NULL
<1>1. /\ pc'[r] = "idle" /\ op'[r] = NULL /\ user'[r] = NULL
      /\ OthersKeep(r)
  BY DEF Finish, Goto, TypeOK, OthersKeep
<1>2. /\ op' \in [Request -> Op \cup {NULL}] /\ pc' \in [Request -> Pc]
      /\ user' \in [Request -> Row \cup {NULL}] /\ since' \in [Request -> Nat]
      /\ keys' \in [Request -> SUBSET Token] /\ doomed' \in [Request -> SUBSET Token]
  BY DEF Finish, Goto, TypeOK, Pc
<1> QED
  BY <1>1, <1>2 DEF LocalType, TypeOK, OthersKeep

\* r goes to another statement with the same request.
LEMMA GotoType ==
    ASSUME TypeOK, NEW r \in Request, NEW label \in Pc \ {"idle"}, pc[r] # "idle",
           Goto(r, label), UNCHANGED <<op, keys, doomed>>,
           NEW w \in Row \cup {NULL}, user' = [user EXCEPT ![r] = w],
           w = NULL <=> label \in {"get", "select"}
    PROVE  LocalType' /\ OthersKeep(r) /\ pc'[r] = label /\ user'[r] = w
<1>1. /\ pc'[r] = label /\ user'[r] = w /\ OthersKeep(r)
  BY DEF Goto, TypeOK, OthersKeep
<1>2. /\ pc' \in [Request -> Pc] /\ user' \in [Request -> Row \cup {NULL}]
      /\ since' \in [Request -> Nat]
  BY DEF Goto, TypeOK
<1> QED
  BY <1>1, <1>2 DEF LocalType, TypeOK, OthersKeep

\* The same with the user it has.
LEMMA GotoSame ==
    ASSUME TypeOK, NEW r \in Request, NEW label \in Pc \ {"idle", "get", "select"},
           pc[r] \notin {"idle", "get", "select"},
           Goto(r, label), UNCHANGED <<op, user>>,
           keys' \in [Request -> SUBSET Token], doomed' \in [Request -> SUBSET Token],
           \A q \in Request : q # r => keys'[q] = keys[q] /\ doomed'[q] = doomed[q]
    PROVE  LocalType' /\ OthersKeep(r) /\ pc'[r] = label
<1>1. /\ pc'[r] = label /\ OthersKeep(r)
  BY DEF Goto, TypeOK, OthersKeep
<1>2. pc' \in [Request -> Pc] /\ since' \in [Request -> Nat]
  BY DEF Goto, TypeOK
<1> QED
  BY <1>1, <1>2 DEF LocalType, TypeOK, OthersKeep

LEMMA UpdatedType ==
    ASSUME NEW do \in AdminOp, NEW w \in Row
    PROVE  /\ Updated(do, w) \in Row
           /\ do # "demote" /\ w.role = "ADMIN" => Updated(do, w).role = "ADMIN"
           /\ do # "disable" /\ ~w.isDisabled => ~Updated(do, w).isDisabled
<1>1. CASE do = "promote"
  BY <1>1 DEF Updated, Row
<1>2. CASE do = "demote"
  BY <1>2 DEF Updated, Row
<1>3. CASE do = "disable"
  BY <1>3 DEF Updated, Row
<1>4. CASE do = "enable"
  BY <1>4 DEF Updated, Row
<1> QED
  BY <1>1, <1>2, <1>3, <1>4 DEF AdminOp

LEMMA NextLocal ==
    ASSUME TypeOK, NEW r \in Request, Step(r)
    PROVE  LocalType' /\ OthersKeep(r)
<1>1. ASSUME NEW o \in Op, Start(r, o)
      PROVE  LocalType' /\ OthersKeep(r)
  <2>1. pc' = [pc EXCEPT ![r] = "get"] /\ op' = [op EXCEPT ![r] = o] /\ pc[r] = "idle"
        /\ since' = [since EXCEPT ![r] = 0] /\ UNCHANGED <<user, keys, doomed>>
    BY <1>1 DEF Start, Goto
  <2>2. pc'[r] = "get" /\ op'[r] = o /\ OthersKeep(r)
    BY <2>1 DEF TypeOK, OthersKeep
  <2>3. /\ op' \in [Request -> Op \cup {NULL}] /\ pc' \in [Request -> Pc]
        /\ since' \in [Request -> Nat]
    BY <2>1 DEF TypeOK, Pc
  <2> QED
    BY <2>1, <2>2, <2>3, NullAssumption DEF TypeOK, LocalType, OthersKeep
<1>2. ASSUME Get(r)
      PROVE  LocalType' /\ OthersKeep(r)
  <2>1. op[r] \in Op /\ pc[r] = "get" /\ user[r] = NULL /\ UNCHANGED <<op, keys, doomed>>
    BY <1>2 DEF Get, TypeOK
  <2>2. CASE user' = [user EXCEPT ![r] = cache[op[r].token].user] /\ Goto(r, "handler")
             /\ cache[op[r].token] # NULL
    <3>1. cache[op[r].token] \in Entry
      BY <2>1, <2>2 DEF TypeOK, Op
    <3>2. cache[op[r].token].user \in Row
      BY <3>1 DEF Entry
    <3>3. PICK w \in Row \cup {NULL} : w = cache[op[r].token].user /\ w # NULL
      BY <3>2, NullAssumption
    <3>4. "handler" \in Pc \ {"idle"} /\ pc[r] # "idle"
      BY <2>1 DEF Pc
    <3>5. user' = [user EXCEPT ![r] = w] /\ (w = NULL <=> "handler" \in {"get", "select"})
      BY <2>2, <3>3
    <3> QED
      BY <2>1, <2>2, <3>4, <3>5, GotoType
  <2>3. CASE Goto(r, "select") /\ UNCHANGED user
    <3>1. user' = [user EXCEPT ![r] = NULL]
      BY <2>1, <2>3 DEF TypeOK
    <3> QED
      BY <1>2, <2>1, <2>3, <3>1, GotoType DEF Get, Pc
  <2> QED
    BY <1>2, <2>2, <2>3 DEF Get
<1>3. ASSUME Select(r)
      PROVE  LocalType' /\ OthersKeep(r)
  <2>1. op[r] \in Op /\ pc[r] = "select"
    BY <1>3 DEF Select, TypeOK
  <2>2. row[Owner[op[r].token]] \in Row
    BY <2>1, OwnerAssumption DEF TypeOK, Op
  <2>3. ASSUME ~Finish(r)
        PROVE  LocalType' /\ OthersKeep(r)
    <3>1. /\ user' = [user EXCEPT ![r] = row[Owner[op[r].token]]] /\ Goto(r, "fill")
          /\ UNCHANGED <<op, keys, doomed>>
      BY <1>3, <2>3 DEF Select
    <3>2. PICK w \in Row \cup {NULL} : w = row[Owner[op[r].token]] /\ w # NULL
      BY <2>2, NullAssumption
    <3>3. "fill" \in Pc \ {"idle"} /\ pc[r] # "idle"
      BY <2>1 DEF Pc
    <3>4. user' = [user EXCEPT ![r] = w] /\ (w = NULL <=> "fill" \in {"get", "select"})
      BY <3>1, <3>2
    <3> QED
      BY <3>1, <3>3, <3>4, GotoType
  <2> QED
    BY <2>3, FinishType
<1>4. ASSUME Fill(r) \/ Update(r) \/ Logout(r)
      PROVE  LocalType' /\ OthersKeep(r)
  <2>1. /\ pc[r] \in {"fill", "handler"} /\ UNCHANGED <<op, user, keys, doomed>>
        /\ Goto(r, "handler") \/ Goto(r, "scan")
    BY <1>4 DEF Fill, Update, Logout
  <2>2. keys' \in [Request -> SUBSET Token] /\ doomed' \in [Request -> SUBSET Token]
    BY <2>1 DEF TypeOK
  <2> QED
    BY <2>1, <2>2, GotoSame DEF Pc
<1>5. ASSUME Scan(r)
      PROVE  LocalType' /\ OthersKeep(r)
  <2>1. /\ pc[r] = "scan" /\ UNCHANGED <<op, user, doomed>> /\ Goto(r, "probe")
        /\ \E S \in SUBSET CacheKeys : keys' = [keys EXCEPT ![r] = S]
    BY <1>5 DEF Scan
  <2>2. /\ keys' \in [Request -> SUBSET Token] /\ doomed' \in [Request -> SUBSET Token]
        /\ \A q \in Request : q # r => keys'[q] = keys[q] /\ doomed'[q] = doomed[q]
    BY <2>1 DEF TypeOK, CacheKeys
  <2> QED
    BY <2>1, <2>2, GotoSame DEF Pc
<1>6. ASSUME Probe(r)
      PROVE  LocalType' /\ OthersKeep(r)
  <2>1. pc[r] = "probe" /\ UNCHANGED <<op, user>>
    BY <1>6 DEF Probe
  <2>2. CASE Goto(r, "delete") /\ UNCHANGED <<keys, doomed>>
    BY <2>1, <2>2, GotoSame DEF Pc, TypeOK
  <2>3. ASSUME NEW k \in keys[r], keys' = [keys EXCEPT ![r] = @ \ {k}], UNCHANGED <<pc, since>>,
               doomed' = [doomed EXCEPT ![r] = @ \cup {k}] \/ doomed' = doomed
        PROVE  LocalType' /\ OthersKeep(r)
    <3>1. k \in Token
      BY <2>3 DEF TypeOK
    <3>2. /\ keys' \in [Request -> SUBSET Token] /\ doomed' \in [Request -> SUBSET Token]
          /\ \A q \in Request : q # r => keys'[q] = keys[q] /\ doomed'[q] = doomed[q]
      BY <2>3, <3>1 DEF TypeOK
    <3> QED
      BY <2>1, <2>3, <3>2 DEF TypeOK, LocalType, OthersKeep
  <2> QED
    BY <1>6, <2>2, <2>3 DEF Probe
<1>7. ASSUME Serve(r) \/ Delete(r) \/ Die(r)
      PROVE  LocalType' /\ OthersKeep(r)
  BY <1>7, FinishType DEF Serve, Delete, Die
<1> QED
  BY <1>1, <1>2, <1>3, <1>4, <1>5, <1>6, <1>7 DEF Step

LEMMA NextType == ASSUME TypeOK, [Next]_vars PROVE TypeOK'
<1>1. ASSUME LocalType', row' \in [User -> Row], changed' \in [User -> Nat],
             cache' \in [Token -> Entry \cup {NULL}],
             now' \in Nat, changes' \in Nat, failures' \in Nat, calm' = calm
      PROVE  TypeOK'
  BY <1>1 DEF TypeOK, LocalType
<1>2. ASSUME NEW r \in Request, Step(r)
      PROVE  TypeOK'
  <2>1. LocalType'
    BY <1>2, NextLocal
  <2>2. failures' \in Nat
    BY <1>2 DEF Step, Start, Get, Select, Fill, Serve, Update, Logout, Scan, Probe, Delete, Die, Fail, TypeOK
  <2>3. now' = now /\ calm' = calm
    BY <1>2 DEF Step, Start, Get, Select, Fill, Serve, Update, Logout, Scan, Probe, Delete, Die
  <2>4. CASE Fill(r)
    <3>1. user[r] \in Row /\ op[r] \in Op
      BY <2>4 DEF Fill, TypeOK
    <3>2. [user |-> user[r], until |-> now + CacheTtl] \in Entry
      BY <3>1, TimeAssumption DEF Entry, TypeOK
    <3>3. cache' \in [Token -> Entry \cup {NULL}]
      BY <2>4, <3>2 DEF Fill, TypeOK
    <3> QED
      BY <1>1, <2>1, <2>2, <2>3, <2>4, <3>3 DEF Fill, TypeOK
  <2>5. CASE Update(r)
    <3>1. op[r] \in Op /\ op[r].do \in AdminOp
      BY <2>5 DEF Update, TypeOK
    <3>2. op[r].whom \in User /\ row[op[r].whom] \in Row
      BY <3>1 DEF TypeOK, Op
    <3>3. Updated(op[r].do, row[op[r].whom]) \in Row
      BY <3>1, <3>2, UpdatedType
    <3>4. row' \in [User -> Row]
      BY <2>5, <3>2, <3>3 DEF Update, TypeOK
    <3>5. changed' \in [User -> Nat] /\ changes' \in Nat
      <4>1. changed' = [changed EXCEPT ![op[r].whom] = now] /\ changes' = changes + 1
        BY <2>5 DEF Update
      <4>2. changed \in [User -> Nat] /\ changes \in Nat /\ now \in Nat
        BY DEF TypeOK
      <4>3. changes' \in Nat
        BY <4>1, <4>2
      <4> QED
        BY <3>2, <4>1, <4>2, <4>3
    <3> QED
      BY <1>1, <2>1, <2>2, <2>3, <2>5, <3>4, <3>5 DEF Update, TypeOK
  <2>6. CASE Delete(r)
    <3>1. cache' \in [Token -> Entry \cup {NULL}]
      BY <2>6 DEF Delete, TypeOK
    <3> QED
      BY <1>1, <2>1, <2>2, <2>3, <2>6, <3>1 DEF Delete, TypeOK
  <2>7. ASSUME ~Fill(r), ~Update(r), ~Delete(r)
        PROVE  TypeOK'
    <3>1. UNCHANGED <<row, changed, changes, cache>>
      BY <1>2, <2>7 DEF Step, Start, Get, Select, Serve, Logout, Scan, Probe, Die
    <3> QED
      BY <1>1, <2>1, <2>2, <2>3, <3>1 DEF TypeOK
  <2> QED
    BY <2>4, <2>5, <2>6, <2>7
<1>3. CASE Tick
  <2>1. cache' \in [Token -> Entry \cup {NULL}]
    BY <1>3 DEF Tick, TypeOK
  <2> QED
    BY <1>3, <2>1 DEF Tick, TypeOK
<1>4. CASE UNCHANGED vars
  BY <1>4 DEF vars, TypeOK
<1> QED
  BY <1>2, <1>3, <1>4 DEF Next

\* The types of every variable hold in every reachable state; a request has a
\* user exactly from the point where validateUserByToken returns one.
THEOREM TypeCorrect == Spec => []TypeOK
<1>1. TypeOK /\ [Next]_vars => TypeOK'
  BY NextType
<1> QED
  BY InitType, <1>1, PTL DEF Spec

-----------------------------------------------------------------------------
(* The age of what is cached.  Clock strengthens StaleAtMostTtl and        *)
(* OutlivesByLessThanTtl by what a validation knows between its SELECT and *)
(* its SET: the token was good when it read the row, a row it no longer    *)
(* agrees with changed at that tick or later, and at most MaxDelay ticks   *)
(* have passed.                                                            *)

Subject(r) == Owner[op[r].token]

EntryOK(t) ==
    cache[t] # NULL =>
        /\ cache[t].until <= now + CacheTtl
        /\ cache[t].until < Born[t] + TokenLife + CacheTtl + MaxDelay
        /\ ~cache[t].user.isDisabled
        /\ cache[t].user # row[Owner[t]] =>
               cache[t].until <= changed[Owner[t]] + CacheTtl + MaxDelay

FillOK(r) ==
    pc[r] = "fill" =>
        /\ since[r] <= now /\ now <= since[r] + MaxDelay
        /\ since[r] < Born[op[r].token] + TokenLife
        /\ user[r] # row[Subject(r)] => since[r] <= changed[Subject(r)]

Clock ==
    /\ \A u \in User : changed[u] <= now
    /\ \A t \in Token : EntryOK(t)
    /\ \A r \in Request : FillOK(r)
    /\ \A r \in Request : user[r] # NULL => ~user[r].isDisabled

\* A step that leaves rows, cache and clock alone.
LEMMA ClockSame ==
    ASSUME TypeOK, Clock, NEW r \in Request, Step(r), UNCHANGED <<row, changed, cache, now>>,
           pc'[r] # "fill", user'[r] # NULL => ~user'[r].isDisabled
    PROVE  Clock'
<1>1. OthersKeep(r)
  BY NextLocal
<1>2. \A t \in Token : EntryOK(t)'
  BY DEF Clock, EntryOK
<1>3. \A q \in Request : FillOK(q)'
  BY <1>1 DEF Clock, FillOK, Subject, OthersKeep
<1> QED
  BY <1>1, <1>2, <1>3 DEF Clock, OthersKeep

LEMMA NextClock == ASSUME TypeOK, Clock, [Next]_vars PROVE Clock'
<1>1. ASSUME NEW r \in Request, NEW o \in Op, Start(r, o)
      PROVE  Clock'
  <2>1. pc'[r] = "get" /\ UNCHANGED <<row, changed, cache, now, user>>
    BY <1>1 DEF Start, Goto, TypeOK
  <2>2. Step(r)
    BY <1>1 DEF Step
  <2> QED
    BY <2>1, <2>2, ClockSame DEF Clock
<1>2. ASSUME NEW r \in Request, Get(r)
      PROVE  Clock'
  <2>1. pc'[r] \in {"handler", "select"} /\ UNCHANGED <<row, changed, cache, now>> /\ Step(r)
    BY <1>2 DEF Get, Goto, TypeOK, Step
  <2>2. op[r] \in Op /\ op[r].token \in Token
    BY <1>2 DEF Get, TypeOK, Op
  <2>3. user'[r] = user[r] \/ (cache[op[r].token] # NULL /\ user'[r] = cache[op[r].token].user)
    BY <1>2 DEF Get, TypeOK
  <2>4. user'[r] # NULL => ~user'[r].isDisabled
    BY <2>2, <2>3 DEF Clock, EntryOK
  <2> QED
    BY <2>1, <2>4, ClockSame
<1>3. ASSUME NEW r \in Request, Step(r), Finish(r), UNCHANGED <<row, changed, cache, now>>
      PROVE  Clock'
  <2>1. pc'[r] = "idle" /\ user'[r] = NULL
    BY <1>3, FinishType
  <2> QED
    BY <1>3, <2>1, ClockSame
<1>4. ASSUME NEW r \in Request, Select(r)
      PROVE  Clock'
  <2>1. Step(r) /\ pc[r] = "select" /\ UNCHANGED <<row, changed, cache, now>>
    BY <1>4 DEF Step, Select
  <2>2. ASSUME ~Finish(r)
        PROVE  Clock'
    <3>1. /\ op' = op /\ user' = [user EXCEPT ![r] = row[Subject(r)]]
          /\ since' = [since EXCEPT ![r] = now] /\ now \in Nat
          /\ now < Born[op[r].token] + TokenLife /\ ~row[Subject(r)].isDisabled
      BY <1>4, <2>2 DEF Select, Subject, Goto, TypeOK
    <3>2. user'[r] = row[Subject(r)] /\ since'[r] = now
      BY <3>1 DEF TypeOK
    <3>3. OthersKeep(r)
      BY <2>1, NextLocal
    <3>4. \A t \in Token : EntryOK(t)'
      BY <2>1 DEF Clock, EntryOK
    <3>5. FillOK(r)'
      BY <2>1, <3>1, <3>2, TimeAssumption DEF FillOK, Subject
    <3>6. \A q \in Request : FillOK(q)'
      BY <2>1, <3>3, <3>5 DEF Clock, FillOK, Subject, OthersKeep
    <3>7. \A q \in Request : user'[q] # NULL => ~user'[q].isDisabled
      BY <3>1, <3>2, <3>3 DEF Clock, OthersKeep
    <3> QED
      BY <2>1, <3>4, <3>6, <3>7 DEF Clock
  <2> QED
    BY <1>3, <2>1, <2>2
<1>5. ASSUME NEW r \in Request, Fill(r)
      PROVE  Clock'
  <2> DEFINE t == op[r].token
             entry == [user |-> user[r], until |-> now + CacheTtl]
  <2>1. /\ Step(r) /\ pc[r] = "fill" /\ UNCHANGED <<row, changed, now, user, op>>
        /\ Goto(r, "handler")
        /\ cache' = [cache EXCEPT ![t] = entry] \/ cache' = cache
    BY <1>5 DEF Step, Fill
  <2>2. pc'[r] = "handler" /\ OthersKeep(r)
    BY <2>1, NextLocal DEF Goto, TypeOK
  <2>3. t \in Token /\ user[r] # NULL /\ Subject(r) = Owner[t] /\ Owner[t] \in User
    BY <2>1, OwnerAssumption DEF TypeOK, Op, Subject
  <2>4. /\ now <= since[r] + MaxDelay /\ since[r] < Born[t] + TokenLife
        /\ user[r] # row[Owner[t]] => since[r] <= changed[Owner[t]]
        /\ ~user[r].isDisabled
    BY <2>1, <2>3 DEF Clock, FillOK
  <2>5. now \in Nat /\ Born[t] \in Nat /\ TokenLife \in Nat /\ CacheTtl \in Nat
        /\ MaxDelay \in Nat /\ since[r] \in Nat /\ changed[Owner[t]] \in Nat
    BY <2>3, TimeAssumption DEF TypeOK
  <2>6. \A z \in Token : cache'[z] = cache[z] \/ (z = t /\ cache'[z] = entry)
    BY <2>1, <2>3 DEF TypeOK
  <2>7. entry.user = user[r] /\ entry.until = now + CacheTtl
    OBVIOUS
  <2> HIDE DEF entry, t
  <2>8. ASSUME NEW z \in Token
        PROVE  EntryOK(z)'
    <3>1. CASE cache'[z] = cache[z]
      BY <2>1, <3>1 DEF Clock, EntryOK
    <3>2. CASE z = t /\ cache'[z] = entry
      <4>1. /\ now + CacheTtl < Born[t] + TokenLife + CacheTtl + MaxDelay
            /\ user[r] # row[Owner[t]] => now + CacheTtl <= changed[Owner[t]] + CacheTtl + MaxDelay
        BY <2>4, <2>5
      <4> QED
        BY <2>1, <2>4, <2>5, <2>7, <3>2, <4>1, TimeAssumption DEF EntryOK
    <3> QED
      BY <2>6, <3>1, <3>2
  <2>9. \A q \in Request : FillOK(q)'
    BY <2>1, <2>2 DEF Clock, FillOK, Subject, OthersKeep
  <2> QED
    BY <2>1, <2>8, <2>9 DEF Clock
<1>6. ASSUME NEW r \in Request, Update(r)
      PROVE  Clock'
  <2> DEFINE u == op[r].whom
  <2>1. /\ Step(r) /\ pc[r] = "handler" /\ UNCHANGED <<cache, now, op, user>> /\ Goto(r, "scan")
        /\ changed' = [changed EXCEPT ![u] = now]
        /\ \E w : row' = [row EXCEPT ![u] = w]
    BY <1>6 DEF Step, Update
  <2>2. pc'[r] = "scan" /\ OthersKeep(r) /\ u \in User
    BY <2>1, NextLocal DEF Goto, TypeOK, Op
  <2>3. /\ changed'[u] = now
        /\ \A v \in User : v # u => changed'[v] = changed[v] /\ row'[v] = row[v]
    BY <2>1, <2>2 DEF TypeOK
  <2>4. now \in Nat
    BY DEF TypeOK
  <2> HIDE DEF u
  <2>5. \A v \in User : changed'[v] <= now
    BY <2>2, <2>3, <2>4 DEF Clock
  <2>6. ASSUME NEW z \in Token
        PROVE  EntryOK(z)'
    <3>1. Owner[z] \in User
      BY OwnerAssumption
    <3>2. EntryOK(z)
      BY DEF Clock
    <3>3. CASE Owner[z] = u
      <4>1. SUFFICES ASSUME cache[z] # NULL PROVE EntryOK(z)'
        BY <2>1 DEF EntryOK
      <4>2. /\ cache[z].until \in Nat /\ CacheTtl \in Nat /\ MaxDelay \in Nat
            /\ cache[z].until <= now + CacheTtl
        BY <3>2, <4>1, TimeAssumption DEF EntryOK, TypeOK, Entry
      <4>3. cache[z].until <= changed'[u] + CacheTtl + MaxDelay
        BY <2>3, <2>4, <4>2
      <4> QED
        BY <2>1, <3>2, <3>3, <4>1, <4>3 DEF EntryOK
    <3>4. CASE Owner[z] # u
      BY <2>1, <2>3, <3>1, <3>2, <3>4 DEF EntryOK
    <3> QED
      BY <3>3, <3>4
  <2>7. ASSUME NEW q \in Request
        PROVE  FillOK(q)'
    <3> SUFFICES ASSUME pc'[q] = "fill"
                 PROVE  FillOK(q)'
      BY DEF FillOK
    <3>0. since'[q] <= now
      BY <2>2 DEF Clock, FillOK, OthersKeep
    <3>1. q # r /\ pc[q] = "fill"
      BY <2>2 DEF OthersKeep
    <3>2. Subject(q) \in User /\ FillOK(q)
      BY <3>1, OwnerAssumption DEF TypeOK, Op, Subject, Clock
    <3>3. /\ user'[q] = user[q] /\ since'[q] = since[q] /\ op' = op /\ now' = now
          /\ Subject(q)' = Subject(q)
      BY <2>1, <2>2, <3>1 DEF OthersKeep, Subject
    <3>4. CASE Subject(q) = u
      BY <2>3, <3>0, <3>1, <3>2, <3>3, <3>4 DEF FillOK
    <3>5. CASE Subject(q) # u
      BY <2>3, <3>1, <3>2, <3>3, <3>5 DEF FillOK
    <3> QED
      BY <3>4, <3>5
  <2> QED
    BY <2>1, <2>5, <2>6, <2>7 DEF Clock
<1>7. ASSUME NEW r \in Request, Logout(r) \/ Scan(r) \/ Probe(r)
      PROVE  Clock'
  <2>1. /\ Step(r) /\ UNCHANGED <<row, changed, cache, now, user>>
        /\ pc'[r] # "fill"
    BY <1>7 DEF Step, Logout, Scan, Probe, Goto, TypeOK
  <2> QED
    BY <2>1, ClockSame DEF Clock
<1>8. ASSUME NEW r \in Request, Delete(r)
      PROVE  Clock'
  <2>1. /\ Step(r) /\ UNCHANGED <<row, changed, now>> /\ Finish(r)
        /\ \A t \in Token : cache'[t] = cache[t] \/ cache'[t] = NULL
    BY <1>8 DEF Step, Delete
  <2>2. pc'[r] = "idle" /\ user'[r] = NULL /\ OthersKeep(r)
    BY <2>1, FinishType
  <2>3. \A t \in Token : EntryOK(t)'
    BY <2>1 DEF Clock, EntryOK
  <2>4. \A q \in Request : FillOK(q)'
    BY <2>1, <2>2 DEF Clock, FillOK, Subject, OthersKeep
  <2> QED
    BY <2>1, <2>2, <2>3, <2>4 DEF Clock, OthersKeep
<1>9. ASSUME NEW r \in Request, Serve(r) \/ Die(r)
      PROVE  Clock'
  <2>1. Step(r) /\ Finish(r) /\ UNCHANGED <<row, changed, cache, now>>
    BY <1>9 DEF Step, Serve, Die
  <2> QED
    BY <1>3, <2>1
<1>10. CASE Tick
  <2>1. /\ now' = now + 1 /\ UNCHANGED <<row, changed, op, pc, user, since>>
        /\ \A r \in Request : pc[r] = "fill" => now < since[r] + MaxDelay
        /\ \A t \in Token : cache'[t] = cache[t] \/ cache'[t] = NULL
    BY <1>10 DEF Tick
  <2>2. now \in Nat /\ \A u \in User : changed[u] \in Nat
    BY DEF TypeOK
  <2>3. ASSUME NEW t \in Token
        PROVE  EntryOK(t)'
    <3>1. CASE cache'[t] = NULL
      BY <3>1 DEF EntryOK
    <3>2. CASE cache[t] # NULL /\ cache'[t] = cache[t]
      <4>1. cache[t].until \in Nat
        BY <3>2 DEF TypeOK, Entry
      <4> QED
        BY <2>1, <2>2, <3>2, <4>1, TimeAssumption DEF Clock, EntryOK
    <3> QED
      BY <2>1, <3>1, <3>2
  <2>4. ASSUME NEW r \in Request, pc[r] = "fill"
        PROVE  FillOK(r)'
    <3>1. FillOK(r) /\ since[r] \in Nat /\ MaxDelay \in Nat
      BY TimeAssumption DEF Clock, TypeOK
    <3> QED
      BY <2>1, <2>2, <2>4, <3>1 DEF FillOK, Subject
  <2> QED
    BY <2>1, <2>2, <2>3, <2>4 DEF Clock, FillOK
<1>11. CASE UNCHANGED vars
  <2>1. UNCHANGED <<row, changed, cache, now, op, pc, user, since>>
    BY <1>11 DEF vars
  <2> QED
    BY <2>1 DEF Clock, EntryOK, FillOK, Subject
<1> QED
  BY <1>1, <1>2, <1>4, <1>5, <1>6, <1>7, <1>8, <1>9, <1>10, <1>11 DEF Next, Step

LEMMA InitClock == Init => Clock
BY DEF Init, Clock, EntryOK, FillOK

\* An entry the row no longer agrees with is gone one CacheTtl after the change,
\* and what a validation takes to write it (auth.service.ts lines 71-79).
THEOREM StaleEntriesLapse == Spec => []StaleAtMostTtl
<1>1. TypeOK /\ Clock /\ [Next]_vars => (TypeOK /\ Clock)'
  BY NextType, NextClock
<1>2. Clock => StaleAtMostTtl
  BY DEF Clock, EntryOK, StaleAtMostTtl
<1> QED
  BY InitType, InitClock, <1>1, <1>2, PTL DEF Spec

\* A cached user outlives its token by less than CacheTtl and what a validation
\* takes to write it (constants.ts line 5).
THEOREM EntriesOutliveBriefly == Spec => []OutlivesByLessThanTtl
<1>1. TypeOK /\ Clock /\ [Next]_vars => (TypeOK /\ Clock)'
  BY NextType, NextClock
<1>2. Clock => OutlivesByLessThanTtl
  BY DEF Clock, EntryOK, OutlivesByLessThanTtl
<1> QED
  BY InitType, InitClock, <1>1, <1>2, PTL DEF Spec

-----------------------------------------------------------------------------
(* When Redis answers, administrators act one at a time and no validation  *)
(* is under way with a row that changes.  An old entry is then one that    *)
(* the administrator's own request is about to delete; that request was    *)
(* let through by a user that still agreed with its row.                   *)

OneAdmin == \A q, r \in Administrating : q = r

FreshFill == \A r \in Request : pc[r] = "fill" => user[r] = row[Subject(r)]

FreshAdmin ==
    \A r \in Administrating : pc[r] = "handler" => user[r] = row[Subject(r)]

Deletes(r, t) ==
    /\ r \in Administrating /\ op[r].whom = Owner[t]
    /\ \/ pc[r] = "scan"
       \/ pc[r] = "probe" /\ t \in keys[r] \cup doomed[r]
       \/ pc[r] = "delete" /\ t \in doomed[r]

Stale(t) == cache[t] # NULL /\ cache[t].user # row[Owner[t]]

StaleDeleted == \A t \in Token : Stale(t) => \E r \in Request : Deletes(r, t)

AdminLeft == \E u \in User : row[u].role = "ADMIN" /\ ~row[u].isDisabled

CalmInv == OneAdmin /\ FreshFill /\ FreshAdmin /\ StaleDeleted /\ AdminLeft

\* A step of r that leaves rows and cache alone, and in which r neither begins
\* to administrate nor learns a user nor leaves a key out.
LEMMA CalmSame ==
    ASSUME TypeOK, CalmInv, NEW r \in Request, Step(r), UNCHANGED <<row, cache>>,
           r \in Administrating' => r \in Administrating,
           pc'[r] # "fill",
           r \in Administrating' /\ pc'[r] = "handler" =>
               user'[r] = row[Owner[op'[r].token]],
           \A t \in Token : Deletes(r, t) /\ Stale(t) => Deletes(r, t)'
    PROVE  CalmInv'
<1>1. OthersKeep(r)
  BY NextLocal
<1>2. \A q \in Request : q # r => /\ q \in Administrating' <=> q \in Administrating
                                  /\ \A t \in Token : Deletes(q, t)' <=> Deletes(q, t)
  BY <1>1 DEF OthersKeep, Administrating, Deletes
<1>3. OneAdmin'
  <2>1. \A q \in Administrating' : q \in Administrating
    BY <1>2 DEF Administrating
  <2> QED
    BY <2>1 DEF CalmInv, OneAdmin
<1>4. FreshFill'
  BY <1>1 DEF CalmInv, FreshFill, OthersKeep, Subject
<1>5. FreshAdmin'
  <2> SUFFICES ASSUME NEW q \in Administrating', pc'[q] = "handler"
               PROVE  user'[q] = row'[Owner[op'[q].token]]
    BY DEF FreshAdmin, Subject
  <2>1. CASE q = r
    BY <2>1
  <2>2. CASE q # r
    <3>1. q \in Request /\ q \in Administrating
      BY <1>2, <2>2 DEF Administrating
    <3> QED
      BY <1>1, <2>2, <3>1 DEF CalmInv, FreshAdmin, OthersKeep, Subject
  <2> QED
    BY <2>1, <2>2
<1>6. StaleDeleted'
  <2> SUFFICES ASSUME NEW t \in Token, Stale(t)'
               PROVE  \E q \in Request : Deletes(q, t)'
    BY DEF StaleDeleted
  <2>1. Stale(t)
    BY DEF Stale
  <2>2. PICK q \in Request : Deletes(q, t)
    BY <2>1 DEF CalmInv, StaleDeleted
  <2> QED
    BY <1>2, <2>1, <2>2
<1> QED
  BY <1>3, <1>4, <1>5, <1>6 DEF CalmInv, AdminLeft

\* A step by which r is answered.
LEMMA CalmFinish ==
    ASSUME TypeOK, CalmInv, NEW r \in Request, Step(r), Finish(r), UNCHANGED <<row, cache>>,
           pc[r] \notin {"scan", "probe", "delete"}
    PROVE  CalmInv'
<1>1. pc'[r] = "idle"
  BY FinishType
<1> QED
  BY <1>1, CalmSame DEF Administrating, Deletes

LEMMA NextCalm == ASSUME TypeOK, Clock, calm, CalmInv, [Next]_vars PROVE CalmInv'
<1>1. ASSUME NEW r \in Request, NEW o \in Op, Start(r, o)
      PROVE  CalmInv'
  <2>1. /\ pc[r] = "idle" /\ pc'[r] = "get" /\ op'[r] = o /\ UNCHANGED <<row, cache>>
        /\ o.do \in AdminOp => Administrating = {}
    BY <1>1 DEF Start, Goto, TypeOK
  <2>2. Step(r)
    BY <1>1 DEF Step
  <2>3. OthersKeep(r)
    BY <2>2, NextLocal
  <2>4. \A q \in Request : q # r => /\ q \in Administrating' <=> q \in Administrating
                                    /\ \A t \in Token : Deletes(q, t)' <=> Deletes(q, t)
    BY <2>3 DEF OthersKeep, Administrating, Deletes
  <2>5. r \in Administrating' => Administrating = {}
    BY <2>1 DEF Administrating
  <2>6. OneAdmin'
    <3> SUFFICES ASSUME NEW p \in Administrating', NEW q \in Administrating', p # q
                 PROVE  FALSE
      BY DEF OneAdmin
    <3>1. p \in Request /\ q \in Request
      BY DEF Administrating
    <3>2. CASE p = r \/ q = r
      BY <2>4, <2>5, <3>1, <3>2
    <3>3. CASE p # r /\ q # r
      BY <2>4, <3>1, <3>3 DEF CalmInv, OneAdmin
    <3> QED
      BY <3>2, <3>3
  <2>7. FreshFill'
    BY <2>1, <2>3 DEF CalmInv, FreshFill, OthersKeep, Subject
  <2>8. FreshAdmin'
    <3> SUFFICES ASSUME NEW q \in Administrating', pc'[q] = "handler"
                 PROVE  user'[q] = row'[Owner[op'[q].token]]
      BY DEF FreshAdmin, Subject
    <3>1. q # r /\ q \in Request
      BY <2>1 DEF Administrating
    <3>2. q \in Administrating
      BY <2>4, <3>1
    <3> QED
      BY <2>1, <2>3, <3>1, <3>2 DEF CalmInv, FreshAdmin, OthersKeep, Subject
  <2>9. StaleDeleted'
    <3> SUFFICES ASSUME NEW t \in Token, Stale(t)'
                 PROVE  \E q \in Request : Deletes(q, t)'
      BY DEF StaleDeleted
    <3>1. Stale(t)
      BY <2>1 DEF Stale
    <3>2. PICK q \in Request : Deletes(q, t)
      BY <3>1 DEF CalmInv, StaleDeleted
    <3>3. q # r
      BY <2>1, <3>2 DEF Deletes
    <3> QED
      BY <2>4, <3>2, <3>3
  <2> QED
    BY <2>1, <2>6, <2>7, <2>8, <2>9 DEF CalmInv, AdminLeft
<1>2. ASSUME NEW r \in Request, Get(r)
      PROVE  CalmInv'
  <2> DEFINE t == op[r].token
  <2>1. /\ Step(r) /\ pc[r] = "get" /\ UNCHANGED <<row, cache, op>>
        /\ t \in Token
    BY <1>2 DEF Step, Get, TypeOK, Op
  <2>2. pc'[r] \in {"handler", "select"}
    BY <1>2 DEF Get, Goto, TypeOK
  <2>3. pc'[r] = "handler" => cache[t] # NULL /\ user'[r] = cache[t].user
    BY <1>2 DEF Get, Goto, TypeOK
  <2>4. ASSUME r \in Administrating
        PROVE  ~Stale(t)
    <3> SUFFICES ASSUME Stale(t) PROVE FALSE
      OBVIOUS
    <3>1. PICK q \in Request : Deletes(q, t)
      BY <2>1 DEF CalmInv, StaleDeleted
    <3>2. q = r
      BY <2>4, <3>1 DEF Deletes, CalmInv, OneAdmin
    <3> QED
      BY <2>1, <3>1, <3>2 DEF Deletes
  <2>5. r \in Administrating' <=> r \in Administrating
    BY <2>1, <2>2 DEF Administrating
  <2>6. r \in Administrating' /\ pc'[r] = "handler" => user'[r] = row[Owner[op'[r].token]]
    BY <2>1, <2>3, <2>4, <2>5 DEF Stale
  <2>7. \A z \in Token : ~Deletes(r, z)
    BY <2>1 DEF Deletes
  <2> QED
    BY <2>1, <2>2, <2>5, <2>6, <2>7, CalmSame
<1>3. ASSUME NEW r \in Request, Select(r)
      PROVE  CalmInv'
  <2>1. Step(r) /\ pc[r] = "select" /\ UNCHANGED <<row, cache>>
    BY <1>3 DEF Step, Select
  <2>2. ASSUME ~Finish(r)
        PROVE  CalmInv'
    <3>1. /\ op' = op /\ user' = [user EXCEPT ![r] = row[Subject(r)]] /\ Goto(r, "fill")
      BY <1>3, <2>2 DEF Select, Subject
    <3>2. user'[r] = row[Subject(r)] /\ pc'[r] = "fill"
      BY <3>1 DEF Goto, TypeOK
    <3>3. OthersKeep(r)
      BY <2>1, NextLocal
    <3>4. \A q \in Request : /\ q \in Administrating' <=> q \in Administrating
                             /\ \A t \in Token : Deletes(q, t)' <=> Deletes(q, t)
      BY <2>1, <3>1, <3>2, <3>3 DEF OthersKeep, Administrating, Deletes
    <3>5. OneAdmin'
      <4>1. \A q \in Administrating' : q \in Administrating
        BY <3>4 DEF Administrating
      <4> QED
        BY <4>1 DEF CalmInv, OneAdmin
    <3>6. FreshFill'
      BY <2>1, <3>1, <3>2, <3>3 DEF CalmInv, FreshFill, OthersKeep, Subject
    <3>7. FreshAdmin'
      <4> SUFFICES ASSUME NEW q \in Administrating', pc'[q] = "handler"
                   PROVE  user'[q] = row'[Owner[op'[q].token]]
        BY DEF FreshAdmin, Subject
      <4>1. q # r /\ q \in Request
        BY <3>2 DEF Administrating
      <4>2. q \in Administrating
        BY <3>4, <4>1
      <4> QED
        BY <2>1, <3>3, <4>1, <4>2 DEF CalmInv, FreshAdmin, OthersKeep, Subject
    <3>8. StaleDeleted'
      BY <2>1, <3>4 DEF CalmInv, StaleDeleted, Stale
    <3> QED
      BY <2>1, <3>5, <3>6, <3>7, <3>8 DEF CalmInv, AdminLeft
  <2> QED
    BY <2>1, <2>2, CalmFinish
<1>4. ASSUME NEW r \in Request, Fill(r)
      PROVE  CalmInv'
  <2> DEFINE t == op[r].token
             entry == [user |-> user[r], until |-> now + CacheTtl]
  <2>1. /\ Step(r) /\ pc[r] = "fill" /\ UNCHANGED <<row, user, op>>
        /\ Goto(r, "handler")
        /\ cache' = [cache EXCEPT ![t] = entry]
    BY <1>4 DEF Step, Fill, Fail
  <2>2. pc'[r] = "handler" /\ OthersKeep(r)
    BY <2>1, NextLocal DEF Goto, TypeOK
  <2>3. t \in Token /\ Subject(r) = Owner[t] /\ user[r] = row[Owner[t]]
    BY <2>1 DEF TypeOK, Op, Subject, CalmInv, FreshFill
  <2>4. cache'[t].user = row'[Owner[t]] /\ \A z \in Token : z # t => cache'[z] = cache[z]
    BY <2>1, <2>3 DEF TypeOK
  <2>5. \A q \in Request : q \in Administrating' <=> q \in Administrating
    BY <2>1, <2>2 DEF OthersKeep, Administrating
  <2>6. \A q \in Request : \A z \in Token : Deletes(q, z) => Deletes(q, z)'
    BY <2>1, <2>2, <2>5 DEF OthersKeep, Deletes
  <2> HIDE DEF t, entry
  <2>7. StaleDeleted'
    <3> SUFFICES ASSUME NEW z \in Token, Stale(z)'
                 PROVE  \E q \in Request : Deletes(q, z)'
      BY DEF StaleDeleted
    <3>1. z # t /\ Stale(z)
      BY <2>1, <2>4 DEF Stale
    <3> QED
      BY <2>6, <3>1 DEF CalmInv, StaleDeleted
  <2>8. FreshFill'
    BY <2>1, <2>2 DEF CalmInv, FreshFill, OthersKeep, Subject
  <2>9. FreshAdmin'
    <3> SUFFICES ASSUME NEW q \in Administrating', pc'[q] = "handler"
                 PROVE  user'[q] = row'[Owner[op'[q].token]]
      BY DEF FreshAdmin, Subject
    <3>1. q \in Request
      BY DEF Administrating
    <3>2. q \in Administrating
      BY <2>5, <3>1
    <3>3. CASE q = r
      BY <2>1, <2>3, <3>3 DEF t
    <3>4. CASE q # r
      BY <2>1, <2>2, <3>1, <3>2, <3>4 DEF CalmInv, FreshAdmin, OthersKeep, Subject
    <3> QED
      BY <3>3, <3>4
  <2>10. OneAdmin'
    <3>1. \A q \in Administrating' : q \in Administrating
      BY <2>5 DEF Administrating
    <3> QED
      BY <3>1 DEF CalmInv, OneAdmin
  <2> QED
    BY <2>1, <2>7, <2>8, <2>9, <2>10 DEF CalmInv, AdminLeft
<1>5. ASSUME NEW r \in Request, Serve(r)
      PROVE  CalmInv'
  BY <1>5, CalmFinish DEF Step, Serve
<1>6. ASSUME NEW r \in Request, Update(r)
      PROVE  CalmInv'
  <2> DEFINE u == op[r].whom
             me == Subject(r)
  <2>1. /\ Step(r) /\ pc[r] = "handler" /\ UNCHANGED <<cache, op, user>> /\ Goto(r, "scan")
        /\ row' = [row EXCEPT ![u] = Updated(op[r].do, row[u])]
        /\ Filling(u) = {} /\ op[r].do \in AdminOp
        /\ user[r].role = "ADMIN"
        /\ op[r].do \in {"demote", "disable"} => u # me
    BY <1>6 DEF Step, Update, Allowed, Subject
  <2>2. pc'[r] = "scan" /\ OthersKeep(r) /\ u \in User /\ me \in User
    BY <2>1, NextLocal, OwnerAssumption DEF Goto, TypeOK, Op, Subject
  <2>3. r \in Administrating /\ user[r] = row[me]
    BY <2>1 DEF Administrating, CalmInv, FreshAdmin
  <2>4. row'[u] = Updated(op[r].do, row[u]) /\ \A v \in User : v # u => row'[v] = row[v]
    BY <2>1, <2>2 DEF TypeOK
  <2>5. row[u] \in Row
    BY <2>2 DEF TypeOK
  <2>6. \A q \in Request : q \in Administrating' => q = r
    BY <2>1, <2>2, <2>3 DEF CalmInv, OneAdmin, OthersKeep, Administrating
  <2>7. r \in Administrating' /\ op'[r].whom = u
    BY <2>1, <2>2 DEF Administrating
  <2>8. AdminLeft'
    <3>1. PICK v \in User : v = me
      BY <2>2
    <3>2. row[v].role = "ADMIN"
      BY <2>1, <2>3, <3>1
    <3>3. CASE v # u
      <4>1. PICK w \in User : row[w].role = "ADMIN" /\ ~row[w].isDisabled
        BY DEF CalmInv, AdminLeft
      <4>2. CASE w # u
        BY <2>4, <4>1, <4>2 DEF AdminLeft
      <4>3. CASE w = u
        <5>1. ~row[v].isDisabled
          BY <2>1, <2>3, <3>1 DEF Clock, TypeOK
        <5> QED
          BY <2>4, <3>2, <3>3, <5>1 DEF AdminLeft
      <4> QED
        BY <4>2, <4>3
    <3>4. CASE v = u
      <4>1. op[r].do \notin {"demote", "disable"}
        BY <2>1, <3>1, <3>4
      <4>2. PICK w \in User : row[w].role = "ADMIN" /\ ~row[w].isDisabled
        BY DEF CalmInv, AdminLeft
      <4>3. CASE w = u
        <5>1. row'[u].role = "ADMIN" /\ ~row'[u].isDisabled
          BY <2>1, <2>4, <2>5, <4>1, <4>2, <4>3, UpdatedType
        <5> QED
          BY <2>2, <5>1 DEF AdminLeft
      <4>4. CASE w # u
        BY <2>4, <4>2, <4>4 DEF AdminLeft
      <4> QED
        BY <4>3, <4>4
    <3> QED
      BY <3>3, <3>4
  <2> HIDE DEF u, me
  <2>9. OneAdmin'
    BY <2>6 DEF OneAdmin, Administrating
  <2>10. FreshAdmin'
    BY <2>2, <2>6 DEF FreshAdmin, Administrating
  <2>11. FreshFill'
    <3> SUFFICES ASSUME NEW q \in Request, pc'[q] = "fill"
                 PROVE  user'[q] = row'[Owner[op'[q].token]]
      BY DEF FreshFill, Subject
    <3>1. q # r /\ pc[q] = "fill"
      BY <2>2 DEF OthersKeep
    <3>2. Subject(q) # u /\ Subject(q) \in User
      BY <2>1, <3>1, OwnerAssumption DEF Filling, Subject, TypeOK, Op
    <3>3. user[q] = row[Subject(q)]
      BY <3>1 DEF CalmInv, FreshFill
    <3> QED
      BY <2>1, <2>4, <3>2, <3>3 DEF Subject
  <2>12. StaleDeleted'
    <3> SUFFICES ASSUME NEW t \in Token, Stale(t)'
                 PROVE  \E q \in Request : Deletes(q, t)'
      BY DEF StaleDeleted
    <3>1. CASE Owner[t] = u
      BY <2>2, <2>7, <3>1 DEF Deletes
    <3>2. CASE Owner[t] # u
      <4>1. Owner[t] \in User
        BY OwnerAssumption
      <4>2. Stale(t)
        BY <2>1, <2>4, <3>2, <4>1 DEF Stale
      <4>3. PICK q \in Request : Deletes(q, t)
        BY <4>2 DEF CalmInv, StaleDeleted
      <4>4. q = r
        BY <2>3, <4>3 DEF Deletes, CalmInv, OneAdmin
      <4> QED
        BY <2>1, <4>3, <4>4 DEF Deletes
    <3> QED
      BY <3>1, <3>2
  <2> QED
    BY <2>8, <2>9, <2>10, <2>11, <2>12 DEF CalmInv
<1>7. ASSUME NEW r \in Request, Logout(r)
      PROVE  CalmInv'
  <2>1. /\ Step(r) /\ op[r].do = "logout" /\ UNCHANGED <<row, cache, op>>
        /\ pc'[r] = "scan"
    BY <1>7 DEF Step, Logout, Goto, TypeOK
  <2>2. r \notin Administrating /\ r \notin Administrating'
    BY <2>1 DEF Administrating, AdminOp
  <2> QED
    BY <2>1, <2>2, CalmSame DEF Deletes
<1>8. ASSUME NEW r \in Request, Scan(r)
      PROVE  CalmInv'
  <2>1. /\ Step(r) /\ pc[r] = "scan" /\ UNCHANGED <<row, cache, op>>
        /\ pc'[r] = "probe" /\ keys'[r] = CacheKeys
    BY <1>8 DEF Step, Scan, Goto, TypeOK, Fail
  <2>2. r \in Administrating' <=> r \in Administrating
    BY <2>1 DEF Administrating
  <2>3. \A t \in Token : Deletes(r, t) /\ Stale(t) => Deletes(r, t)'
    BY <2>1, <2>2 DEF Deletes, Stale, CacheKeys
  <2> QED
    BY <2>1, <2>2, <2>3, CalmSame
<1>9. ASSUME NEW r \in Request, Probe(r)
      PROVE  CalmInv'
  <2>1. Step(r) /\ pc[r] = "probe" /\ UNCHANGED <<row, cache, op>>
    BY <1>9 DEF Step, Probe
  <2>2. CASE pc'[r] = "delete" /\ keys[r] = {} /\ UNCHANGED doomed
    <3>1. r \in Administrating' <=> r \in Administrating
      BY <2>1, <2>2 DEF Administrating
    <3>2. \A t \in Token : Deletes(r, t) => Deletes(r, t)'
      BY <2>1, <2>2, <3>1 DEF Deletes
    <3> QED
      BY <2>1, <2>2, <3>1, <3>2, CalmSame
  <2>3. ASSUME NEW k \in keys[r], keys' = [keys EXCEPT ![r] = @ \ {k}], UNCHANGED <<pc, since>>,
               \/ doomed' = [doomed EXCEPT ![r] = @ \cup {k}]
               \/ doomed' = doomed /\ (cache[k] = NULL \/ Owner[k] # op[r].whom)
        PROVE  CalmInv'
    <3>1. r \in Administrating' <=> r \in Administrating
      BY <2>1, <2>3 DEF Administrating
    <3>2. /\ keys'[r] = keys[r] \ {k}
          /\ doomed'[r] = doomed[r] \cup {k} \/ (doomed'[r] = doomed[r] /\ (cache[k] = NULL \/ Owner[k] # op[r].whom))
      BY <2>3 DEF TypeOK
    <3>3. \A t \in Token : Deletes(r, t) /\ Stale(t) => Deletes(r, t)'
      BY <2>1, <2>3, <3>1, <3>2 DEF Deletes, Stale
    <3> QED
      BY <2>1, <2>3, <3>1, <3>3, CalmSame
  <2> QED
    BY <1>9, <2>2, <2>3 DEF Probe, Fail, Goto, TypeOK
<1>10. ASSUME NEW r \in Request, Delete(r)
       PROVE  CalmInv'
  <2>1. /\ Step(r) /\ pc[r] = "delete" /\ UNCHANGED row /\ Finish(r)
        /\ cache' = [t \in Token |-> IF t \in doomed[r] THEN NULL ELSE cache[t]]
    BY <1>10 DEF Step, Delete, Fail
  <2>2. pc'[r] = "idle" /\ OthersKeep(r)
    BY <2>1, FinishType
  <2>3. \A q \in Request : q # r =>
           /\ q \in Administrating' <=> q \in Administrating
           /\ \A t \in Token : Deletes(q, t)' <=> Deletes(q, t)
    BY <2>2 DEF OthersKeep, Administrating, Deletes
  <2>4. \A q \in Administrating' : q # r /\ q \in Administrating /\ q \in Request
    BY <2>2, <2>3 DEF Administrating
  <2>5. OneAdmin'
    BY <2>4 DEF CalmInv, OneAdmin
  <2>6. FreshFill'
    BY <2>1, <2>2 DEF CalmInv, FreshFill, OthersKeep, Subject
  <2>7. FreshAdmin'
    BY <2>1, <2>2, <2>4 DEF CalmInv, FreshAdmin, OthersKeep, Subject
  <2>8. StaleDeleted'
    <3> SUFFICES ASSUME NEW t \in Token, Stale(t)'
                 PROVE  \E q \in Request : Deletes(q, t)'
      BY DEF StaleDeleted
    <3>1. t \notin doomed[r] /\ Stale(t)
      BY <2>1 DEF Stale
    <3>2. PICK q \in Request : Deletes(q, t)
      BY <3>1 DEF CalmInv, StaleDeleted
    <3>3. q # r
      BY <2>1, <3>1, <3>2 DEF Deletes
    <3> QED
      BY <2>3, <3>2, <3>3
  <2> QED
    BY <2>1, <2>5, <2>6, <2>7, <2>8 DEF CalmInv, AdminLeft
<1>11. ASSUME NEW r \in Request, Die(r)
       PROVE  FALSE
  BY <1>11 DEF Die, Fail
<1>12. CASE Tick
  <2>1. /\ UNCHANGED <<row, op, pc, user, keys, doomed>>
        /\ \A t \in Token : cache'[t] = cache[t] \/ cache'[t] = NULL
    BY <1>12 DEF Tick
  <2>2. OneAdmin' /\ FreshFill' /\ FreshAdmin' /\ AdminLeft'
    BY <2>1 DEF CalmInv, OneAdmin, FreshFill, FreshAdmin, AdminLeft, Subject, Administrating
  <2>3. StaleDeleted'
    BY <2>1 DEF CalmInv, StaleDeleted, Stale, Deletes, Administrating
  <2> QED
    BY <2>2, <2>3 DEF CalmInv
<1>13. CASE UNCHANGED vars
  <2>1. UNCHANGED <<row, cache, op, pc, user, keys, doomed>>
    BY <1>13 DEF vars
  <2> QED
    BY <2>1 DEF CalmInv, OneAdmin, FreshFill, FreshAdmin, AdminLeft, StaleDeleted, Stale, Deletes,
                Subject, Administrating
<1> QED
  BY <1>1, <1>2, <1>3, <1>4, <1>5, <1>6, <1>7, <1>8, <1>9, <1>10, <1>11, <1>12, <1>13 DEF Next, Step

LEMMA CalmStays == ASSUME [Next]_vars PROVE calm' = calm
<1>1. ASSUME NEW r \in Request, Step(r)
      PROVE  calm' = calm
  BY <1>1 DEF Step, Start, Get, Select, Fill, Serve, Update, Logout, Scan, Probe, Delete, Die
<1> QED
  BY <1>1 DEF Next, Tick, vars

LEMMA InitCalm == Init => CalmInv
<1> SUFFICES ASSUME Init PROVE CalmInv
  OBVIOUS
<1>1. AdminLeft
  BY AnAdminExists DEF Init, AdminLeft
<1> QED
  BY <1>1 DEF Init, CalmInv, OneAdmin, FreshFill, FreshAdmin, StaleDeleted, Stale, Administrating

\* When the deletions reach Redis and no validation overlaps the change, no old
\* entry outlasts the request that changed the row (admin.service.ts line 124).
THEOREM ChangesReachTheCache == Spec => []CalmDropsStale
<1>1. Init => TypeOK /\ Clock /\ (calm => CalmInv)
  BY InitType, InitClock, InitCalm
<1>2. TypeOK /\ Clock /\ (calm => CalmInv) /\ [Next]_vars
          => (TypeOK /\ Clock /\ (calm => CalmInv))'
  BY NextType, NextClock, NextCalm, CalmStays
<1>3. (calm => CalmInv) => CalmDropsStale
  <2> SUFFICES ASSUME CalmInv, NEW t \in Token, cache[t] # NULL, Dropping(Owner[t]) = {}, Stale(t)
               PROVE  FALSE
    BY DEF CalmDropsStale, Stale
  <2>1. PICK r \in Request : Deletes(r, t)
    BY DEF CalmInv, StaleDeleted
  <2>2. r \in Dropping(Owner[t])
    BY <2>1 DEF Deletes, Dropping
  <2> QED
    BY <2>2
<1> QED
  BY <1>1, <1>2, <1>3, PTL DEF Spec

\* When administrators act one at a time as well, somebody is left who can
\* administrate (admin.service.ts line 112).
THEOREM SomebodyAdministrates == Spec => []CalmAdminRemains
<1>1. Init => TypeOK /\ Clock /\ (calm => CalmInv)
  BY InitType, InitClock, InitCalm
<1>2. TypeOK /\ Clock /\ (calm => CalmInv) /\ [Next]_vars
          => (TypeOK /\ Clock /\ (calm => CalmInv))'
  BY NextType, NextClock, NextCalm, CalmStays
<1>3. (calm => CalmInv) => CalmAdminRemains
  BY DEF CalmInv, AdminLeft, CalmAdminRemains
<1> QED
  BY <1>1, <1>2, <1>3, PTL DEF Spec
=============================================================================
