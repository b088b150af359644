------------------------------- MODULE Presence -------------------------------
(***************************************************************************)
(* Who is online in a team: the life of an SSE stream in                   *)
(* realtime.controller.ts and the connection counters it keeps in Redis    *)
(* through presence.service.ts.  A stream is set up in several awaited     *)
(* calls, during which its client may disconnect.  Teams have counters of  *)
(* their own: one team is modelled.  Whether the user may listen to it is  *)
(* decided by rows outside this module: both answers are possible.         *)
(***************************************************************************)
EXTENDS Integers, FiniteSets

CONSTANTS
    User,
    Stream,    \* connections, each opened once
    MaxFailures, \* bound: streams lost to a Redis error or a dying server
    NULL

ASSUME StreamAssumption == IsFiniteSet(Stream) /\ MaxFailures \in Nat
ASSUME NullAssumption == NULL \notin User

VARIABLES
    count,      \* the Redis hash: connections per user; an absent field is 0
    said,       \* what the presence channel last carried about a user
    user, pc,   \* whose stream it is, and how far its handler got
    connected,  \* whether the client still reads the stream
    held,       \* history: streams counted in by join and not out by leave
    failures,
    calm        \* whether clients and Redis behave as CountsTabs asks

streams == <<user, pc, connected>>
vars    == <<count, said, user, pc, connected, held, failures, calm>>

Pc == {"new", "authorize", "join", "online", "snapshot", "subscribe", "live",
       "leave", "delete", "offline", "ended"}

Of(u) == {s \in Stream : user[s] = u}
Live(u) == {s \in Of(u) : pc[s] = "live"}

\* No stream of u is being set up or torn down.
Settled(u) == \A s \in Of(u) : pc[s] \in {"live", "ended"}

Init ==
    /\ count = [u \in User |-> 0]
    /\ said = [u \in User |-> "offline"]
    /\ user = [s \in Stream |-> NULL]
    /\ pc = [s \in Stream |-> "new"]
    /\ connected = [s \in Stream |-> FALSE]
    /\ held = {}
    /\ failures = 0
    /\ calm \in BOOLEAN

Goto(s, label) == pc' = [pc EXCEPT ![s] = label]

\* An EventSource opens the stream.
Open(s, u) ==
    /\ pc[s] = "new"
    /\ calm => Settled(u)
    /\ user' = [user EXCEPT ![s] = u]
    /\ connected' = [connected EXCEPT ![s] = TRUE]
    /\ Goto(s, "authorize")
    /\ UNCHANGED <<count, said, held, failures, calm>>

\* assertTeamMembership; a refusal ends the stream through subscriber.error.
Authorize(s) ==
    /\ pc[s] = "authorize"
    /\ \/ Goto(s, "join") /\ UNCHANGED connected
       \/ Goto(s, "ended") /\ connected' = [connected EXCEPT ![s] = FALSE]
    /\ UNCHANGED <<count, said, user, held, failures, calm>>

\* Something outside the program fails: explored a bounded number of times.
Fail == ~calm /\ failures < MaxFailures /\ failures' = failures + 1

\* Mutant: the first connection counts twice.
JoinTwice(s) ==
    LET u == user[s] IN
    /\ pc[s] = "join"
    /\ count' = [count EXCEPT ![u] = IF @ = 0 THEN 2 ELSE @ + 1]
    /\ held' = held \cup {s}
    /\ Goto(s, IF count[u] = 0 THEN "online" ELSE "snapshot")
    /\ UNCHANGED <<said, user, connected, failures, calm>>

\* join: HINCRBY 1.  When Redis fails the stream ends, counted or not.
Join(s) ==
    LET u == user[s] IN
    /\ pc[s] = "join"
    /\ \/ /\ count' = [count EXCEPT ![u] = @ + 1]
          /\ held' = held \cup {s}
          /\ Goto(s, IF count[u] = 0 THEN "online" ELSE "snapshot")
          /\ UNCHANGED <<connected, failures>>
       \/ /\ Fail
          /\ \/ count' = [count EXCEPT ![u] = @ + 1] /\ held' = held \cup {s}
             \/ UNCHANGED <<count, held>>
          /\ Goto(s, "ended")
          /\ connected' = [connected EXCEPT ![s] = FALSE]
    /\ UNCHANGED <<said, user, calm>>

\* emitPresence: RedisService.publish swallows an error, and the event is lost.
Announce(u, what) ==
    \/ said' = [said EXCEPT ![u] = what]
    \/ ~calm /\ UNCHANGED said

AnnounceOnline(s) ==
    /\ pc[s] = "online"
    /\ Announce(user[s], "online")
    /\ Goto(s, "snapshot")
    /\ UNCHANGED <<count, user, connected, held, failures, calm>>

\* onlineUserIds, and the snapshot goes to the client.
Snapshot(s) ==
    /\ pc[s] = "snapshot"
    /\ Goto(s, "subscribe")
    /\ UNCHANGED <<count, said, user, connected, held, failures, calm>>

\* The stream subscribes to the team's channels and gets its teardown, even when
\* the client has left meanwhile.
Subscribe(s) ==
    /\ pc[s] = "subscribe"
    /\ Goto(s, "live")
    /\ UNCHANGED <<count, said, user, connected, held, failures, calm>>

\* Mutant: the teardown is in place before the stream has joined.
DisconnectAnytime(s) ==
    /\ connected[s]
    /\ calm => Settled(user[s])
    /\ connected' = [connected EXCEPT ![s] = FALSE]
    /\ Goto(s, "leave")
    /\ UNCHANGED <<count, said, user, held, failures, calm>>

\* The client disconnects: the teardown runs, which does nothing before `live`.
Disconnect(s) ==
    /\ connected[s]
    /\ calm => Settled(user[s])
    /\ connected' = [connected EXCEPT ![s] = FALSE]
    /\ \/ pc[s] = "live" /\ Goto(s, "leave")
       \/ pc[s] # "live" /\ UNCHANGED pc
    /\ UNCHANGED <<count, said, user, held, failures, calm>>

\* Mutant: the last connection does not count as the last.
LeaveBelowZero(s) ==
    LET u == user[s] IN
    /\ pc[s] = "leave"
    /\ count' = [count EXCEPT ![u] = @ - 1]
    /\ held' = held \ {s}
    /\ Goto(s, IF count[u] <= 0 THEN "delete" ELSE "ended")
    /\ UNCHANGED <<said, user, connected, failures, calm>>

\* Mutant: the teardown only unsubscribes.
LeaveNothing(s) ==
    /\ pc[s] = "leave"
    /\ Goto(s, "ended")
    /\ UNCHANGED <<count, held, said, user, connected, failures, calm>>

\* leave: HINCRBY -1.
Leave(s) ==
    LET u == user[s] IN
    /\ pc[s] = "leave"
    /\ count' = [count EXCEPT ![u] = @ - 1]
    /\ held' = held \ {s}
    /\ Goto(s, IF count[u] <= 1 THEN "delete" ELSE "ended")
    /\ UNCHANGED <<said, user, connected, failures, calm>>

\* leave: HDEL, whatever the field holds by now.
HDel(s) ==
    /\ pc[s] = "delete"
    /\ count' = [count EXCEPT ![user[s]] = 0]
    /\ Goto(s, "offline")
    /\ UNCHANGED <<said, user, connected, held, failures, calm>>

AnnounceOffline(s) ==
    /\ pc[s] = "offline"
    /\ Announce(user[s], "offline")
    /\ Goto(s, "ended")
    /\ UNCHANGED <<count, user, connected, held, failures, calm>>

\* The server dies, also of a Redis error in leave, which nobody catches.
Die(s) ==
    /\ Fail
    /\ pc[s] \notin {"new", "ended"}
    /\ Goto(s, "ended")
    /\ connected' = [connected EXCEPT ![s] = FALSE]
    /\ UNCHANGED <<count, said, user, held, calm>>

Step(s) ==
    \/ Authorize(s) \/ Join(s) \/ AnnounceOnline(s) \/ Snapshot(s) \/ Subscribe(s)
    \/ Leave(s) \/ HDel(s) \/ AnnounceOffline(s)

Next ==
    \E s \in Stream :
        \/ \E u \in User : Open(s, u)
        \/ Step(s) \/ Disconnect(s) \/ Die(s)

Spec == Init /\ [][Next]_vars

\* Handlers run to their end; no client has to open or to close anything.
FairSpec == Spec /\ \A s \in Stream : WF_vars(Step(s))

-----------------------------------------------------------------------------
(* Properties.                                                             *)

\* A stream whose handler is past join, and not yet past leave.
Joined(s) == pc[s] \in {"online", "snapshot", "subscribe", "live", "leave"}

\* Every variable keeps its type, and a teardown takes back only what the join of
\* the same stream has counted.
TypeOK ==
    /\ count \in [User -> Int]
    /\ said \in [User -> {"online", "offline"}]
    /\ user \in [Stream -> User \cup {NULL}]
    /\ pc \in [Stream -> Pc]
    /\ connected \in [Stream -> BOOLEAN]
    /\ held \subseteq Stream
    /\ failures \in Nat
    /\ calm \in BOOLEAN
    /\ \A s \in Stream : Joined(s) => s \in held
    /\ \A s \in Stream : pc[s] # "new" => user[s] \in User

\* Whatever is lost, leaked or overtaken, a counter never exceeds the streams that
\* joined and did not leave: nobody is online without one of them.
NeverOvercounts == \A u \in User : count[u] <= Cardinality(held \cap Of(u))

\* "Ref-counted per user so multiple tabs only go offline on the last close.
\* Transitions are broadcast": for a user who opens and closes one stream at a
\* time, undisturbed, the counter is the number of open streams and the last
\* transition announced agrees with it.
CountsTabs ==
    calm => \A u \in User : Settled(u) =>
        /\ count[u] = Cardinality(Live(u))
        /\ (said[u] = "online") = (Live(u) # {})

Gone(u) == \A s \in Of(u) : ~connected[s]

\* Under the same conditions, who closed its last stream goes offline.
CalmGoesOffline ==
    \A u \in User : calm /\ Gone(u) ~> ~Gone(u) \/ (count[u] <= 0 /\ said[u] = "offline")

\* "Presence is connection-bound: online on subscribe, offline on teardown": who
\* closed its last stream goes offline.
GoesOffline == \A u \in User : Gone(u) ~> ~Gone(u) \/ count[u] <= 0
=============================================================================
