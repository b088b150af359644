------------------------------- MODULE EditLease -------------------------------
(***************************************************************************)
(* What edit-lock.service.ts promises of a task's lock: a lease that one   *)
(* user wins, renews, hands back or lets lapse, each at once.  A user who  *)
(* keeps to `calm` (one request at a time, none outlived by the lease)     *)
(* renews, hands back and drafts only as the holder; any other user at     *)
(* least won the lease some time.                                          *)
(***************************************************************************)
CONSTANTS User, NULL

VARIABLES lock, granted, had, heard, calm   \* as in EditLock

vars == <<lock, granted, had, heard, calm>>

Init ==
    /\ lock = NULL /\ granted = [u \in User |-> FALSE]
    /\ had = {} /\ heard = {} /\ calm \in BOOLEAN

\* On whose behalf the lease may be changed or an edit be shown.
Entitled(u) == u \in had /\ (calm => lock = u)

\* Only a free lock is won.  The answer may be lost.
Win(u) ==
    /\ lock = NULL
    /\ lock' = u /\ had' = had \cup {u}
    /\ granted' \in {granted, [granted EXCEPT ![u] = TRUE]}
    /\ UNCHANGED <<heard, calm>>

\* The holder has more time, or its time runs on and it is not told.
Renew(u) ==
    /\ Entitled(u)
    /\ lock' \in {u, lock}
    /\ granted' = [granted EXCEPT ![u] = TRUE]
    /\ UNCHANGED <<had, heard, calm>>

\* The holder hands the lock back, or leaves it to lapse.
Release(u) ==
    /\ Entitled(u)
    /\ lock' \in {NULL, lock}
    /\ granted' = [granted EXCEPT ![u] = FALSE]
    /\ UNCHANGED <<had, heard, calm>>

Draft(u) ==
    /\ Entitled(u)
    /\ heard' = heard \cup {u}
    /\ UNCHANGED <<lock, granted, had, calm>>

Lapse ==
    /\ lock # NULL
    /\ lock' = NULL /\ granted' = [granted EXCEPT ![lock] = FALSE]
    /\ UNCHANGED <<had, heard, calm>>

Next == Lapse \/ \E u \in User : Win(u) \/ Renew(u) \/ Release(u) \/ Draft(u)

Spec == Init /\ [][Next]_vars
=============================================================================
