------------------------------ MODULE SessionBook ------------------------------
(***************************************************************************)
(* What auth.service.ts promises of accounts and sessions: the two tables  *)
(* change by whole commands, and each finds what it builds on at the moment*)
(* it writes, although the handler looked for it statements earlier and    *)
(* other requests wrote in between.                                        *)
(***************************************************************************)
EXTENDS Naturals

CONSTANTS User, Session, Code, NULL

VARIABLES
    account, session, minted,   \* as in Sessions
    held,     \* the user and the session of each token that reached a client
    drawn, accepted,   \* how many codes a user was given, and had accepted
    calm      \* whether the codes of a user are checked one after the other

vars == <<account, session, minted, held, drawn, accepted, calm>>

Init ==
    /\ account = [u \in User |-> NULL] /\ session = [s \in Session |-> NULL]
    /\ minted = {} /\ held = {}
    /\ drawn = [u \in User |-> 0] /\ accepted = [u \in User |-> 0]
    /\ calm \in BOOLEAN

-----------------------------------------------------------------------------
(* Accounts and their codes.                                               *)

\* A session nobody has a token of yet, under an id never used before.
Opens(u, s) ==
    /\ s \notin minted
    /\ session' = [session EXCEPT ![s] = [user |-> u, digest |-> NULL, live |-> TRUE]]
    /\ minted' = minted \cup {s}

SignUp(u, c, s) ==
    /\ account[u] = NULL
    /\ account' = [account EXCEPT ![u] = [verified |-> FALSE, code |-> c, fresh |-> TRUE]]
    /\ drawn' = [drawn EXCEPT ![u] = @ + 1]
    /\ Opens(u, s)
    /\ UNCHANGED <<held, accepted, calm>>

Draw(u, c) ==
    /\ account[u] # NULL
    /\ account' = [account EXCEPT ![u].code = c, ![u].fresh = TRUE]
    /\ drawn' = [drawn EXCEPT ![u] = @ + 1]
    /\ UNCHANGED <<session, minted, held, accepted, calm>>

\* The code is used up; it is still there unless another check used it up first.
Verify(u) ==
    /\ account[u] # NULL
    /\ calm => account[u].code # NULL
    /\ account' = [account EXCEPT ![u] = [verified |-> TRUE, code |-> NULL, fresh |-> FALSE]]
    /\ accepted' = [accepted EXCEPT ![u] = @ + 1]
    /\ UNCHANGED <<session, minted, held, drawn, calm>>

LapseCode(u) ==
    /\ account[u] # NULL
    /\ account' = [account EXCEPT ![u].fresh = FALSE]
    /\ UNCHANGED <<session, minted, held, drawn, accepted, calm>>

-----------------------------------------------------------------------------
(* Sessions and their tokens.                                              *)

SignIn(u, s) ==
    /\ account[u] # NULL
    /\ Opens(u, s)
    /\ UNCHANGED <<account, held, drawn, accepted, calm>>

\* A session that exists gets the digest of a token of its own user; a refresh
\* prolongs it, even if it expired a moment ago.
Rotate(s, live) ==
    /\ session[s] # NULL
    /\ session[s].live => live
    /\ session' = [session EXCEPT ![s] =
                       [user |-> @.user, digest |-> @.user, live |-> live]]
    /\ UNCHANGED <<account, minted, held, drawn, accepted, calm>>

\* A token leaves for a client: if its session still exists, it is that user's
\* and has the digest of such a token.
HandOut(u, s) ==
    /\ s \in minted
    /\ session[s] # NULL => session[s].user = u /\ session[s].digest = u
    /\ held' = held \cup {<<u, s>>}
    /\ UNCHANGED <<account, session, minted, drawn, accepted, calm>>

End(s) ==
    /\ session[s] # NULL
    /\ session' = [session EXCEPT ![s] = NULL]
    /\ UNCHANGED <<account, minted, held, drawn, accepted, calm>>

LapseSession(s) ==
    /\ session[s] # NULL
    /\ session' = [session EXCEPT ![s].live = FALSE]
    /\ UNCHANGED <<account, minted, held, drawn, accepted, calm>>

-----------------------------------------------------------------------------
AccountCommand ==
    \E u \in User :
        \/ Verify(u) \/ LapseCode(u)
        \/ \E c \in Code : Draw(u, c) \/ \E s \in Session : SignUp(u, c, s)

SessionCommand ==
    \E s \in Session :
        \/ End(s) \/ LapseSession(s)
        \/ \E live \in BOOLEAN : Rotate(s, live)
        \/ \E u \in User : SignIn(u, s) \/ HandOut(u, s)

Next == AccountCommand \/ SessionCommand

Spec == Init /\ [][Next]_vars
=============================================================================
