------------------------------- MODULE Sessions -------------------------------
(***************************************************************************)
(* Accounts, one-time passwords and refresh-token sessions: auth.service.ts*)
(* over the tables of migration 003, each handler as the awaited statements*)
(* it runs.  Hashing and signing touch nothing shared and belong to the    *)
(* statement that follows them.  Access tokens and the user cache are in   *)
(* TokenCache, the home team of a new user in Teams.                       *)
(***************************************************************************)
EXTENDS Naturals, FiniteSets

CONSTANTS
    User, Session, Request, NULL,
    Code,        \* one-time passwords; a single one in development
    PerSecond,   \* requests that arrive in one second, the unit of a token's "iat"
    MaxRequests, \* bound on the requests that are made
    MaxFailures  \* bound on statements that fail

ASSUME BoundAssumption == MaxRequests \in Nat /\ MaxFailures \in Nat
ASSUME RateAssumption == PerSecond \in Nat \ {0}

VARIABLES
    account,  \* rows of "User": verified, and the one-time password
    session,  \* rows of "Session"
    minted,   \* session ids already handed out: none is used twice
    issued,   \* the refresh tokens that reached a client
    mailed,   \* the one-time password last queued for a user
    op, pc,   \* what a request asks for with its locals, and its next statement
    requests, failures,
    drawn, accepted, \* history: codes stored for a user, codes accepted from it
    calm      \* whether a user has its codes sent, and checked, one by one

vars == <<account, session, minted, issued, mailed, op, pc,
          requests, failures, drawn, accepted, calm>>
tables == <<account, session, minted, issued, mailed, drawn, accepted>>

AccountRow == [verified : BOOLEAN, code : Code \cup {NULL}, fresh : BOOLEAN]

\* A refresh token: its payload, the second it was signed in ("iat") included.
Token == [user : User, session : Session, iat : Nat]

\* bcrypt reads 72 bytes.  The header of a JWT takes 37 of them, and the other
\* 35 encode the first 26 bytes of the payload: {"id":" and enough of the id to
\* tell users apart.
Digest(t) == t.user

SessionRow == [user : User, digest : User \cup {NULL}, live : BOOLEAN]

Do == {"signUp", "requestOtp", "verifyOtp", "signIn", "refreshToken", "logout"}
Op == [do : Do, user : User, code : Code \cup {NULL}, session : Session \cup {NULL},
       iat : Nat, shown : Token \cup {NULL}]
Pc == {"idle", "existing", "insert", "user", "setOtp", "mail", "match", "clear", "open",
       "store", "send", "session", "drop", "delete"}

ASSUME NullAssumption ==
    NULL \notin User \cup Session \cup Code \cup AccountRow \cup SessionRow \cup Op

First == [signUp |-> "existing", requestOtp |-> "user", verifyOtp |-> "match",
          signIn |-> "user", refreshToken |-> "session", logout |-> "delete"]

Init ==
    /\ account = [u \in User |-> NULL]
    /\ session = [s \in Session |-> NULL]
    /\ minted = {} /\ issued = {}
    /\ mailed = [u \in User |-> NULL]
    /\ op = [r \in Request |-> NULL] /\ pc = [r \in Request |-> "idle"]
    /\ requests = 0 /\ failures = 0
    /\ drawn = [u \in User |-> 0] /\ accepted = [u \in User |-> 0]
    /\ calm \in BOOLEAN

Goto(r, label) ==
    pc' = [pc EXCEPT ![r] = label] /\ UNCHANGED <<requests, failures, calm>>

Finish(r) == Goto(r, "idle") /\ op' = [op EXCEPT ![r] = NULL]

Refuse(r) == Finish(r) /\ UNCHANGED tables

\* Requests for u that store a code, or check one.
Busy(u, do) == {r \in Request : pc[r] # "idle" /\ op[r].user = u /\ op[r].do \in do}
Sending == {"signUp", "requestOtp"}

Start(r, o) ==
    /\ pc[r] = "idle" /\ requests < MaxRequests
    /\ calm /\ o.do \in Sending => Busy(o.user, Sending) = {}
    /\ calm /\ o.do = "verifyOtp" => Busy(o.user, {"verifyOtp"}) = {}
    /\ requests' = requests + 1
    /\ op' = [op EXCEPT ![r] = o]
    /\ pc' = [pc EXCEPT ![r] = First[o.do]]
    /\ UNCHANGED <<tables, failures, calm>>

Second == requests \div PerSecond

\* What clients send: any email and code, and the refresh tokens they hold.  The
\* user of a logout is that of its access token.
Requests ==
    [do : {"signUp", "signIn"}, user : User, code : {NULL}, session : {NULL},
     iat : {Second}, shown : {NULL}]
    \cup [do : {"requestOtp"}, user : User, code : {NULL}, session : {NULL},
          iat : {0}, shown : {NULL}]
    \cup [do : {"verifyOtp"}, user : User, code : Code, session : {NULL},
          iat : {Second}, shown : {NULL}]
    \cup {[do |-> "refreshToken", user |-> t.user, code |-> NULL, session |-> t.session,
           iat |-> Second, shown |-> t] : t \in issued}
    \cup [do : {"logout"}, user : User, code : {NULL}, session : {t.session : t \in issued},
          iat : {0}, shown : {NULL}]

-----------------------------------------------------------------------------
\* signUp: the email is taken.
Existing(r) ==
    /\ pc[r] = "existing"
    /\ \/ account[op[r].user] # NULL /\ Refuse(r)
       \/ account[op[r].user] = NULL /\ Goto(r, "insert") /\ UNCHANGED <<tables, op>>

\* Mutant: no unique index keeps a second user of the same email out.
InsertTwice(r) ==
    LET u == op[r].user IN
    /\ pc[r] = "insert"
    /\ \E s \in Session \ minted, c \in Code :
          /\ account' = [account EXCEPT ![u] =
                 [verified |-> FALSE, code |-> c, fresh |-> TRUE]]
          /\ session' = [session EXCEPT ![s] =
                 [user |-> u, digest |-> NULL, live |-> TRUE]]
          /\ minted' = minted \cup {s}
          /\ op' = [op EXCEPT ![r].code = c, ![r].session = s]
    /\ drawn' = [drawn EXCEPT ![u] = @ + 1]
    /\ Goto(r, "store") /\ UNCHANGED <<issued, mailed, accepted>>

\* signUp: the user and its first session in one transaction, which the unique
\* index on the email refuses when another request was faster.
Insert(r) ==
    LET u == op[r].user IN
    /\ pc[r] = "insert"
    /\ \/ account[u] # NULL /\ Refuse(r)
       \/ /\ account[u] = NULL
          /\ \E s \in Session \ minted, c \in Code :
                /\ account' = [account EXCEPT ![u] =
                       [verified |-> FALSE, code |-> c, fresh |-> TRUE]]
                /\ session' = [session EXCEPT ![s] =
                       [user |-> u, digest |-> NULL, live |-> TRUE]]
                /\ minted' = minted \cup {s}
                /\ op' = [op EXCEPT ![r].code = c, ![r].session = s]
          /\ drawn' = [drawn EXCEPT ![u] = @ + 1]
          /\ Goto(r, "store") /\ UNCHANGED <<issued, mailed, accepted>>

\* requestOtp and signIn: no such user; signIn also refuses a blocked user and a
\* wrong password.
FindUser(r) ==
    /\ pc[r] = "user"
    /\ \/ op[r].do = "signIn" /\ Refuse(r)
       \/ account[op[r].user] = NULL /\ Refuse(r)
       \/ /\ account[op[r].user] # NULL
          /\ Goto(r, IF op[r].do = "signIn" THEN "open" ELSE "setOtp")
          /\ UNCHANGED <<tables, op>>

\* Mutant: the code is drawn again for the mail.
SetOtpToAnother(r) ==
    /\ pc[r] = "setOtp"
    /\ \E c, d \in Code :
          /\ account' = [account EXCEPT ![op[r].user].code = c, ![op[r].user].fresh = TRUE]
          /\ op' = [op EXCEPT ![r].code = d]
    /\ drawn' = [drawn EXCEPT ![op[r].user] = @ + 1]
    /\ Goto(r, "mail") /\ UNCHANGED <<session, minted, issued, mailed, accepted>>

\* requestOtp: the code replaces one that was not used.
SetOtp(r) ==
    /\ pc[r] = "setOtp"
    /\ \E c \in Code :
          /\ account' = [account EXCEPT ![op[r].user].code = c, ![op[r].user].fresh = TRUE]
          /\ op' = [op EXCEPT ![r].code = c]
    /\ drawn' = [drawn EXCEPT ![op[r].user] = @ + 1]
    /\ Goto(r, "mail") /\ UNCHANGED <<session, minted, issued, mailed, accepted>>

\* deliverOtp; signUp has a token to answer with as well.
Mail(r) ==
    /\ pc[r] = "mail"
    /\ mailed' = [mailed EXCEPT ![op[r].user] = op[r].code]
    /\ IF op[r].do = "signUp" THEN Goto(r, "send") /\ UNCHANGED op ELSE Finish(r)
    /\ UNCHANGED <<account, session, minted, issued, drawn, accepted>>

\* verifyOtp: the SELECT asks for user, code and time together.
Match(r) ==
    LET u == op[r].user
        matching == {v \in User : account[v] # NULL /\ account[v].code = op[r].code
                                  /\ account[v].fresh}
    IN
    /\ pc[r] = "match"
    /\ \/ u \notin matching /\ Refuse(r)
       \/ u \in matching /\ Goto(r, "clear") /\ UNCHANGED <<tables, op>>

\* Mutant: the code is left in the row.
ClearNothing(r) ==
    /\ pc[r] = "clear"
    /\ account' = [account EXCEPT ![op[r].user].verified = TRUE]
    /\ accepted' = [accepted EXCEPT ![op[r].user] = @ + 1]
    /\ Goto(r, "open") /\ UNCHANGED <<session, minted, issued, mailed, drawn, op>>

\* verifyOtp: whatever code is stored by now is used up.
Clear(r) ==
    /\ pc[r] = "clear"
    /\ account' = [account EXCEPT ![op[r].user] =
           [verified |-> TRUE, code |-> NULL, fresh |-> FALSE]]
    /\ accepted' = [accepted EXCEPT ![op[r].user] = @ + 1]
    /\ Goto(r, "open") /\ UNCHANGED <<session, minted, issued, mailed, drawn, op>>

\* verifyOtp and signIn: the session, which has no token yet.
Open(r) ==
    LET u == op[r].user IN
    /\ pc[r] = "open"
    /\ \E s \in Session \ minted :
          /\ session' = [session EXCEPT ![s] = [user |-> u, digest |-> NULL, live |-> TRUE]]
          /\ minted' = minted \cup {s}
          /\ op' = [op EXCEPT ![r].session = s]
    /\ Goto(r, "store") /\ UNCHANGED <<account, issued, mailed, drawn, accepted>>

Signed(o) == [user |-> o.user, session |-> o.session, iat |-> o.iat]

\* Mutant: the row is written whether it is there or not.
StoreUpserting(r) ==
    LET o == op[r] IN
    /\ pc[r] = "store"
    /\ session' = [session EXCEPT ![o.session] =
           [user |-> o.user, digest |-> Digest(Signed(o)), live |-> TRUE]]
    /\ Goto(r, IF o.do = "signUp" THEN "mail" ELSE "send")
    /\ UNCHANGED <<account, minted, issued, mailed, drawn, accepted, op>>

\* The digest of the new token, if the row is still there; refreshToken moves
\* the end of the session too.
Store(r) ==
    LET o == op[r]
        row == session[o.session]
    IN
    /\ pc[r] = "store"
    /\ session' = [session EXCEPT ![o.session] =
           IF row = NULL THEN NULL
           ELSE [user |-> row.user, digest |-> Digest(Signed(o)),
                 live |-> row.live \/ o.do = "refreshToken"]]
    /\ Goto(r, IF o.do = "signUp" THEN "mail" ELSE "send")
    /\ UNCHANGED <<account, minted, issued, mailed, drawn, accepted, op>>

\* sendToken: the cookies leave with the answer.
Send(r) ==
    /\ pc[r] = "send"
    /\ issued' = issued \cup {Signed(op[r])}
    /\ Finish(r) /\ UNCHANGED <<account, session, minted, mailed, drawn, accepted>>

\* refreshToken: the row of the session and the comparison.  The user's row,
\* read just before, is never deleted.
FindSession(r) ==
    LET o == op[r]
        found == {s \in Session : session[s] # NULL}
        live == {s \in found : session[s].live}
        same == {s \in live : session[s].digest = Digest(o.shown)}
    IN
    /\ pc[r] = "session"
    /\ \/ o.session \in found \ live /\ Goto(r, "drop") /\ UNCHANGED <<tables, op>>
       \/ o.session \in same /\ Goto(r, "store") /\ UNCHANGED <<tables, op>>
       \/ o.session \notin (found \ live) \cup same /\ Refuse(r)

EndSession(s) ==
    /\ session' = [session EXCEPT ![s] = NULL]
    /\ UNCHANGED <<account, minted, issued, mailed, drawn, accepted>>

\* refreshToken: an expired session goes, though another request may have
\* prolonged it since it was read.
Drop(r) == pc[r] = "drop" /\ EndSession(op[r].session) /\ Finish(r)

\* logout: the session of the cookie, if it is the caller's.
Delete(r) ==
    LET own == {s \in Session : session[s] # NULL /\ session[s].user = op[r].user} IN
    /\ pc[r] = "delete"
    /\ \/ op[r].session \in own /\ EndSession(op[r].session) /\ Finish(r)
       \/ op[r].session \notin own /\ Refuse(r)

\* A statement fails, or the server dies: what was written stays.  A signUp
\* that could not queue its mail answers with an error, cookies included.
Fail(r) ==
    /\ pc[r] # "idle" /\ failures < MaxFailures
    /\ failures' = failures + 1
    /\ pc' = [pc EXCEPT ![r] = "idle"] /\ op' = [op EXCEPT ![r] = NULL]
    /\ \/ issued' = issued
       \/ pc[r] = "mail" /\ op[r].do = "signUp" /\ issued' = issued \cup {Signed(op[r])}
    /\ UNCHANGED <<account, session, minted, mailed, drawn, accepted, requests, calm>>

\* Five minutes pass for a code, seven days for a session.
LapseCode(u) ==
    /\ account[u] # NULL /\ account[u].fresh
    /\ account' = [account EXCEPT ![u].fresh = FALSE]
    /\ UNCHANGED <<session, minted, issued, mailed, drawn, accepted,
                   op, pc, requests, failures, calm>>

LapseSession(s) ==
    /\ session[s] # NULL /\ session[s].live
    /\ session' = [session EXCEPT ![s].live = FALSE]
    /\ UNCHANGED <<account, minted, issued, mailed, drawn, accepted,
                   op, pc, requests, failures, calm>>

Step(r) ==
    \/ \E o \in Requests : Start(r, o)
    \/ Existing(r) \/ Insert(r) \/ FindUser(r) \/ SetOtp(r) \/ Mail(r)
    \/ Match(r) \/ Clear(r) \/ Open(r) \/ Store(r) \/ Send(r)
    \/ FindSession(r) \/ Drop(r) \/ Delete(r) \/ Fail(r)

Next ==
    \/ \E r \in Request : Step(r)
    \/ \E u \in User : LapseCode(u)
    \/ \E s \in Session : LapseSession(s)

Spec == Init /\ [][Next]_vars

-----------------------------------------------------------------------------
TypeOK ==
    /\ account \in [User -> AccountRow \cup {NULL}]
    /\ session \in [Session -> SessionRow \cup {NULL}]
    /\ minted \subseteq Session /\ issued \subseteq Token
    /\ mailed \in [User -> Code \cup {NULL}]
    /\ op \in [Request -> Op \cup {NULL}] /\ pc \in [Request -> Pc]
    /\ \A r \in Request : op[r] = NULL <=> pc[r] = "idle"
    /\ requests \in Nat /\ failures \in Nat /\ calm \in BOOLEAN
    /\ drawn \in [User -> Nat] /\ accepted \in [User -> Nat]

\* README.md 148, "a refresh token ... rotates on every refresh": of the tokens
\* handed out for a session, at most one passes the comparison with the digest
\* of its row (auth.service.ts 519), so a token that was replaced is refused.
ReplacedTokenRefused ==
    \A t, u \in issued :
        LET row == session[t.session] IN
        /\ t.session = u.session
        /\ row # NULL /\ row.live
        /\ row.digest = Digest(t) /\ row.digest = Digest(u)
        => t = u

\* A session that logout or its expiry ended is not brought back by a refresh
\* that had read its row (line 537 updates, and creates no row).
EndedStaysEnded ==
    [][\A s \in minted : session[s] = NULL => session'[s] = NULL]_vars

\* When the verifications of a user do not overlap, no more codes are accepted
\* than were drawn, whatever codes are requested, expire or are cleared meanwhile
\* (line 409 clears without comparing again).  That each of them was still there
\* is a guard of SessionBook.
CalmCodeWorksOnce == calm => \A u \in User : accepted[u] <= drawn[u]

\* When the codes of a user are sent one after the other and nothing fails, the
\* code in the row is the one last mailed, or is about to be.
CalmStoredCodeIsMailed ==
    calm /\ failures = 0 => \A u \in User :
        account[u] # NULL /\ account[u].code # NULL =>
            \/ mailed[u] = account[u].code
            \/ \E r \in Busy(u, Sending) : pc[r] \in {"store", "mail"} /\ op[r].code = account[u].code

\* The statements of overlapping handlers amount to whole commands on the tables:
\* what a handler found out before it writes still holds when it does.
Book == INSTANCE SessionBook WITH held <- {<<t.user, t.session>> : t \in issued}
RefinesBook == Book!Spec
=============================================================================
