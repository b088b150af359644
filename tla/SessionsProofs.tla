---------------------------- MODULE SessionsProofs ----------------------------
(***************************************************************************)
(* What Sessions guarantees for every number of users, sessions, codes,    *)
(* requests and failures.                                                  *)
(***************************************************************************)
EXTENDS Sessions, TLAPS

-----------------------------------------------------------------------------
(* Types, and which handler runs which statement.                          *)

\* A handler that has found its user's row, or made it.
Knows(r) == pc[r] \in {"setOtp", "clear", "open"}

Purposes ==
    \A r \in Request :
        /\ pc[r] \in {"existing", "insert"} => op[r].do = "signUp"
        /\ pc[r] = "setOtp" => op[r].do = "requestOtp"
        /\ pc[r] = "user" => op[r].do \in {"requestOtp", "signIn"}
        /\ pc[r] = "mail" => op[r].do \in Sending
        /\ pc[r] \in {"match", "clear"} => op[r].do = "verifyOtp" /\ op[r].code \in Code
        /\ pc[r] = "open" => op[r].do \in {"verifyOtp", "signIn"}
        /\ pc[r] = "session" => op[r].do = "refreshToken" /\ op[r].shown \in Token
        /\ pc[r] = "store" => op[r].do # "requestOtp"
        /\ pc[r] \in {"store", "send"} => op[r].session \in Session
        /\ pc[r] = "mail" /\ op[r].do = "signUp" => op[r].session \in Session
        /\ Knows(r) => account[op[r].user] # NULL

TypeInv == TypeOK /\ Purposes

LEMMA InitType == Init => TypeInv
BY DEF Init, TypeInv, TypeOK, Purposes, Knows, Pc

\* The local half of TypeInv, for a step that changes the locals of r.
LEMMA LocalType ==
    ASSUME TypeInv, NEW r \in Request, NEW label \in Pc \ {"idle"}, NEW o \in Op,
           pc' = [pc EXCEPT ![r] = label], op' = [op EXCEPT ![r] = o],
           account' \in [User -> AccountRow \cup {NULL}],
           \A u \in User : account[u] # NULL => account'[u] # NULL,
           label \in {"existing", "insert"} => o.do = "signUp",
           label = "setOtp" => o.do = "requestOtp",
           label = "user" => o.do \in {"requestOtp", "signIn"},
           label = "mail" => o.do \in Sending,
           label \in {"match", "clear"} => o.do = "verifyOtp" /\ o.code \in Code,
           label = "open" => o.do \in {"verifyOtp", "signIn"},
           label = "session" => o.do = "refreshToken" /\ o.shown \in Token,
           label = "store" => o.do # "requestOtp",
           label \in {"store", "send"} => o.session \in Session,
           label = "mail" /\ o.do = "signUp" => o.session \in Session,
           label \in {"setOtp", "clear", "open"} => account'[o.user] # NULL
    PROVE  /\ op' \in [Request -> Op \cup {NULL}] /\ pc' \in [Request -> Pc]
           /\ \A q \in Request : op'[q] = NULL <=> pc'[q] = "idle"
           /\ Purposes'
<1>1. /\ pc'[r] = label /\ op'[r] = o
      /\ \A q \in Request : q # r => pc'[q] = pc[q] /\ op'[q] = op[q]
  BY DEF TypeInv, TypeOK
<1>2. \A q \in Request : Knows(q) => op[q].user \in User
  BY DEF TypeInv, TypeOK, Knows, Op
<1>3. op' \in [Request -> Op \cup {NULL}] /\ pc' \in [Request -> Pc]
  BY DEF TypeInv, TypeOK
<1>4. \A q \in Request : op'[q] = NULL <=> pc'[q] = "idle"
  BY <1>1, NullAssumption DEF TypeInv, TypeOK
<1>5. Purposes'
  <2> SUFFICES ASSUME NEW q \in Request
               PROVE  /\ pc'[q] \in {"existing", "insert"} => op'[q].do = "signUp"
                      /\ pc'[q] = "setOtp" => op'[q].do = "requestOtp"
                      /\ pc'[q] = "user" => op'[q].do \in {"requestOtp", "signIn"}
                      /\ pc'[q] = "mail" => op'[q].do \in Sending
                      /\ pc'[q] \in {"match", "clear"} => op'[q].do = "verifyOtp" /\ op'[q].code \in Code
                      /\ pc'[q] = "open" => op'[q].do \in {"verifyOtp", "signIn"}
                      /\ pc'[q] = "session" => op'[q].do = "refreshToken" /\ op'[q].shown \in Token
                      /\ pc'[q] = "store" => op'[q].do # "requestOtp"
                      /\ pc'[q] \in {"store", "send"} => op'[q].session \in Session
                      /\ pc'[q] = "mail" /\ op'[q].do = "signUp" => op'[q].session \in Session
                      /\ Knows(q)' => account'[op'[q].user] # NULL
    BY DEF Purposes, Sending
  <2>1. CASE q = r
    BY <1>1, <2>1 DEF Knows
  <2>2. CASE q # r
    BY <1>1, <1>2, <2>2 DEF TypeInv, Purposes, Knows
  <2> QED
    BY <2>1, <2>2
<1> QED
  BY <1>3, <1>4, <1>5

\* The same for a step that ends r.
LEMMA LocalEnd ==
    ASSUME TypeInv, NEW r \in Request,
           pc' = [pc EXCEPT ![r] = "idle"], op' = [op EXCEPT ![r] = NULL],
           account' = account
    PROVE  /\ op' \in [Request -> Op \cup {NULL}] /\ pc' \in [Request -> Pc]
           /\ \A q \in Request : op'[q] = NULL <=> pc'[q] = "idle"
           /\ Purposes'
<1>1. \A q \in Request : \/ pc'[q] = "idle" /\ op'[q] = NULL
                         \/ pc'[q] = pc[q] /\ op'[q] = op[q]
  BY DEF TypeInv, TypeOK
<1>2. \A q \in Request : op'[q] = NULL <=> pc'[q] = "idle"
  BY <1>1 DEF TypeInv, TypeOK
<1>3. op' \in [Request -> Op \cup {NULL}] /\ pc' \in [Request -> Pc]
  BY DEF TypeInv, TypeOK, Pc
<1>4. Purposes'
  BY <1>1 DEF TypeInv, Purposes, Knows
<1> QED
  BY <1>2, <1>3, <1>4

LEMMA NextType == ASSUME TypeInv, [Next]_vars PROVE TypeInv'
<1> USE DEF TypeInv
<1> DEFINE LocalOK == /\ op' \in [Request -> Op \cup {NULL}] /\ pc' \in [Request -> Pc]
                      /\ \A q \in Request : op'[q] = NULL <=> pc'[q] = "idle"
                      /\ Purposes'
<1>1. ASSUME NEW r \in Request, NEW o \in Requests, Start(r, o)
      PROVE  TypeInv'
  <2>1. /\ o \in Op
        /\ o.do = "verifyOtp" => o.code \in Code
        /\ o.do = "refreshToken" => o.shown \in Token /\ o.session \in Session
    <3>1. issued \subseteq Token
      BY DEF TypeOK
    <3>2. Second \in Nat
      BY RateAssumption DEF Second, TypeOK
    <3> QED
      BY <3>1, <3>2 DEF Requests, Op, Do, Token, TypeOK
  <2>2. /\ pc' = [pc EXCEPT ![r] = First[o.do]] /\ op' = [op EXCEPT ![r] = o]
        /\ UNCHANGED <<account, session, minted, issued, mailed, drawn, accepted, failures, calm>>
        /\ requests' \in Nat
    BY <1>1 DEF Start, tables, TypeOK
  <2>3. /\ First[o.do] \in {"existing", "user", "match", "session", "delete"}
        /\ First[o.do] = "existing" => o.do = "signUp"
        /\ First[o.do] = "user" => o.do \in {"requestOtp", "signIn"}
        /\ First[o.do] = "match" => o.do = "verifyOtp"
        /\ First[o.do] = "session" => o.do = "refreshToken"
    BY <2>1 DEF First, Op, Do
  <2>4. LocalOK
    BY <2>1, <2>2, <2>3, LocalType DEF TypeOK, Pc
  <2> QED
    BY <2>2, <2>4 DEF TypeOK
<1>2. ASSUME NEW r \in Request, Finish(r), UNCHANGED account
      PROVE  LocalOK /\ UNCHANGED <<requests, failures, calm>>
  BY <1>2, LocalEnd DEF Finish, Goto
<1>3. ASSUME NEW r \in Request, Refuse(r)
      PROVE  TypeInv'
  BY <1>2, <1>3 DEF Refuse, tables, TypeOK
<1>4. ASSUME NEW r \in Request, Existing(r)
      PROVE  TypeInv'
  <2>1. CASE Goto(r, "insert") /\ UNCHANGED <<tables, op>>
    <3>1. op[r] \in Op /\ op' = [op EXCEPT ![r] = op[r]] /\ op[r].do = "signUp"
      BY <1>4, <2>1 DEF Existing, TypeOK, Purposes
    <3>2. LocalOK
      BY <2>1, <3>1, LocalType DEF Goto, tables, Pc, TypeOK
    <3> QED
      BY <2>1, <3>2 DEF Goto, tables, TypeOK
  <2> QED
    BY <1>3, <1>4, <2>1 DEF Existing
<1>5. ASSUME NEW r \in Request, Insert(r)
      PROVE  TypeInv'
  <2> DEFINE u == op[r].user
  <2>1. ASSUME NEW s \in Session \ minted, NEW c \in Code,
               account' = [account EXCEPT ![u] = [verified |-> FALSE, code |-> c, fresh |-> TRUE]],
               session' = [session EXCEPT ![s] = [user |-> u, digest |-> NULL, live |-> TRUE]],
               minted' = minted \cup {s},
               op' = [op EXCEPT ![r].code = c, ![r].session = s],
               drawn' = [drawn EXCEPT ![u] = @ + 1],
               Goto(r, "store"), UNCHANGED <<issued, mailed, accepted>>
        PROVE  TypeInv'
    <3> DEFINE o == [op[r] EXCEPT !.code = c, !.session = s]
    <3>1. op[r] \in Op /\ op[r].do = "signUp"
      BY <1>5 DEF Insert, TypeOK, Purposes
    <3>2. /\ o \in Op /\ o.do = "signUp" /\ o.session = s /\ u \in User
          /\ [verified |-> FALSE, code |-> c, fresh |-> TRUE] \in AccountRow
          /\ [user |-> u, digest |-> NULL, live |-> TRUE] \in SessionRow
      BY <3>1 DEF Op, AccountRow, SessionRow
    <3>3. op' = [op EXCEPT ![r] = o]
      BY <2>1
    <3> HIDE DEF o
    <3>4. /\ account' \in [User -> AccountRow \cup {NULL}]
          /\ \A v \in User : account[v] # NULL => account'[v] # NULL
      BY <2>1, <3>2, NullAssumption DEF TypeOK
    <3>5. LocalOK
      BY <2>1, <3>2, <3>3, <3>4, LocalType DEF Goto, Pc
    <3> QED
      BY <2>1, <3>2, <3>4, <3>5 DEF Goto, TypeOK
  <2> QED
    BY <1>3, <1>5, <2>1 DEF Insert
<1>6. ASSUME NEW r \in Request, FindUser(r)
      PROVE  TypeInv'
  <2>1. ASSUME account[op[r].user] # NULL,
               Goto(r, IF op[r].do = "signIn" THEN "open" ELSE "setOtp"), UNCHANGED <<tables, op>>
        PROVE  TypeInv'
    <3>1. op[r] \in Op /\ op' = [op EXCEPT ![r] = op[r]] /\ op[r].do \in {"requestOtp", "signIn"}
      BY <1>6, <2>1 DEF FindUser, TypeOK, Purposes
    <3>2. LocalOK
      <4>1. ASSUME NEW label \in {"open", "setOtp"}, pc' = [pc EXCEPT ![r] = label],
                   label = "open" => op[r].do = "signIn",
                   label = "setOtp" => op[r].do = "requestOtp"
            PROVE  LocalOK
        BY <2>1, <3>1, <4>1, LocalType DEF tables, Pc, TypeOK
      <4>2. CASE op[r].do = "signIn"
        BY <2>1, <4>1, <4>2 DEF Goto
      <4>3. CASE op[r].do = "requestOtp"
        BY <2>1, <4>1, <4>3 DEF Goto
      <4> QED
        BY <3>1, <4>2, <4>3
    <3> QED
      BY <2>1, <3>2 DEF Goto, tables, TypeOK
  <2> QED
    BY <1>3, <1>6, <2>1 DEF FindUser
<1>7. ASSUME NEW r \in Request, SetOtp(r)
      PROVE  TypeInv'
  <2> DEFINE u == op[r].user
  <2>1. PICK c \in Code :
           /\ account' = [account EXCEPT ![u].code = c, ![u].fresh = TRUE]
           /\ op' = [op EXCEPT ![r].code = c]
    BY <1>7 DEF SetOtp
  <2> DEFINE o == [op[r] EXCEPT !.code = c]
             w == [account[u] EXCEPT !.code = c, !.fresh = TRUE]
  <2>2. /\ pc[r] = "setOtp" /\ Goto(r, "mail") /\ drawn' = [drawn EXCEPT ![u] = @ + 1]
        /\ UNCHANGED <<session, minted, issued, mailed, accepted>>
    BY <1>7 DEF SetOtp
  <2>3. op[r] \in Op /\ op[r].do = "requestOtp" /\ account[u] # NULL
    BY <2>2 DEF TypeOK, Purposes, Knows
  <2>4. o \in Op /\ o.do = "requestOtp" /\ u \in User
    BY <2>3 DEF Op
  <2>5. account[u] \in AccountRow
    BY <2>3, <2>4 DEF TypeOK
  <2>6. w \in AccountRow
    BY <2>5 DEF AccountRow
  <2>7. account' = [account EXCEPT ![u] = w] /\ op' = [op EXCEPT ![r] = o]
    BY <2>1
  <2> HIDE DEF w, o, u
  <2>8. /\ account' \in [User -> AccountRow \cup {NULL}]
        /\ \A v \in User : account[v] # NULL => account'[v] # NULL
    BY <2>4, <2>6, <2>7, NullAssumption DEF TypeOK
  <2>9. LocalOK
    BY <2>2, <2>4, <2>7, <2>8, LocalType DEF Goto, Pc, Sending
  <2>10. drawn' \in [User -> Nat]
    BY <2>2, <2>4 DEF TypeOK
  <2> QED
    BY <2>2, <2>8, <2>9, <2>10 DEF Goto, TypeOK
<1>8. ASSUME NEW r \in Request, Mail(r)
      PROVE  TypeInv'
  <2>1. /\ pc[r] = "mail" /\ mailed' = [mailed EXCEPT ![op[r].user] = op[r].code]
        /\ UNCHANGED <<account, session, minted, issued, drawn, accepted>>
    BY <1>8 DEF Mail
  <2>2. op[r] \in Op /\ op[r].code \in Code \cup {NULL}
    BY <2>1 DEF TypeOK, Op
  <2>3. LocalOK /\ UNCHANGED <<requests, failures, calm>>
    <3>1. CASE op[r].do = "signUp"
      <4>1. Goto(r, "send") /\ op' = [op EXCEPT ![r] = op[r]] /\ op[r].session \in Session
        BY <1>8, <2>1, <3>1 DEF Mail, TypeOK, Purposes
      <4> QED
        BY <2>1, <2>2, <4>1, LocalType DEF Goto, Pc, TypeOK
    <3>2. CASE op[r].do # "signUp"
      BY <1>2, <1>8, <3>2 DEF Mail
    <3> QED
      BY <3>1, <3>2
  <2> QED
    BY <2>1, <2>2, <2>3 DEF TypeOK
<1>9. ASSUME NEW r \in Request, Match(r)
      PROVE  TypeInv'
  <2>1. ASSUME account[op[r].user] # NULL, Goto(r, "clear"), UNCHANGED <<tables, op>>
        PROVE  TypeInv'
    <3>1. op[r] \in Op /\ op' = [op EXCEPT ![r] = op[r]] /\ op[r].do = "verifyOtp" /\ op[r].code \in Code
      BY <1>9, <2>1 DEF Match, TypeOK, Purposes
    <3>2. LocalOK
      BY <2>1, <3>1, LocalType DEF Goto, tables, Pc, TypeOK
    <3> QED
      BY <2>1, <3>2 DEF Goto, tables, TypeOK
  <2> QED
    BY <1>3, <1>9, <2>1 DEF Match
<1>10. ASSUME NEW r \in Request, Clear(r)
       PROVE  TypeInv'
  <2> DEFINE u == op[r].user
             w == [verified |-> TRUE, code |-> NULL, fresh |-> FALSE]
  <2>1. /\ pc[r] = "clear" /\ Goto(r, "open") /\ account' = [account EXCEPT ![u] = w]
        /\ accepted' = [accepted EXCEPT ![u] = @ + 1]
        /\ UNCHANGED <<session, minted, issued, mailed, drawn, op>>
    BY <1>10 DEF Clear
  <2>2. /\ op[r] \in Op /\ op' = [op EXCEPT ![r] = op[r]] /\ op[r].do = "verifyOtp" /\ u \in User
        /\ w \in AccountRow
    BY <2>1 DEF TypeOK, Purposes, Op, AccountRow
  <2> HIDE DEF w
  <2>3. /\ account' \in [User -> AccountRow \cup {NULL}] /\ account'[u] # NULL
        /\ \A v \in User : account[v] # NULL => account'[v] # NULL
    BY <2>1, <2>2, NullAssumption DEF TypeOK
  <2>4. LocalOK
    BY <2>1, <2>2, <2>3, LocalType DEF Goto, Pc
  <2> QED
    BY <2>1, <2>2, <2>3, <2>4 DEF Goto, TypeOK
<1>11. ASSUME NEW r \in Request, Open(r)
       PROVE  TypeInv'
  <2> DEFINE u == op[r].user
  <2>1. PICK s \in Session \ minted :
           /\ session' = [session EXCEPT ![s] = [user |-> u, digest |-> NULL, live |-> TRUE]]
           /\ minted' = minted \cup {s}
           /\ op' = [op EXCEPT ![r].session = s]
    BY <1>11 DEF Open
  <2> DEFINE o == [op[r] EXCEPT !.session = s]
  <2>2. /\ pc[r] = "open" /\ Goto(r, "store")
        /\ UNCHANGED <<account, issued, mailed, drawn, accepted>>
    BY <1>11 DEF Open
  <2>3. op[r] \in Op /\ op[r].do \in {"verifyOtp", "signIn"}
    BY <2>2 DEF TypeOK, Purposes
  <2>4. /\ o \in Op /\ o.do \in {"verifyOtp", "signIn"} /\ o.session = s
        /\ [user |-> u, digest |-> NULL, live |-> TRUE] \in SessionRow
    BY <2>3 DEF Op, SessionRow
  <2>5. op' = [op EXCEPT ![r] = o]
    BY <2>1
  <2> HIDE DEF o
  <2>6. LocalOK
    BY <2>2, <2>4, <2>5, LocalType DEF Goto, Pc, TypeOK
  <2> QED
    BY <2>1, <2>2, <2>4, <2>6 DEF Goto, TypeOK
<1>12. ASSUME NEW r \in Request, Store(r)
       PROVE  TypeInv'
  <2> DEFINE o == op[r]
             old == session[o.session]
             new == [user |-> old.user, digest |-> Digest(Signed(o)),
                     live |-> old.live \/ o.do = "refreshToken"]
             w == IF old = NULL THEN NULL ELSE new
  <2>1. /\ pc[r] = "store"
        /\ Goto(r, IF o.do = "signUp" THEN "mail" ELSE "send")
        /\ UNCHANGED <<account, minted, issued, mailed, drawn, accepted, op>>
    BY <1>12 DEF Store
  <2>2. /\ o \in Op /\ op' = [op EXCEPT ![r] = o] /\ o.session \in Session /\ o.do # "requestOtp"
    BY <2>1 DEF TypeOK, Purposes
  <2>3. Digest(Signed(o)) = o.user /\ o.user \in User
    BY <2>2 DEF Digest, Signed, Op
  <2>7. session' = [session EXCEPT ![o.session] = w]
    BY <1>12 DEF Store
  <2>4. w \in SessionRow \cup {NULL}
    <3>1. CASE old = NULL
      BY <3>1
    <3>2. CASE old # NULL
      <4>1. old \in SessionRow
        BY <2>2, <3>2 DEF TypeOK
      <4>2. new \in SessionRow
        BY <2>3, <4>1 DEF SessionRow
      <4> QED
        BY <3>2, <4>2
    <3> QED
      BY <3>1, <3>2
  <2> HIDE DEF w
  <2>5. session' \in [Session -> SessionRow \cup {NULL}]
    BY <2>4, <2>7 DEF TypeOK
  <2>6. LocalOK
    <3>1. CASE o.do = "signUp"
      BY <2>1, <2>2, <3>1, LocalType DEF Goto, Pc, TypeOK, Sending
    <3>2. CASE o.do # "signUp"
      BY <2>1, <2>2, <3>2, LocalType DEF Goto, Pc, TypeOK
    <3> QED
      BY <3>1, <3>2
  <2> QED
    BY <2>1, <2>5, <2>6 DEF Goto, TypeOK
<1>13. ASSUME NEW r \in Request, Send(r)
       PROVE  TypeInv'
  <2>1. op[r] \in Op /\ op[r].session \in Session
    BY <1>13 DEF Send, TypeOK, Purposes
  <2>2. Signed(op[r]) \in Token
    BY <2>1 DEF Signed, Token, Op
  <2>3. LocalOK /\ UNCHANGED <<requests, failures, calm>>
    BY <1>2, <1>13 DEF Send
  <2> QED
    BY <1>13, <2>2, <2>3 DEF Send, TypeOK
<1>14. ASSUME NEW r \in Request, FindSession(r)
       PROVE  TypeInv'
  <2>1. ASSUME NEW label \in {"drop", "store"}, Goto(r, label), UNCHANGED <<tables, op>>,
               op[r].session \in Session
        PROVE  TypeInv'
    <3>1. op[r] \in Op /\ op' = [op EXCEPT ![r] = op[r]] /\ op[r].do = "refreshToken"
      BY <1>14, <2>1 DEF FindSession, TypeOK, Purposes
    <3>2. LocalOK
      BY <2>1, <3>1, LocalType DEF Goto, tables, Pc, TypeOK
    <3> QED
      BY <2>1, <3>2 DEF Goto, tables, TypeOK
  <2> QED
    BY <1>3, <1>14, <2>1 DEF FindSession
<1>15. ASSUME NEW r \in Request, NEW s, EndSession(s), Finish(r)
       PROVE  TypeInv'
  <2>1. session' \in [Session -> SessionRow \cup {NULL}]
    BY <1>15 DEF EndSession, TypeOK
  <2>2. LocalOK /\ UNCHANGED <<requests, failures, calm>>
    BY <1>2, <1>15 DEF EndSession
  <2> QED
    BY <1>15, <2>1, <2>2 DEF EndSession, TypeOK
<1>16. ASSUME NEW r \in Request, Drop(r) \/ Delete(r)
       PROVE  TypeInv'
  BY <1>3, <1>15, <1>16 DEF Drop, Delete
<1>17. ASSUME NEW r \in Request, Fail(r)
       PROVE  TypeInv'
  <2>1. LocalOK
    BY <1>17, LocalEnd DEF Fail
  <2>2. pc[r] = "mail" /\ op[r].do = "signUp" => Signed(op[r]) \in Token
    <3> SUFFICES ASSUME pc[r] = "mail", op[r].do = "signUp" PROVE Signed(op[r]) \in Token
      OBVIOUS
    <3>1. op[r] \in Op /\ op[r].session \in Session
      BY DEF TypeOK, Purposes
    <3> QED
      BY <3>1 DEF Signed, Token, Op
  <2>3. issued' \subseteq Token
    BY <1>17, <2>2 DEF Fail, TypeOK
  <2> QED
    BY <1>17, <2>1, <2>3 DEF Fail, TypeOK
<1>18. ASSUME NEW u \in User, LapseCode(u)
       PROVE  TypeInv'
  <2> DEFINE w == [account[u] EXCEPT !.fresh = FALSE]
  <2>1. /\ account[u] # NULL /\ account' = [account EXCEPT ![u] = w]
        /\ UNCHANGED <<session, minted, issued, mailed, drawn, accepted, op, pc,
                       requests, failures, calm>>
    BY <1>18 DEF LapseCode
  <2>2. w \in AccountRow
    BY <2>1 DEF TypeOK, AccountRow
  <2> HIDE DEF w
  <2>3. /\ account' \in [User -> AccountRow \cup {NULL}]
        /\ \A v \in User : account[v] # NULL => account'[v] # NULL
    BY <2>1, <2>2, NullAssumption DEF TypeOK
  <2>4. Purposes'
    <3>1. \A q \in Request : Knows(q) => op[q].user \in User
      BY DEF TypeOK, Knows, Op
    <3> QED
      BY <2>1, <2>3, <3>1 DEF Purposes, Knows
  <2> QED
    BY <2>1, <2>3, <2>4 DEF TypeOK
<1>19. ASSUME NEW s \in Session, LapseSession(s)
       PROVE  TypeInv'
  <2>1. session' \in [Session -> SessionRow \cup {NULL}]
    <3>2. session[s] \in SessionRow
      BY <1>19 DEF LapseSession, TypeOK
    <3>1. [session[s] EXCEPT !.live = FALSE] \in SessionRow
      BY <3>2 DEF SessionRow
    <3> QED
      BY <1>19, <3>1 DEF LapseSession, TypeOK
  <2> QED
    BY <1>19, <2>1 DEF LapseSession, TypeOK, Purposes, Knows
<1>20. CASE UNCHANGED vars
  BY <1>20 DEF vars, TypeOK, Purposes, Knows
<1> QED
  BY <1>1, <1>4, <1>5, <1>6, <1>7, <1>8, <1>9, <1>10, <1>11, <1>12, <1>13, <1>14,
     <1>16, <1>17, <1>18, <1>19, <1>20 DEF Next, Step

\* The types of every variable hold in every reachable state, and each statement
\* is run by the handlers it belongs to.
THEOREM TypeCorrect == Spec => []TypeOK
<1>1. TypeInv /\ UNCHANGED vars => TypeInv'
  BY DEF vars, TypeInv, TypeOK, Purposes, Knows
<1>2. TypeInv => TypeOK
  BY DEF TypeInv
<1> QED
  BY InitType, NextType, <1>2, PTL DEF Spec

-----------------------------------------------------------------------------
(* What a step of one request leaves to the others.                        *)

LEMMA OthersKeep ==
    ASSUME TypeInv, NEW r \in Request, Step(r)
    PROVE  \A q \in Request : q # r => pc'[q] = pc[q] /\ op'[q] = op[q]
<1> USE DEF TypeInv, TypeOK
<1>1. ASSUME Finish(r) \/ Refuse(r)
      PROVE  \A q \in Request : q # r => pc'[q] = pc[q] /\ op'[q] = op[q]
  BY <1>1 DEF Refuse, Finish, Goto
<1>2. ASSUME NEW label, Goto(r, label), UNCHANGED op
      PROVE  \A q \in Request : q # r => pc'[q] = pc[q] /\ op'[q] = op[q]
  BY <1>2 DEF Goto
<1>3. ASSUME Start(r, op'[r]) \/ \E o \in Requests : Start(r, o)
      PROVE  \A q \in Request : q # r => pc'[q] = pc[q] /\ op'[q] = op[q]
  BY <1>3 DEF Start
<1>4. ASSUME Existing(r) \/ FindUser(r) \/ Match(r) \/ FindSession(r)
      PROVE  \A q \in Request : q # r => pc'[q] = pc[q] /\ op'[q] = op[q]
  BY <1>1, <1>2, <1>4 DEF Existing, FindUser, Match, FindSession
<1>5. ASSUME Insert(r) \/ SetOtp(r) \/ Open(r)
      PROVE  \A q \in Request : q # r => pc'[q] = pc[q] /\ op'[q] = op[q]
  BY <1>1, <1>5 DEF Insert, SetOtp, Open, Goto
<1>6. ASSUME Mail(r) \/ Clear(r) \/ Store(r) \/ Send(r) \/ Drop(r) \/ Delete(r)
      PROVE  \A q \in Request : q # r => pc'[q] = pc[q] /\ op'[q] = op[q]
  BY <1>1, <1>2, <1>6 DEF Mail, Clear, Store, Send, Drop, Delete
<1>7. ASSUME Fail(r)
      PROVE  \A q \in Request : q # r => pc'[q] = pc[q] /\ op'[q] = op[q]
  BY <1>7 DEF Fail
<1> QED
  BY <1>3, <1>4, <1>5, <1>6, <1>7 DEF Step

-----------------------------------------------------------------------------
(* A token and the digest in the row of its session.                       *)

\* s is a session of u, or was one.
Known(u, s) == s \in minted /\ (session[s] # NULL => session[s].user = u)

\* A token of u for s passes the comparison.
Good(u, s) ==
    s \in minted /\ (session[s] # NULL => session[s].user = u /\ session[s].digest = u)

Carries(r) ==
    /\ pc[r] = "store" => Known(op[r].user, op[r].session)
    /\ pc[r] \in {"session", "send"} => Good(op[r].user, op[r].session)
    /\ pc[r] = "mail" /\ op[r].do = "signUp" => Good(op[r].user, op[r].session)

RowsMinted == \A s \in Session : session[s] # NULL => s \in minted

TokenInv ==
    /\ RowsMinted
    /\ \A t \in issued : Good(t.user, t.session)
    /\ \A r \in Request : Carries(r)

\* What a step may do to the rows of sessions without harm to a token.
RowsKeep ==
    /\ RowsMinted'
    /\ \A u, s : Known(u, s) => Known(u, s)'
    /\ \A u, s : Good(u, s) => Good(u, s)'

LEMMA SameRows ==
    ASSUME TokenInv, UNCHANGED <<session, minted>>
    PROVE  RowsKeep
BY DEF TokenInv, RowsKeep, RowsMinted, Known, Good

LEMMA NewRow ==
    ASSUME TypeInv, TokenInv, NEW u, NEW s \in Session \ minted, minted' = minted \cup {s},
           session' = [session EXCEPT ![s] = [user |-> u, digest |-> NULL, live |-> TRUE]]
    PROVE  RowsKeep /\ Known(u, s)'
<1>1. /\ session'[s] = [user |-> u, digest |-> NULL, live |-> TRUE]
      /\ \A q \in Session : q # s => session'[q] = session[q]
  BY DEF TypeInv, TypeOK
<1>2. \A q \in minted : session'[q] = session[q] /\ q \in minted'
  BY <1>1 DEF TypeInv, TypeOK
<1>3. RowsMinted'
  BY <1>1 DEF TokenInv, RowsMinted
<1> QED
  BY <1>1, <1>2, <1>3 DEF RowsKeep, Known, Good

LEMMA NoRow ==
    ASSUME TypeInv, TokenInv, NEW s, session' = [session EXCEPT ![s] = NULL], minted' = minted
    PROVE  RowsKeep
<1>1. \A q \in Session : session'[q] = session[q] \/ session'[q] = NULL
  BY DEF TypeInv, TypeOK
<1>2. minted \subseteq Session
  BY DEF TypeInv, TypeOK
<1> QED
  BY <1>1, <1>2 DEF TokenInv, RowsMinted, RowsKeep, Known, Good

LEMMA CarriesOn ==
    ASSUME TypeInv, TokenInv, NEW r \in Request, RowsKeep,
           \A q \in Request : q # r => pc'[q] = pc[q] /\ op'[q] = op[q],
           Carries(r)',
           \A t \in issued' : t \in issued \/ Good(t.user, t.session)'
    PROVE  TokenInv'
<1>1. ASSUME NEW q \in Request, q # r
      PROVE  Carries(q)'
  BY <1>1 DEF TokenInv, RowsKeep, Carries
<1>2. \A q \in Request : Carries(q)'
  BY <1>1
<1>3. \A t \in issued' : Good(t.user, t.session)'
  BY DEF TokenInv, RowsKeep
<1> QED
  BY <1>2, <1>3 DEF TokenInv, RowsKeep

\* r ends, or goes to a statement that carries nothing.
LEMMA CarriesNothing ==
    ASSUME TypeInv, TokenInv, NEW r \in Request, RowsKeep, Step(r), UNCHANGED issued,
           pc'[r] \notin {"store", "session", "send", "mail"}
    PROVE  TokenInv'
<1>1. Carries(r)'
  BY DEF Carries
<1> QED
  BY <1>1, OthersKeep, CarriesOn

LEMMA NextToken == ASSUME TypeInv, TokenInv, [Next]_vars PROVE TokenInv'
<1>1. ASSUME NEW r \in Request, NEW o \in Requests, Start(r, o)
      PROVE  TokenInv'
  <2>1. /\ pc'[r] = First[o.do] /\ op'[r] = o
        /\ UNCHANGED <<session, minted, issued>> /\ Step(r)
    BY <1>1 DEF Start, tables, Step, TypeInv, TypeOK
  <2>2. o.do = "refreshToken" => Good(o.user, o.session)
    BY DEF Requests, TokenInv
  <2>3. o.do \in Do
    BY DEF Requests, Do
  <2>4. /\ First[o.do] \notin {"store", "send", "mail"}
        /\ First[o.do] = "session" => o.do = "refreshToken"
    BY <2>3 DEF First, Do
  <2>5. RowsKeep
    BY <2>1, SameRows
  <2>6. Carries(r)'
    BY <2>1, <2>2, <2>4, <2>5 DEF Carries, RowsKeep
  <2> QED
    BY <2>1, <2>5, <2>6, OthersKeep, CarriesOn
<1>2. ASSUME NEW r \in Request, Step(r), UNCHANGED <<session, minted, issued>>,
             pc'[r] \notin {"store", "session", "send", "mail"}
      PROVE  TokenInv'
  BY <1>2, SameRows, CarriesNothing
<1>3. ASSUME NEW r \in Request, Step(r), Refuse(r)
      PROVE  TokenInv'
  <2>1. pc'[r] = "idle" /\ UNCHANGED <<session, minted, issued>>
    BY <1>3 DEF Refuse, Finish, Goto, tables, TypeInv, TypeOK
  <2> QED
    BY <1>2, <1>3, <2>1
<1>4. ASSUME NEW r \in Request, Existing(r) \/ Match(r)
      PROVE  TokenInv'
  <2>1. Step(r)
    BY <1>4 DEF Step
  <2>2. ASSUME ~Refuse(r)
        PROVE  pc'[r] \in {"insert", "clear"} /\ UNCHANGED <<session, minted, issued>>
    BY <1>4, <2>2 DEF Existing, Match, Goto, tables, TypeInv, TypeOK
  <2> QED
    BY <1>2, <1>3, <2>1, <2>2
<1>5. ASSUME NEW r \in Request, FindUser(r)
      PROVE  TokenInv'
  <2>1. Step(r)
    BY <1>5 DEF Step
  <2>2. ASSUME ~Refuse(r)
        PROVE  pc'[r] \in {"open", "setOtp"} /\ UNCHANGED <<session, minted, issued>>
    BY <1>5, <2>2 DEF FindUser, Goto, tables, TypeInv, TypeOK
  <2> QED
    BY <1>2, <1>3, <2>1, <2>2
<1>6. ASSUME NEW r \in Request, Insert(r)
      PROVE  TokenInv'
  <2>1. Step(r)
    BY <1>6 DEF Step
  <2>2. ASSUME NEW s \in Session \ minted, NEW c \in Code,
               session' = [session EXCEPT ![s] = [user |-> op[r].user, digest |-> NULL, live |-> TRUE]],
               minted' = minted \cup {s},
               op' = [op EXCEPT ![r].code = c, ![r].session = s],
               Goto(r, "store"), UNCHANGED issued, pc[r] = "insert"
        PROVE  TokenInv'
    <3>0. PICK u : u = op[r].user
      OBVIOUS
    <3>1. RowsKeep /\ Known(u, s)'
      BY <2>2, <3>0, NewRow
    <3>2. op[r] \in Op
      BY <2>2 DEF TypeInv, TypeOK
    <3>3. pc'[r] = "store" /\ op'[r] = [op[r] EXCEPT !.code = c, !.session = s]
      BY <2>2 DEF Goto, TypeInv, TypeOK
    <3>4. op'[r].user = op[r].user /\ op'[r].session = s
      BY <3>2, <3>3 DEF Op
    <3>5. Carries(r)'
      BY <3>0, <3>1, <3>3, <3>4 DEF Carries
    <3> QED
      BY <2>1, <2>2, <3>1, <3>5, OthersKeep, CarriesOn
  <2> QED
    BY <1>3, <1>6, <2>1, <2>2 DEF Insert
<1>7. ASSUME NEW r \in Request, SetOtp(r)
      PROVE  TokenInv'
  <2>1. /\ pc[r] = "setOtp" /\ pc'[r] = "mail" /\ Step(r)
        /\ UNCHANGED <<session, minted, issued>>
    BY <1>7 DEF SetOtp, Step, Goto, TypeInv, TypeOK
  <2>2. PICK c \in Code : op' = [op EXCEPT ![r].code = c]
    BY <1>7 DEF SetOtp
  <2>3. op[r] \in Op /\ op[r].do = "requestOtp"
    BY <2>1 DEF TypeInv, TypeOK, Purposes
  <2>4. op'[r] = [op[r] EXCEPT !.code = c]
    BY <2>2 DEF TypeInv, TypeOK
  <2>5. op'[r].do = "requestOtp"
    BY <2>3, <2>4 DEF Op
  <2>6. Carries(r)'
    BY <2>1, <2>5 DEF Carries
  <2> QED
    BY <2>1, <2>6, SameRows, OthersKeep, CarriesOn
<1>8. ASSUME NEW r \in Request, Mail(r)
      PROVE  TokenInv'
  <2>1. pc[r] = "mail" /\ Step(r) /\ UNCHANGED <<session, minted, issued>>
    BY <1>8 DEF Mail, Step
  <2>2. CASE op[r].do = "signUp"
    <3>1. pc'[r] = "send" /\ op'[r] = op[r]
      BY <1>8, <2>2 DEF Mail, Goto, TypeInv, TypeOK
    <3>2. RowsKeep
      BY <2>1, SameRows
    <3>3. Carries(r)'
      BY <2>1, <2>2, <3>1, <3>2 DEF TokenInv, Carries, RowsKeep
    <3> QED
      BY <2>1, <3>2, <3>3, OthersKeep, CarriesOn
  <2>3. CASE op[r].do # "signUp"
    <3>1. pc'[r] = "idle"
      BY <1>8, <2>3 DEF Mail, Finish, Goto, TypeInv, TypeOK
    <3> QED
      BY <1>2, <2>1, <3>1
  <2> QED
    BY <2>2, <2>3
<1>9. ASSUME NEW r \in Request, Clear(r)
      PROVE  TokenInv'
  <2>1. pc'[r] = "open" /\ Step(r) /\ UNCHANGED <<session, minted, issued>>
    BY <1>9 DEF Clear, Step, Goto, TypeInv, TypeOK
  <2> QED
    BY <1>2, <2>1
<1>10. ASSUME NEW r \in Request, Open(r)
       PROVE  TokenInv'
  <2>1. pc[r] = "open" /\ pc'[r] = "store" /\ Step(r) /\ UNCHANGED issued
    BY <1>10 DEF Open, Step, Goto, TypeInv, TypeOK
  <2>2. PICK s \in Session \ minted :
           /\ session' = [session EXCEPT ![s] = [user |-> op[r].user, digest |-> NULL, live |-> TRUE]]
           /\ minted' = minted \cup {s}
           /\ op' = [op EXCEPT ![r].session = s]
    BY <1>10 DEF Open
  <2>0. PICK u : u = op[r].user
    OBVIOUS
  <2>3. RowsKeep /\ Known(u, s)'
    BY <2>0, <2>2, NewRow
  <2>4. op[r] \in Op /\ op'[r] = [op[r] EXCEPT !.session = s]
    BY <2>1, <2>2 DEF TypeInv, TypeOK
  <2>5. op'[r].user = op[r].user /\ op'[r].session = s
    BY <2>4 DEF Op
  <2>6. Carries(r)'
    BY <2>0, <2>1, <2>3, <2>5 DEF Carries
  <2> QED
    BY <2>1, <2>3, <2>6, OthersKeep, CarriesOn
<1>11. ASSUME NEW r \in Request, Store(r)
       PROVE  TokenInv'
  <2> DEFINE u == op[r].user
             s == op[r].session
  <2>1. /\ pc[r] = "store" /\ Step(r) /\ UNCHANGED <<minted, issued, op>>
        /\ Goto(r, IF op[r].do = "signUp" THEN "mail" ELSE "send")
        /\ Known(u, s) /\ s \in Session
    BY <1>11 DEF Store, Step, TokenInv, Carries, TypeInv, Purposes
  <2>2. /\ session[s] = NULL => session' = [session EXCEPT ![s] = NULL]
        /\ session[s] # NULL => \E b : session' = [session EXCEPT ![s] =
              [user |-> session[s].user, digest |-> u, live |-> b]]
    BY <1>11 DEF Store, Digest, Signed
  <2>3. /\ \A q \in Session : q # s => session'[q] = session[q]
        /\ session[s] = NULL => session'[s] = NULL
        /\ session[s] # NULL => session'[s].user = session[s].user /\ session'[s].digest = u
    <3>1. s \in Session /\ session = [q \in Session |-> session[q]]
      BY <2>1 DEF TypeInv, TypeOK
    <3>2. CASE session[s] = NULL
      BY <2>2, <3>1, <3>2
    <3>3. CASE session[s] # NULL
      <4>1. PICK b : session' = [session EXCEPT ![s] =
                        [user |-> session[s].user, digest |-> u, live |-> b]]
        BY <2>2, <3>3
      <4> QED
        BY <3>1, <3>3, <4>1
    <3> QED
      BY <3>2, <3>3
  <2>4. Good(u, s)'
    BY <2>1, <2>3 DEF Good, Known
  <2> HIDE DEF u, s
  <2>5. \A q \in Session : session'[q] # NULL => session[q] # NULL
    BY <2>3
  <2>6. ASSUME NEW v, NEW q, Known(v, q)
        PROVE  Known(v, q)'
    <3>1. q \in Session
      BY <2>6 DEF Known, TypeInv, TypeOK
    <3> QED
      BY <2>1, <2>3, <2>6, <3>1 DEF Known
  <2>7. ASSUME NEW v, NEW q, Good(v, q)
        PROVE  Good(v, q)'
    <3>1. q \in Session /\ q \in minted'
      BY <2>1, <2>7 DEF Good, TypeInv, TypeOK
    <3>2. CASE q # s
      BY <2>3, <2>7, <3>1, <3>2 DEF Good
    <3>3. CASE q = s
      BY <2>1, <2>3, <2>7, <3>1, <3>3 DEF Good, Known
    <3> QED
      BY <3>2, <3>3
  <2>8. RowsKeep
    BY <2>1, <2>5, <2>6, <2>7 DEF RowsKeep, RowsMinted, TokenInv
  <2>9. Carries(r)'
    <3>1. pc'[r] \in {"mail", "send"} /\ op'[r] = op[r]
      BY <2>1 DEF Goto, TypeInv, TypeOK
    <3> QED
      BY <2>4, <3>1 DEF Carries, u, s
  <2> QED
    BY <2>1, <2>8, <2>9, OthersKeep, CarriesOn
<1>12. ASSUME NEW r \in Request, Send(r)
       PROVE  TokenInv'
  <2>1. /\ pc[r] = "send" /\ pc'[r] = "idle" /\ Step(r) /\ UNCHANGED <<session, minted>>
        /\ issued' = issued \cup {Signed(op[r])}
    BY <1>12 DEF Send, Step, Finish, Goto, TypeInv, TypeOK
  <2>0. PICK u, s : u = op[r].user /\ s = op[r].session
    OBVIOUS
  <2>2. RowsKeep /\ Good(u, s)'
    <3>1. Good(u, s)
      BY <2>0, <2>1 DEF TokenInv, Carries
    <3>2. RowsKeep
      BY <2>1, SameRows
    <3> QED
      BY <3>1, <3>2 DEF RowsKeep
  <2>3. \A t \in issued' : t \in issued \/ Good(t.user, t.session)'
    BY <2>0, <2>1, <2>2 DEF Signed
  <2>4. Carries(r)'
    BY <2>1 DEF Carries
  <2> QED
    BY <2>1, <2>2, <2>3, <2>4, OthersKeep, CarriesOn
<1>13. ASSUME NEW r \in Request, FindSession(r)
       PROVE  TokenInv'
  <2>1. pc[r] = "session" /\ Step(r)
    BY <1>13 DEF FindSession, Step
  <2>2. ASSUME ~Refuse(r)
        PROVE  pc'[r] \in {"drop", "store"} /\ op' = op /\ UNCHANGED <<session, minted, issued>>
    BY <1>13, <2>2 DEF FindSession, Goto, tables, TypeInv, TypeOK
  <2>3. ASSUME pc'[r] \in {"drop", "store"}, op' = op, UNCHANGED <<session, minted, issued>>
        PROVE  TokenInv'
    <3>1. RowsKeep /\ Good(op[r].user, op[r].session)'
      BY <2>1, <2>3, SameRows DEF TokenInv, Carries, RowsKeep
    <3>2. Carries(r)'
      BY <2>3, <3>1 DEF Carries, Good, Known
    <3> QED
      BY <2>1, <2>3, <3>1, <3>2, OthersKeep, CarriesOn
  <2> QED
    BY <1>3, <2>1, <2>2, <2>3
<1>14. ASSUME NEW r \in Request, NEW s, Step(r), EndSession(s), Finish(r)
       PROVE  TokenInv'
  <2>1. pc'[r] = "idle" /\ UNCHANGED issued
    BY <1>14 DEF EndSession, Finish, Goto, TypeInv, TypeOK
  <2>2. RowsKeep
    BY <1>14, NoRow DEF EndSession
  <2> QED
    BY <1>14, <2>1, <2>2, CarriesNothing
<1>15. ASSUME NEW r \in Request, Drop(r) \/ Delete(r)
       PROVE  TokenInv'
  <2>1. Step(r)
    BY <1>15 DEF Step
  <2> QED
    BY <1>3, <1>14, <1>15, <2>1 DEF Drop, Delete
<1>16. ASSUME NEW r \in Request, Fail(r)
       PROVE  TokenInv'
  <2>1. pc'[r] = "idle" /\ Step(r) /\ UNCHANGED <<session, minted>>
    BY <1>16 DEF Fail, Step, TypeInv, TypeOK
  <2>2. RowsKeep
    BY <2>1, SameRows
  <2>3. \A t \in issued' : t \in issued \/ Good(t.user, t.session)'
    <3>1. ASSUME pc[r] = "mail", op[r].do = "signUp", issued' = issued \cup {Signed(op[r])}
          PROVE  \A t \in issued' : t \in issued \/ Good(t.user, t.session)'
      <4>0. PICK u, s : u = op[r].user /\ s = op[r].session
        OBVIOUS
      <4>1. Good(u, s)
        BY <3>1, <4>0 DEF TokenInv, Carries
      <4>2. Good(u, s)'
        BY <2>2, <4>1 DEF RowsKeep
      <4> QED
        BY <3>1, <4>0, <4>2 DEF Signed
    <3> QED
      BY <1>16, <3>1 DEF Fail
  <2>4. Carries(r)'
    BY <2>1 DEF Carries
  <2> QED
    BY <2>1, <2>2, <2>3, <2>4, OthersKeep, CarriesOn
<1>17. ASSUME UNCHANGED <<session, minted, issued, op, pc>>
       PROVE  TokenInv'
  BY <1>17 DEF TokenInv, RowsMinted, Carries, Known, Good
<1>18. ASSUME NEW z \in Session, LapseSession(z)
       PROVE  TokenInv'
  <2>1. issued' = issued /\ minted' = minted /\ op' = op /\ pc' = pc
    BY <1>18 DEF LapseSession
  <2>2. session[z] \in SessionRow /\ session' = [session EXCEPT ![z] = [session[z] EXCEPT !.live = FALSE]]
    BY <1>18 DEF LapseSession, TypeInv, TypeOK
  <2>3. /\ session'[z].user = session[z].user /\ session'[z].digest = session[z].digest
        /\ session[z] # NULL
        /\ \A q \in Session : q # z => session'[q] = session[q]
    BY <1>18, <2>2 DEF LapseSession, SessionRow, TypeInv, TypeOK
  <2>4. \A q \in Session :
           /\ session'[q] # NULL => session[q] # NULL
           /\ session'[q] # NULL => session'[q].user = session[q].user
           /\ session'[q] # NULL => session'[q].digest = session[q].digest
    BY <2>3
  <2>5. RowsMinted'
    BY <2>1, <2>4 DEF RowsMinted, TokenInv
  <2>6. minted \subseteq Session
    BY DEF TypeInv, TypeOK
  <2>7. \A u, q : Known(u, q) => Known(u, q)'
    BY <2>1, <2>4, <2>6 DEF Known
  <2>8. \A u, q : Good(u, q) => Good(u, q)'
    BY <2>1, <2>4, <2>6 DEF Good
  <2> QED
    BY <2>1, <2>5, <2>7, <2>8 DEF TokenInv, Carries
<1>19. ASSUME NEW u \in User, LapseCode(u)
       PROVE  TokenInv'
  BY <1>17, <1>19 DEF LapseCode
<1> QED
  BY <1>1, <1>4, <1>5, <1>6, <1>7, <1>8, <1>9, <1>10, <1>11, <1>12, <1>13, <1>15, <1>16,
     <1>17, <1>18, <1>19 DEF Next, Step, vars

-----------------------------------------------------------------------------
(* Sessions that ended.                                                    *)

LEMMA NextEnded ==
    ASSUME TypeInv, [Next]_vars, NEW s \in minted, session[s] = NULL
    PROVE  session'[s] = NULL
<1>0. s \in Session /\ session = [q \in Session |-> session[q]]
  BY DEF TypeInv, TypeOK
<1>1. ASSUME NEW z \in Session \ minted, NEW w, session' = [session EXCEPT ![z] = w]
      PROVE  session'[s] = NULL
  BY <1>0, <1>1
<1>2. ASSUME NEW z, session' = [session EXCEPT ![z] = NULL]
      PROVE  session'[s] = NULL
  BY <1>0, <1>2
<1>3. ASSUME NEW r \in Request, Step(r)
      PROVE  session'[s] = NULL
  <2>1. ASSUME Refuse(r) \/ UNCHANGED session
        PROVE  session'[s] = NULL
    BY <2>1 DEF Refuse, tables
  <2>2. ASSUME \E o \in Requests : Start(r, o)
        PROVE  session'[s] = NULL
    BY <2>2 DEF Start, tables
  <2>3. ASSUME Existing(r) \/ FindUser(r) \/ Match(r) \/ FindSession(r)
        PROVE  session'[s] = NULL
    BY <2>1, <2>3 DEF Existing, FindUser, Match, FindSession, tables
  <2>4. ASSUME Insert(r)
        PROVE  session'[s] = NULL
    BY <1>1, <2>1, <2>4 DEF Insert
  <2>5. ASSUME Open(r)
        PROVE  session'[s] = NULL
    BY <1>1, <2>5 DEF Open
  <2>6. ASSUME Store(r)
        PROVE  session'[s] = NULL
    <3>1. CASE op[r].session = s
      <4>1. session' = [session EXCEPT ![s] = NULL]
        BY <2>6, <3>1 DEF Store
      <4> QED
        BY <1>2, <4>1
    <3>2. CASE op[r].session # s
      BY <1>0, <2>6, <3>2 DEF Store
    <3> QED
      BY <3>1, <3>2
  <2>7. ASSUME Drop(r) \/ Delete(r)
        PROVE  session'[s] = NULL
    BY <1>2, <2>1, <2>7 DEF Drop, Delete, EndSession
  <2>8. ASSUME SetOtp(r) \/ Mail(r) \/ Clear(r) \/ Send(r) \/ Fail(r)
        PROVE  session'[s] = NULL
    BY <2>8 DEF SetOtp, Mail, Clear, Send, Fail
  <2> QED
    BY <1>3, <2>2, <2>3, <2>4, <2>5, <2>6, <2>7, <2>8 DEF Step
<1>4. ASSUME NEW z \in Session, LapseSession(z)
      PROVE  session'[s] = NULL
  BY <1>0, <1>4 DEF LapseSession
<1>5. ASSUME \/ UNCHANGED vars
             \/ \E u \in User : LapseCode(u)
      PROVE  session'[s] = NULL
  BY <1>5 DEF vars, LapseCode
<1> QED
  BY <1>3, <1>4, <1>5 DEF Next

\* No session comes back once logout or its expiry ended it, whichever refresh
\* was under way (auth.service.ts line 537).
THEOREM EndedSessionsStayEnded == Spec => EndedStaysEnded
<1>1. TypeInv /\ [Next]_vars => [\A s \in minted : session[s] = NULL => session'[s] = NULL]_vars
  BY NextEnded
<1> QED
  BY InitType, NextType, <1>1, PTL DEF Spec, EndedStaysEnded

-----------------------------------------------------------------------------
(* Codes and their uses, while the verifications of a user do not overlap. *)

OneVerifies ==
    \A q, r \in Request :
        pc[q] # "idle" /\ pc[r] # "idle" /\ op[q].do = "verifyOtp" /\ op[r].do = "verifyOtp"
        /\ op[q].user = op[r].user => q = r

CodesLeft ==
    /\ \A u \in User : accepted[u] <= drawn[u]
    /\ \A u \in User : account[u] # NULL /\ account[u].code # NULL => accepted[u] < drawn[u]
    /\ \A r \in Request : pc[r] = "clear" => accepted[op[r].user] < drawn[op[r].user]

CodeInv == calm => OneVerifies /\ CodesLeft

\* What a request is, and for whom, does not change while it runs.
SameRequest(r) == pc[r] # "idle" /\ op'[r].do = op[r].do /\ op'[r].user = op[r].user

LEMMA StepKeepsRequest ==
    ASSUME TypeInv, NEW r \in Request, Step(r), ~ \E o \in Requests : Start(r, o)
    PROVE  pc'[r] = "idle" \/ SameRequest(r)
<1> USE DEF TypeInv, TypeOK
<1>1. ASSUME Refuse(r) \/ Finish(r)
      PROVE  pc'[r] = "idle"
  BY <1>1 DEF Refuse, Finish, Goto
<1>2. ASSUME pc[r] # "idle", UNCHANGED op
      PROVE  SameRequest(r)
  BY <1>2 DEF SameRequest
<1>3. ASSUME Existing(r) \/ FindUser(r) \/ Match(r) \/ FindSession(r)
      PROVE  pc'[r] = "idle" \/ SameRequest(r)
  BY <1>1, <1>2, <1>3 DEF Existing, FindUser, Match, FindSession
<1>4. ASSUME pc[r] # "idle", NEW c, op' = [op EXCEPT ![r].code = c]
      PROVE  SameRequest(r)
  <2>1. op[r] \in Op /\ op'[r] = [op[r] EXCEPT !.code = c]
    BY <1>4
  <2> QED
    BY <1>4, <2>1 DEF SameRequest, Op
<1>5. ASSUME pc[r] # "idle", NEW s, op' = [op EXCEPT ![r].session = s]
      PROVE  SameRequest(r)
  <2>1. op[r] \in Op /\ op'[r] = [op[r] EXCEPT !.session = s]
    BY <1>5
  <2> QED
    BY <1>5, <2>1 DEF SameRequest, Op
<1>6. ASSUME pc[r] # "idle", NEW c, NEW s, op' = [op EXCEPT ![r].code = c, ![r].session = s]
      PROVE  SameRequest(r)
  <2>1. op[r] \in Op /\ op'[r] = [op[r] EXCEPT !.code = c, !.session = s]
    BY <1>6
  <2> QED
    BY <1>6, <2>1 DEF SameRequest, Op
<1>7. ASSUME Insert(r) \/ SetOtp(r) \/ Open(r)
      PROVE  pc'[r] = "idle" \/ SameRequest(r)
  BY <1>1, <1>4, <1>5, <1>6, <1>7 DEF Insert, SetOtp, Open
<1>8. ASSUME Mail(r) \/ Clear(r) \/ Store(r) \/ Send(r) \/ Drop(r) \/ Delete(r)
      PROVE  pc'[r] = "idle" \/ SameRequest(r)
  BY <1>1, <1>2, <1>8 DEF Mail, Clear, Store, Send, Drop, Delete
<1>9. ASSUME Fail(r)
      PROVE  pc'[r] = "idle"
  BY <1>9 DEF Fail
<1> QED
  BY <1>3, <1>7, <1>8, <1>9 DEF Step

\* Who is in progress with what, for the rest of the step.
LEMMA InProgress ==
    ASSUME TypeInv, NEW r \in Request, Step(r), NEW q \in Request, pc'[q] # "idle",
           ~ \E o \in Requests : Start(r, o)
    PROVE  pc[q] # "idle" /\ op'[q].do = op[q].do /\ op'[q].user = op[q].user
BY StepKeepsRequest, OthersKeep DEF SameRequest

\* Starts keep at most one handler of a kind for a user; other steps add none.
LEMMA StartAlone ==
    ASSUME TypeInv, NEW r \in Request, NEW o \in Requests, Start(r, o), calm,
           NEW kind, o.do \in kind => Busy(o.user, kind) = {},
           \A p, q \in Request :
               pc[p] # "idle" /\ pc[q] # "idle" /\ op[p].do \in kind /\ op[q].do \in kind
               /\ op[p].user = op[q].user => p = q
    PROVE  \A p, q \in Request :
               pc'[p] # "idle" /\ pc'[q] # "idle" /\ op'[p].do \in kind /\ op'[q].do \in kind
               /\ op'[p].user = op'[q].user => p = q
<1>1. op'[r] = o /\ \A q \in Request : q # r => pc'[q] = pc[q] /\ op'[q] = op[q]
  BY DEF Start, TypeInv, TypeOK
<1>2. o.do \in kind => \A q \in Request :
          ~(pc[q] # "idle" /\ op[q].do \in kind /\ op[q].user = o.user)
  BY DEF Busy
<1> QED
  BY <1>1, <1>2

LEMMA NextVerifies == ASSUME TypeInv, OneVerifies, [Next]_vars, calm PROVE OneVerifies'
<1>1. ASSUME NEW r \in Request, NEW o \in Requests, Start(r, o)
      PROVE  OneVerifies'
  <2>1. o.do \in {"verifyOtp"} => Busy(o.user, {"verifyOtp"}) = {}
    BY <1>1 DEF Start
  <2>2. \A p, q \in Request :
           pc[p] # "idle" /\ pc[q] # "idle" /\ op[p].do \in {"verifyOtp"}
           /\ op[q].do \in {"verifyOtp"} /\ op[p].user = op[q].user => p = q
    BY DEF OneVerifies
  <2>3. \A p, q \in Request :
           pc'[p] # "idle" /\ pc'[q] # "idle" /\ op'[p].do \in {"verifyOtp"}
           /\ op'[q].do \in {"verifyOtp"} /\ op'[p].user = op'[q].user => p = q
    BY <1>1, <2>1, <2>2, StartAlone
  <2> QED
    BY <2>3 DEF OneVerifies
<1>2. ASSUME NEW r \in Request, Step(r), ~ \E o \in Requests : Start(r, o)
      PROVE  OneVerifies'
  <2>1. \A q \in Request : pc'[q] # "idle" =>
           pc[q] # "idle" /\ op'[q].do = op[q].do /\ op'[q].user = op[q].user
    BY <1>2, InProgress
  <2> QED
    BY <2>1 DEF OneVerifies
<1>3. ASSUME UNCHANGED <<pc, op>>
      PROVE  OneVerifies'
  BY <1>3 DEF OneVerifies
<1>4. ASSUME NEW u \in User, LapseCode(u)
      PROVE  OneVerifies'
  BY <1>3, <1>4 DEF LapseCode
<1>5. ASSUME NEW s \in Session, LapseSession(s)
      PROVE  OneVerifies'
  BY <1>3, <1>5 DEF LapseSession
<1>6. CASE UNCHANGED vars
  BY <1>3, <1>6 DEF vars
<1> QED
  BY <1>1, <1>2, <1>4, <1>5, <1>6 DEF Next

\* A step of r that leaves the codes alone, and does not start to clear one.
LEMMA CodesAlone ==
    ASSUME TypeInv, CodesLeft, NEW r \in Request, Step(r),
           UNCHANGED <<account, drawn, accepted>>, pc'[r] # "clear"
    PROVE  CodesLeft'
BY OthersKeep DEF CodesLeft

LEMMA NextCodes == ASSUME TypeInv, OneVerifies, CodesLeft, [Next]_vars PROVE CodesLeft'
<1> USE DEF TypeInv
<1>1. ASSUME NEW r \in Request, NEW o \in Requests, Start(r, o)
      PROVE  CodesLeft'
  <2>1. o.do \in Do /\ pc' = [pc EXCEPT ![r] = First[o.do]] /\ UNCHANGED <<account, drawn, accepted>>
    BY <1>1 DEF Start, tables, Requests, Do
  <2>2. pc'[r] # "clear"
    BY <2>1 DEF First, Do, TypeOK
  <2> QED
    BY <1>1, <2>1, <2>2, CodesAlone DEF Step
<1>2. ASSUME NEW r \in Request, Step(r), Refuse(r)
      PROVE  CodesLeft'
  <2>1. pc'[r] # "clear" /\ UNCHANGED <<account, drawn, accepted>>
    BY <1>2 DEF Refuse, Finish, Goto, tables, TypeOK
  <2> QED
    BY <1>2, <2>1, CodesAlone
<1>3. ASSUME NEW r \in Request, NEW label \in Pc \ {"clear"}, Step(r), Goto(r, label),
             UNCHANGED <<account, drawn, accepted>>
      PROVE  CodesLeft'
  <2>1. pc'[r] # "clear"
    BY <1>3 DEF Goto, TypeOK
  <2> QED
    BY <1>3, <2>1, CodesAlone
<1>4. ASSUME NEW r \in Request, Existing(r) \/ FindUser(r) \/ FindSession(r)
      PROVE  CodesLeft'
  <2>1. Step(r)
    BY <1>4 DEF Step
  <2>2. ASSUME ~Refuse(r)
        PROVE  pc'[r] # "clear" /\ UNCHANGED <<account, drawn, accepted>>
    BY <1>4, <2>2 DEF Existing, FindUser, FindSession, Goto, tables, TypeOK
  <2> QED
    BY <1>2, <2>1, <2>2, CodesAlone
<1>5. ASSUME NEW r \in Request, NEW u \in User, NEW w \in AccountRow, Step(r),
             pc'[r] # "clear", account' = [account EXCEPT ![u] = w],
             drawn' = [drawn EXCEPT ![u] = @ + 1], accepted' = accepted
      PROVE  CodesLeft'
  <2>1. /\ drawn'[u] = drawn[u] + 1 /\ drawn[u] \in Nat
        /\ \A v \in User : v # u => drawn'[v] = drawn[v] /\ account'[v] = account[v]
        /\ \A v \in User : drawn[v] \in Nat /\ accepted[v] \in Nat
    BY <1>5 DEF TypeOK
  <2>2. \A v \in User : accepted'[v] <= drawn'[v]
    BY <1>5, <2>1 DEF CodesLeft
  <2>3. \A v \in User : account'[v] # NULL /\ account'[v].code # NULL => accepted'[v] < drawn'[v]
    BY <1>5, <2>1 DEF CodesLeft
  <2>4. ASSUME NEW q \in Request, pc'[q] = "clear"
        PROVE  accepted'[op'[q].user] < drawn'[op'[q].user]
    <3>1. pc[q] = "clear" /\ op'[q] = op[q]
      BY <1>5, <2>4, OthersKeep
    <3>2. op[q].user \in User /\ accepted[op[q].user] < drawn[op[q].user]
      BY <3>1 DEF CodesLeft, TypeOK, Op
    <3> QED
      BY <1>5, <2>1, <3>1, <3>2
  <2> QED
    BY <2>2, <2>3, <2>4 DEF CodesLeft
<1>6. ASSUME NEW r \in Request, Insert(r)
      PROVE  CodesLeft'
  <2>1. ASSUME ~Refuse(r)
        PROVE  CodesLeft'
    <3>1. PICK c \in Code : account' = [account EXCEPT ![op[r].user] =
                                          [verified |-> FALSE, code |-> c, fresh |-> TRUE]]
      BY <1>6, <2>1 DEF Insert
    <3>2. /\ pc[r] = "insert" /\ pc'[r] # "clear" /\ accepted' = accepted
          /\ drawn' = [drawn EXCEPT ![op[r].user] = @ + 1]
      BY <1>6, <2>1 DEF Insert, Goto, TypeOK
    <3>3. op[r].user \in User /\ [verified |-> FALSE, code |-> c, fresh |-> TRUE] \in AccountRow
      BY <3>2 DEF TypeOK, Op, AccountRow
    <3> QED
      BY <1>5, <1>6, <3>1, <3>2, <3>3 DEF Step
  <2> QED
    BY <1>2, <1>6, <2>1 DEF Step
<1>7. ASSUME NEW r \in Request, SetOtp(r)
      PROVE  CodesLeft'
  <2>1. PICK c \in Code : account' = [account EXCEPT ![op[r].user].code = c,
                                                      ![op[r].user].fresh = TRUE]
    BY <1>7 DEF SetOtp
  <2>2. /\ pc[r] = "setOtp" /\ pc'[r] # "clear" /\ accepted' = accepted
        /\ drawn' = [drawn EXCEPT ![op[r].user] = @ + 1]
    BY <1>7 DEF SetOtp, Goto, TypeOK
  <2> DEFINE w == [account[op[r].user] EXCEPT !.code = c, !.fresh = TRUE]
  <2>3. op[r].user \in User /\ account[op[r].user] # NULL
    BY <2>2 DEF Purposes, Knows, TypeOK, Op
  <2>4. account[op[r].user] \in AccountRow
    BY <2>3 DEF TypeOK
  <2>5. w \in AccountRow
    BY <2>4 DEF AccountRow
  <2>6. account' = [account EXCEPT ![op[r].user] = w]
    BY <2>1
  <2> HIDE DEF w
  <2> QED
    BY <1>5, <1>7, <2>2, <2>3, <2>5, <2>6 DEF Step
<1>8. ASSUME NEW r \in Request, Match(r)
      PROVE  CodesLeft'
  <2>1. pc[r] = "match" /\ Step(r) /\ op[r].code \in Code /\ op[r].user \in User
    BY <1>8 DEF Match, Step, Purposes, TypeOK, Op
  <2>2. ASSUME ~Refuse(r)
        PROVE  CodesLeft'
    <3>1. /\ account[op[r].user] # NULL /\ account[op[r].user].code = op[r].code
          /\ UNCHANGED <<account, drawn, accepted, op>>
      BY <1>8, <2>2 DEF Match, tables
    <3>2. accepted[op[r].user] < drawn[op[r].user]
      BY <2>1, <3>1, NullAssumption DEF CodesLeft
    <3>3. \A q \in Request : pc'[q] = "clear" => accepted'[op'[q].user] < drawn'[op'[q].user]
      BY <2>1, <3>1, <3>2, OthersKeep DEF CodesLeft
    <3> QED
      BY <3>1, <3>3 DEF CodesLeft
  <2> QED
    BY <1>2, <2>1, <2>2
<1>9. ASSUME NEW r \in Request, Clear(r)
      PROVE  CodesLeft'
  <2> DEFINE u == op[r].user
             w == [verified |-> TRUE, code |-> NULL, fresh |-> FALSE]
  <2>1. /\ pc[r] = "clear" /\ Step(r) /\ account' = [account EXCEPT ![u] = w]
        /\ accepted' = [accepted EXCEPT ![u] = @ + 1] /\ drawn' = drawn /\ op' = op
        /\ pc' = [pc EXCEPT ![r] = "open"]
    BY <1>9 DEF Clear, Step, Goto
  <2>2. u \in User /\ op[r].do = "verifyOtp" /\ accepted[u] < drawn[u]
    BY <2>1 DEF Purposes, TypeOK, Op, CodesLeft
  <2>3. /\ accepted'[u] = accepted[u] + 1 /\ account'[u] = w /\ w.code = NULL
        /\ \A v \in User : v # u => accepted'[v] = accepted[v] /\ account'[v] = account[v]
        /\ \A v \in User : drawn[v] \in Nat /\ accepted[v] \in Nat
    BY <2>1, <2>2 DEF TypeOK
  <2>4. ASSUME NEW q \in Request, pc'[q] = "clear"
        PROVE  accepted'[op'[q].user] < drawn'[op'[q].user]
    <3>1. pc[q] = "clear" /\ q # r
      BY <2>1, <2>4 DEF TypeOK
    <3>2. op[q].do = "verifyOtp" /\ op[q].user \in User
      BY <3>1 DEF Purposes, TypeOK, Op
    <3>3. op[q].user # u
      BY <2>1, <2>2, <3>1, <3>2 DEF OneVerifies
    <3> QED
      BY <2>1, <2>3, <3>1, <3>2, <3>3 DEF CodesLeft
  <2> HIDE DEF u, w
  <2>5. \A v \in User : accepted'[v] <= drawn'[v]
    BY <2>1, <2>2, <2>3 DEF CodesLeft
  <2>6. \A v \in User : account'[v] # NULL /\ account'[v].code # NULL => accepted'[v] < drawn'[v]
    BY <2>1, <2>2, <2>3 DEF CodesLeft
  <2> QED
    BY <2>4, <2>5, <2>6 DEF CodesLeft
<1>10. ASSUME NEW r \in Request, Mail(r) \/ Send(r) \/ Drop(r) \/ Delete(r) \/ Open(r) \/ Store(r)
       PROVE  CodesLeft'
  <2>1. Step(r)
    BY <1>10 DEF Step
  <2>2. ASSUME ~Refuse(r)
        PROVE  pc'[r] # "clear" /\ UNCHANGED <<account, drawn, accepted>>
    BY <1>10, <2>2 DEF Mail, Send, Drop, Delete, EndSession, Open, Store, Finish, Goto, TypeOK
  <2> QED
    BY <1>2, <2>1, <2>2, CodesAlone
<1>11. ASSUME NEW r \in Request, Fail(r)
       PROVE  CodesLeft'
  <2>1. pc'[r] # "clear" /\ UNCHANGED <<account, drawn, accepted>>
    BY <1>11 DEF Fail, TypeOK
  <2> QED
    BY <1>11, <2>1, CodesAlone DEF Step
<1>12. ASSUME NEW u \in User, LapseCode(u)
       PROVE  CodesLeft'
  <2>1. /\ account[u] # NULL /\ account' = [account EXCEPT ![u] = [account[u] EXCEPT !.fresh = FALSE]]
        /\ pc' = pc /\ op' = op /\ drawn' = drawn /\ accepted' = accepted
    BY <1>12 DEF LapseCode
  <2>2. account[u] \in AccountRow
    BY <2>1 DEF TypeOK
  <2>3. [account[u] EXCEPT !.fresh = FALSE].code = account[u].code
    BY <2>2 DEF AccountRow
  <2>4. /\ account'[u].code = account[u].code
        /\ \A v \in User : v # u => account'[v] = account[v]
    BY <2>1, <2>3 DEF TypeOK
  <2> QED
    BY <2>1, <2>4 DEF CodesLeft
<1>13. ASSUME \/ UNCHANGED vars
              \/ \E s \in Session : LapseSession(s)
       PROVE  CodesLeft'
  <2>1. UNCHANGED <<account, drawn, accepted, pc, op>>
    BY <1>13 DEF vars, LapseSession
  <2> QED
    BY <2>1 DEF CodesLeft
<1> QED
  BY <1>1, <1>4, <1>6, <1>7, <1>8, <1>9, <1>10, <1>11, <1>12, <1>13 DEF Next, Step

LEMMA CalmStays == ASSUME [Next]_vars PROVE calm' = calm
<1>1. ASSUME NEW r \in Request, Step(r)
      PROVE  calm' = calm
  BY <1>1 DEF Step, Start, Existing, Insert, FindUser, SetOtp, Mail, Match, Clear, Open, Store, Send,
              FindSession, Drop, Delete, Fail, Refuse, Finish, Goto
<1> QED
  BY <1>1 DEF Next, LapseCode, LapseSession, vars

\* While the verifications of a user do not overlap, it has no more codes
\* accepted than were stored for it (auth.service.ts lines 385 and 409).
THEOREM CodesWorkOnce == Spec => []CalmCodeWorksOnce
<1>1. Init => TypeInv /\ CodeInv
  <2>1. Init => CodeInv
    BY DEF Init, CodeInv, OneVerifies, CodesLeft
  <2> QED
    BY <2>1, InitType
<1>2. TypeInv /\ CodeInv /\ [Next]_vars => (TypeInv /\ CodeInv)'
  BY NextType, NextVerifies, NextCodes, CalmStays DEF CodeInv
<1>3. CodeInv => CalmCodeWorksOnce
  BY DEF CodeInv, CodesLeft, CalmCodeWorksOnce
<1> QED
  BY <1>1, <1>2, <1>3, PTL DEF Spec

-----------------------------------------------------------------------------
(* The code in the row and the code in the mail, while the codes of a user *)
(* are sent one after the other.                                           *)

OneSends ==
    \A q, r \in Request :
        pc[q] # "idle" /\ pc[r] # "idle" /\ op[q].do \in Sending /\ op[r].do \in Sending
        /\ op[q].user = op[r].user => q = r

LEMMA NextSends == ASSUME TypeInv, OneSends, [Next]_vars, calm PROVE OneSends'
<1>1. ASSUME NEW r \in Request, NEW o \in Requests, Start(r, o)
      PROVE  OneSends'
  <2>1. o.do \in Sending => Busy(o.user, Sending) = {}
    BY <1>1 DEF Start
  <2>2. \A p, q \in Request :
           pc[p] # "idle" /\ pc[q] # "idle" /\ op[p].do \in Sending
           /\ op[q].do \in Sending /\ op[p].user = op[q].user => p = q
    BY DEF OneSends
  <2>3. \A p, q \in Request :
           pc'[p] # "idle" /\ pc'[q] # "idle" /\ op'[p].do \in Sending
           /\ op'[q].do \in Sending /\ op'[p].user = op'[q].user => p = q
    BY <1>1, <2>1, <2>2, StartAlone
  <2> QED
    BY <2>3 DEF OneSends, Sending
<1>2. ASSUME NEW r \in Request, Step(r), ~ \E o \in Requests : Start(r, o)
      PROVE  OneSends'
  <2>1. \A q \in Request : pc'[q] # "idle" =>
           pc[q] # "idle" /\ op'[q].do = op[q].do /\ op'[q].user = op[q].user
    BY <1>2, InProgress
  <2> QED
    BY <2>1 DEF OneSends, Sending
<1>3. ASSUME UNCHANGED <<pc, op>>
      PROVE  OneSends'
  BY <1>3 DEF OneSends, Sending
<1>4. ASSUME NEW u \in User, LapseCode(u)
      PROVE  OneSends'
  BY <1>3, <1>4 DEF LapseCode
<1>5. ASSUME NEW s \in Session, LapseSession(s)
      PROVE  OneSends'
  BY <1>3, <1>5 DEF LapseSession
<1>6. CASE UNCHANGED vars
  BY <1>3, <1>6 DEF vars
<1> QED
  BY <1>1, <1>2, <1>4, <1>5, <1>6 DEF Next

\* r has stored its code and not mailed it yet.
Unmailed(r) == pc[r] \in {"store", "mail"} /\ op[r].do \in Sending
Stored(u) == account[u] # NULL /\ account[u].code # NULL

Agrees(r) == Unmailed(r) /\ Stored(op[r].user) => account[op[r].user].code = op[r].code

MailsAgree ==
    /\ \A r \in Request : Agrees(r)
    /\ \A u \in User : Stored(u) =>
          \/ mailed[u] = account[u].code
          \/ \E r \in Request : Unmailed(r) /\ op[r].user = u /\ op[r].code = account[u].code

\* A step of r after which it has stored nothing new, and still owes what it owed.
LEMMA MailsAlone ==
    ASSUME TypeInv, MailsAgree, NEW r \in Request, Step(r), mailed' = mailed,
           \A u \in User : Stored(u)' => Stored(u) /\ account'[u].code = account[u].code,
           Unmailed(r) => Unmailed(r)',
           Unmailed(r)' => /\ Unmailed(r) /\ op'[r].user = op[r].user /\ op'[r].code = op[r].code
    PROVE  MailsAgree'
<1>1. \A q \in Request : q # r => /\ Unmailed(q)' <=> Unmailed(q)
                                  /\ op'[q] = op[q]
  BY OthersKeep DEF Unmailed, Sending
<1>2. \A q \in Request : Unmailed(q)' <=> Unmailed(q)
  BY <1>1
<1>3. \A q \in Request : Unmailed(q) => op'[q].user = op[q].user /\ op'[q].code = op[q].code
  BY <1>1, <1>2
<1>4. \A q \in Request : Unmailed(q) => op[q].user \in User
  BY DEF Unmailed, TypeInv, TypeOK, Op
<1>5. ASSUME NEW q \in Request
      PROVE  Agrees(q)'
  <2> SUFFICES ASSUME Unmailed(q)'
               PROVE  Agrees(q)'
    BY DEF Agrees
  <2>1. PICK u \in User : u = op[q].user /\ u = op'[q].user
    BY <1>2, <1>3, <1>4
  <2>2. Unmailed(q) /\ op'[q].code = op[q].code
    BY <1>2, <1>3
  <2>3. Stored(u) => account[u].code = op[q].code
    BY <2>1, <2>2 DEF MailsAgree, Agrees
  <2>4. Stored(u)' => account'[u].code = op'[q].code
    BY <2>2, <2>3
  <2> QED
    BY <2>1, <2>4 DEF Agrees, Stored
<1>6. ASSUME NEW u \in User, Stored(u)'
      PROVE  \/ mailed'[u] = account'[u].code
             \/ \E q \in Request : Unmailed(q)' /\ op'[q].user = u /\ op'[q].code = account'[u].code
  BY <1>2, <1>3, <1>6 DEF MailsAgree
<1> QED
  BY <1>5, <1>6 DEF MailsAgree, Stored

\* The same for a step that leaves the accounts alone, and for one that ends r
\* when it owes nothing.
LEMMA MailsSame ==
    ASSUME TypeInv, MailsAgree, NEW r \in Request, Step(r), UNCHANGED <<account, mailed>>,
           ~Unmailed(r), ~Unmailed(r)'
    PROVE  MailsAgree'
<1>1. \A u \in User : Stored(u)' => Stored(u) /\ account'[u].code = account[u].code
  BY DEF Stored
<1> QED
  BY <1>1, MailsAlone

\* r stores a code of u, and will mail it.
LEMMA MailsNew ==
    ASSUME TypeInv, OneSends, MailsAgree, NEW r \in Request, Step(r), mailed' = mailed,
           NEW u \in User, u = op[r].user, op[r].do \in Sending, pc[r] # "idle",
           Unmailed(r)', op'[r].user = u, op'[r].code = account'[u].code,
           \A v \in User : v # u => account'[v] = account[v]
    PROVE  MailsAgree'
<1>1. \A q \in Request : q # r => /\ Unmailed(q)' <=> Unmailed(q)
                                  /\ op'[q] = op[q]
  BY OthersKeep DEF Unmailed, Sending
<1>2. \A q \in Request : Unmailed(q) => op[q].user \in User /\ pc[q] # "idle" /\ op[q].do \in Sending
  BY DEF Unmailed, TypeInv, TypeOK, Op
<1>3. \A q \in Request : q # r /\ Unmailed(q) => op[q].user # u
  BY <1>2 DEF OneSends
<1>4. ASSUME NEW q \in Request
      PROVE  Agrees(q)'
  <2> SUFFICES ASSUME Unmailed(q)'
               PROVE  Agrees(q)'
    BY DEF Agrees
  <2>1. CASE q = r
    BY <2>1 DEF Agrees
  <2>2. CASE q # r
    <3>1. Unmailed(q) /\ op'[q] = op[q] /\ op[q].user # u /\ op[q].user \in User
      BY <1>1, <1>2, <1>3, <2>2
    <3>2. account'[op[q].user] = account[op[q].user]
      BY <3>1
    <3> QED
      BY <3>1, <3>2 DEF MailsAgree, Agrees, Stored
  <2> QED
    BY <2>1, <2>2
<1>5. ASSUME NEW v \in User, Stored(v)'
      PROVE  \/ mailed'[v] = account'[v].code
             \/ \E q \in Request : Unmailed(q)' /\ op'[q].user = v /\ op'[q].code = account'[v].code
  <2>1. CASE v = u
    BY <2>1
  <2>2. CASE v # u
    <3>1. account'[v] = account[v] /\ Stored(v)
      BY <1>5, <2>2 DEF Stored
    <3>2. CASE mailed[v] = account[v].code
      BY <3>1, <3>2
    <3>3. ASSUME NEW q \in Request, Unmailed(q), op[q].user = v, op[q].code = account[v].code
          PROVE  Unmailed(q)' /\ op'[q].user = v /\ op'[q].code = account'[v].code
      BY <1>1, <2>2, <3>1, <3>3
    <3> QED
      BY <3>1, <3>2, <3>3 DEF MailsAgree
  <2> QED
    BY <2>1, <2>2
<1> QED
  BY <1>4, <1>5 DEF MailsAgree, Stored

LEMMA NextMails ==
    ASSUME TypeInv, OneSends, MailsAgree, [Next]_vars, failures' = failures PROVE MailsAgree'
<1> USE DEF TypeInv
<1>1. ASSUME NEW r \in Request, NEW o \in Requests, Start(r, o)
      PROVE  MailsAgree'
  <2>1. /\ o.do \in Do /\ pc[r] = "idle" /\ pc' = [pc EXCEPT ![r] = First[o.do]]
        /\ UNCHANGED <<account, mailed>>
    BY <1>1 DEF Start, tables, Requests, Do
  <2>2. ~Unmailed(r) /\ ~Unmailed(r)'
    BY <2>1 DEF First, Do, TypeOK, Unmailed
  <2> QED
    BY <1>1, <2>1, <2>2, MailsSame DEF Step
<1>2. ASSUME NEW r \in Request, Step(r), UNCHANGED <<account, mailed>>,
             pc[r] \notin {"store", "mail"}, pc'[r] \notin {"store", "mail"}
      PROVE  MailsAgree'
  BY <1>2, MailsSame DEF Unmailed
<1>3. ASSUME NEW r \in Request, Step(r), Refuse(r), pc[r] \notin {"store", "mail"}
      PROVE  MailsAgree'
  <2>1. pc'[r] = "idle" /\ UNCHANGED <<account, mailed>>
    BY <1>3 DEF Refuse, Finish, Goto, tables, TypeOK
  <2> QED
    BY <1>2, <1>3, <2>1
<1>4. ASSUME NEW r \in Request, Existing(r) \/ FindUser(r) \/ Match(r)
      PROVE  MailsAgree'
  <2>1. Step(r) /\ pc[r] \notin {"store", "mail"}
    BY <1>4 DEF Existing, FindUser, Match, Step
  <2>2. ASSUME ~Refuse(r)
        PROVE  pc'[r] \notin {"store", "mail"} /\ UNCHANGED <<account, mailed>>
    BY <1>4, <2>2 DEF Existing, FindUser, Match, Goto, tables, TypeOK
  <2> QED
    BY <1>2, <1>3, <2>1, <2>2
<1>5. ASSUME NEW r \in Request, FindSession(r) \/ Open(r)
      PROVE  MailsAgree'
  <2>1. Step(r) /\ pc[r] \in {"session", "open"}
    BY <1>5 DEF FindSession, Open, Step
  <2>2. op[r] \in Op /\ op[r].do \notin Sending
    BY <2>1 DEF Purposes, TypeOK, Sending
  <2>3. ASSUME ~Refuse(r)
        PROVE  ~Unmailed(r)' /\ UNCHANGED <<account, mailed>>
    <3>1. UNCHANGED <<account, mailed>>
      BY <1>5, <2>3 DEF FindSession, Open, tables
    <3>2. pc'[r] = "idle" \/ op'[r].do = op[r].do
      <4>1. ~ \E o \in Requests : Start(r, o)
        BY <2>1 DEF Start
      <4> QED
        BY <2>1, <4>1, StepKeepsRequest DEF SameRequest
    <3> QED
      BY <2>2, <3>1, <3>2 DEF Unmailed, Sending
  <2> QED
    BY <1>3, <2>1, <2>3, MailsSame DEF Unmailed
<1>6. ASSUME NEW r \in Request, Insert(r)
      PROVE  MailsAgree'
  <2>1. Step(r) /\ pc[r] = "insert" /\ op[r] \in Op /\ op[r].do = "signUp"
    BY <1>6 DEF Insert, Step, Purposes, TypeOK
  <2>2. ASSUME ~Refuse(r)
        PROVE  MailsAgree'
    <3>1. PICK s \in Session \ minted, c \in Code :
             /\ account' = [account EXCEPT ![op[r].user] =
                                         [verified |-> FALSE, code |-> c, fresh |-> TRUE]]
             /\ op' = [op EXCEPT ![r].code = c, ![r].session = s]
      BY <1>6, <2>2 DEF Insert
    <3>2. mailed' = mailed /\ pc' = [pc EXCEPT ![r] = "store"]
      BY <1>6, <2>2 DEF Insert, Goto
    <3>3. op'[r] = [op[r] EXCEPT !.code = c, !.session = s] /\ pc'[r] = "store"
      BY <3>1, <3>2 DEF TypeOK
    <3>4. op'[r].user = op[r].user /\ op'[r].do = "signUp" /\ op'[r].code = c
      BY <2>1, <3>3 DEF Op
    <3>5. PICK u \in User : u = op[r].user
      BY <2>1 DEF Op
    <3>6. account'[u].code = c /\ \A v \in User : v # u => account'[v] = account[v]
      BY <3>1, <3>5 DEF TypeOK
    <3>7. Unmailed(r)'
      BY <3>3, <3>4 DEF Unmailed, Sending
    <3> QED
      BY <2>1, <3>2, <3>4, <3>5, <3>6, <3>7, MailsNew DEF Sending
  <2> QED
    BY <1>3, <1>6, <2>1, <2>2
<1>7. ASSUME NEW r \in Request, SetOtp(r)
      PROVE  MailsAgree'
  <2>1. Step(r) /\ pc[r] = "setOtp" /\ op[r] \in Op /\ op[r].do = "requestOtp" /\ account[op[r].user] # NULL
    BY <1>7 DEF SetOtp, Step, Purposes, Knows, TypeOK
  <2>2. PICK c \in Code :
           /\ account' = [account EXCEPT ![op[r].user].code = c, ![op[r].user].fresh = TRUE]
           /\ op' = [op EXCEPT ![r].code = c]
    BY <1>7 DEF SetOtp
  <2>3. mailed' = mailed /\ pc' = [pc EXCEPT ![r] = "mail"]
    BY <1>7 DEF SetOtp, Goto
  <2>4. op'[r] = [op[r] EXCEPT !.code = c] /\ pc'[r] = "mail"
    BY <2>2, <2>3 DEF TypeOK
  <2>5. op'[r].user = op[r].user /\ op'[r].do = "requestOtp" /\ op'[r].code = c
    BY <2>1, <2>4 DEF Op
  <2>6. PICK u \in User : u = op[r].user
    BY <2>1 DEF Op
  <2>7. account[u] \in AccountRow /\ account' = [account EXCEPT ![u] =
                                          [account[u] EXCEPT !.code = c, !.fresh = TRUE]]
    BY <2>1, <2>2, <2>6 DEF TypeOK
  <2>8. [account[u] EXCEPT !.code = c, !.fresh = TRUE].code = c
    BY <2>7 DEF AccountRow
  <2>9. account'[u].code = c /\ \A v \in User : v # u => account'[v] = account[v]
    BY <2>7, <2>8 DEF TypeOK
  <2>10. Unmailed(r)'
    BY <2>4, <2>5 DEF Unmailed, Sending
  <2> QED
    BY <2>1, <2>3, <2>5, <2>6, <2>9, <2>10, MailsNew DEF Sending
<1>8. ASSUME NEW r \in Request, Mail(r)
      PROVE  MailsAgree'
  <2>1. /\ Step(r) /\ pc[r] = "mail" /\ op[r] \in Op /\ op[r].do \in Sending
        /\ account' = account /\ mailed' = [mailed EXCEPT ![op[r].user] = op[r].code]
    BY <1>8 DEF Mail, Step, Purposes, TypeOK
  <2>2. PICK u \in User : u = op[r].user
    BY <2>1 DEF Op
  <2>3. mailed'[u] = op[r].code /\ \A v \in User : v # u => mailed'[v] = mailed[v]
    BY <2>1, <2>2 DEF TypeOK
  <2>4. pc'[r] \in {"send", "idle"}
    BY <1>8 DEF Mail, Finish, Goto, TypeOK
  <2>5. ~Unmailed(r)' /\ Unmailed(r)
    BY <2>1, <2>4 DEF Unmailed
  <2>6. \A q \in Request : q # r => (Unmailed(q)' <=> Unmailed(q)) /\ op'[q] = op[q]
    BY <2>1, OthersKeep DEF Unmailed, Sending
  <2>7. ASSUME NEW q \in Request
        PROVE  Agrees(q)'
    BY <2>1, <2>5, <2>6 DEF MailsAgree, Agrees, Stored
  <2>8. ASSUME NEW v \in User, Stored(v)
        PROVE  \/ mailed'[v] = account[v].code
               \/ \E q \in Request : Unmailed(q)' /\ op'[q].user = v /\ op'[q].code = account[v].code
    <3>1. CASE v = u
      <4>1. Agrees(r)
        BY DEF MailsAgree
      <4> QED
        BY <2>2, <2>3, <2>5, <2>8, <3>1, <4>1 DEF Agrees
    <3>2. CASE v # u
      <4>1. CASE mailed[v] = account[v].code
        BY <2>3, <3>2, <4>1
      <4>2. ASSUME NEW q \in Request, Unmailed(q), op[q].user = v, op[q].code = account[v].code
            PROVE  Unmailed(q)' /\ op'[q].user = v /\ op'[q].code = account[v].code
        BY <2>2, <2>6, <3>2, <4>2
      <4> QED
        BY <2>8, <4>1, <4>2 DEF MailsAgree
    <3> QED
      BY <3>1, <3>2
  <2> QED
    BY <2>1, <2>7, <2>8 DEF MailsAgree, Stored
<1>9. ASSUME NEW r \in Request, Clear(r)
      PROVE  MailsAgree'
  <2>1. /\ Step(r) /\ pc[r] = "clear" /\ pc' = [pc EXCEPT ![r] = "open"] /\ mailed' = mailed
        /\ account' = [account EXCEPT ![op[r].user] =
                          [verified |-> TRUE, code |-> NULL, fresh |-> FALSE]]
    BY <1>9 DEF Clear, Step, Goto
  <2>2. ~Unmailed(r) /\ ~Unmailed(r)' /\ op[r].user \in User
    BY <2>1 DEF Unmailed, TypeOK, Op
  <2>3. \A u \in User : account'[u] = account[u] \/ account'[u].code = NULL
    BY <2>1, <2>2 DEF TypeOK
  <2>4. \A u \in User : Stored(u)' => Stored(u) /\ account'[u].code = account[u].code
    BY <2>3 DEF Stored
  <2> QED
    BY <2>1, <2>2, <2>4, MailsAlone
<1>10. ASSUME NEW r \in Request, Store(r)
       PROVE  MailsAgree'
  <2>1. /\ Step(r) /\ pc[r] = "store" /\ op[r] \in Op /\ op' = op /\ UNCHANGED <<account, mailed>>
        /\ op[r].do # "requestOtp"
        /\ pc' = [pc EXCEPT ![r] = IF op[r].do = "signUp" THEN "mail" ELSE "send"]
    BY <1>10 DEF Store, Step, Goto, Purposes, TypeOK
  <2>2. CASE op[r].do = "signUp"
    <3>1. pc'[r] = "mail"
      BY <2>1, <2>2 DEF TypeOK
    <3>2. Unmailed(r) /\ Unmailed(r)'
      BY <2>1, <2>2, <3>1 DEF Unmailed, Sending
    <3>3. \A u \in User : Stored(u)' => Stored(u) /\ account'[u].code = account[u].code
      BY <2>1 DEF Stored
    <3> QED
      BY <2>1, <3>2, <3>3, MailsAlone
  <2>3. CASE op[r].do # "signUp"
    <3>1. ~Unmailed(r) /\ ~Unmailed(r)'
      BY <2>1, <2>3 DEF Unmailed, Sending
    <3> QED
      BY <2>1, <3>1, MailsSame
  <2> QED
    BY <2>2, <2>3
<1>11. ASSUME NEW r \in Request, Send(r) \/ Drop(r) \/ Delete(r)
       PROVE  MailsAgree'
  <2>1. Step(r) /\ pc[r] \notin {"store", "mail"}
    BY <1>11 DEF Send, Drop, Delete, Step
  <2>2. ASSUME ~Refuse(r)
        PROVE  pc'[r] \notin {"store", "mail"} /\ UNCHANGED <<account, mailed>>
    BY <1>11, <2>2 DEF Send, Drop, Delete, EndSession, Finish, Goto, TypeOK
  <2> QED
    BY <1>2, <1>3, <2>1, <2>2
<1>12. ASSUME NEW r \in Request, Fail(r)
       PROVE  FALSE
  BY <1>12 DEF Fail, TypeOK
<1>13. ASSUME NEW u \in User, LapseCode(u)
       PROVE  MailsAgree'
  <2>1. /\ account[u] # NULL /\ account' = [account EXCEPT ![u] = [account[u] EXCEPT !.fresh = FALSE]]
        /\ pc' = pc /\ op' = op /\ mailed' = mailed
    BY <1>13 DEF LapseCode
  <2>2. account[u] \in AccountRow
    BY <2>1 DEF TypeOK
  <2>3. [account[u] EXCEPT !.fresh = FALSE].code = account[u].code
    BY <2>2 DEF AccountRow
  <2>4. \A v \in User : account'[v] # NULL =>
           account[v] # NULL /\ account'[v].code = account[v].code
    BY <2>1, <2>3 DEF TypeOK
  <2>5. \A r \in Request : Unmailed(r) => op[r].user \in User
    BY DEF Unmailed, TypeOK, Op
  <2> QED
    <3>1. \A r \in Request : Agrees(r)'
      BY <2>1, <2>4, <2>5 DEF MailsAgree, Agrees, Stored, Unmailed, Sending
    <3>2. ASSUME NEW v \in User, Stored(v)'
          PROVE  \/ mailed'[v] = account'[v].code
                 \/ \E r \in Request : Unmailed(r)' /\ op'[r].user = v /\ op'[r].code = account'[v].code
      <4>1. Stored(v) /\ account'[v].code = account[v].code
        BY <2>4, <3>2 DEF Stored
      <4> QED
        BY <2>1, <4>1 DEF MailsAgree, Unmailed, Sending
    <3> QED
      BY <3>1, <3>2 DEF MailsAgree
<1>14. ASSUME \/ UNCHANGED vars
              \/ \E s \in Session : LapseSession(s)
       PROVE  MailsAgree'
  <2>1. UNCHANGED <<account, mailed, pc, op>>
    BY <1>14 DEF vars, LapseSession
  <2> QED
    BY <2>1 DEF MailsAgree, Agrees, Stored, Unmailed, Sending
<1> QED
  BY <1>1, <1>4, <1>5, <1>6, <1>7, <1>8, <1>9, <1>10, <1>11, <1>12, <1>13, <1>14 DEF Next, Step

LEMMA FailuresGrow == ASSUME TypeInv, [Next]_vars PROVE failures' = 0 => failures = 0 /\ failures' = failures
<1>1. ASSUME NEW r \in Request, Step(r), ~Fail(r)
      PROVE  failures' = failures
  BY <1>1 DEF Step, Start, Existing, Insert, FindUser, SetOtp, Mail, Match, Clear, Open, Store, Send,
              FindSession, Drop, Delete, Refuse, Finish, Goto
<1>2. ASSUME NEW r \in Request, Fail(r)
      PROVE  failures' # 0
  BY <1>2 DEF Fail, TypeInv, TypeOK
<1> QED
  BY <1>1, <1>2 DEF Next, LapseCode, LapseSession, vars

MailInv == calm => OneSends /\ (failures = 0 => MailsAgree)

\* While the codes of a user are sent one after the other and nothing fails, the
\* code in the row is the one last mailed or about to be (auth.service.ts lines
\* 240 to 269).
THEOREM StoredCodesAreMailed == Spec => []CalmStoredCodeIsMailed
<1>1. Init => TypeInv /\ MailInv
  <2>1. Init => MailInv
    BY DEF Init, MailInv, OneSends, MailsAgree, Agrees, Unmailed, Stored
  <2> QED
    BY <2>1, InitType
<1>2. TypeInv /\ MailInv /\ [Next]_vars => (TypeInv /\ MailInv)'
  BY NextType, NextSends, NextMails, FailuresGrow, CalmStays DEF MailInv
<1>3. TypeInv /\ MailInv => CalmStoredCodeIsMailed
  <2> SUFFICES ASSUME TypeInv, MailInv, calm, failures = 0, NEW u \in User, Stored(u),
                      mailed[u] # account[u].code
               PROVE  \E r \in Busy(u, Sending) :
                         pc[r] \in {"store", "mail"} /\ op[r].code = account[u].code
    BY DEF CalmStoredCodeIsMailed, Stored
  <2>1. PICK r \in Request : Unmailed(r) /\ op[r].user = u /\ op[r].code = account[u].code
    BY DEF MailInv, MailsAgree
  <2>2. r \in Busy(u, Sending)
    BY <2>1 DEF Busy, Unmailed
  <2> QED
    BY <2>1, <2>2 DEF Unmailed
<1> QED
  BY <1>1, <1>2, <1>3, PTL DEF Spec
-----------------------------------------------------------------------------
(* The handlers implement SessionBook: what a handler found out before it  *)
(* writes still holds when it does.                                        *)

\* A code that a handler is about to clear is there.
CodesThere == \A r \in Request : pc[r] = "clear" => account[op[r].user].code # NULL

BookInv == TypeInv /\ TokenInv /\ (calm => OneVerifies /\ CodesThere)

\* Only a handler that uses a code up takes it from the row.
LEMMA CodeTaken ==
    ASSUME TypeInv, [Next]_vars, NEW v \in User, account[v] # NULL,
           account[v].code # NULL, account'[v].code = NULL
    PROVE  \E r \in Request : Clear(r) /\ op[r].user = v
<1> USE DEF TypeInv, TypeOK
<1>0. account[v] \in AccountRow
  OBVIOUS
<1>1. ASSUME NEW r \in Request, Insert(r)
      PROVE  FALSE
  BY <1>1 DEF Insert, Refuse, tables
<1>2. ASSUME NEW r \in Request, SetOtp(r)
      PROVE  FALSE
  <2>1. PICK c \in Code : account' = [account EXCEPT ![op[r].user].code = c,
                                                     ![op[r].user].fresh = TRUE]
    BY <1>2 DEF SetOtp
  <2>2. CASE op[r].user = v
    <3>1. account'[v] = [account[v] EXCEPT !.code = c, !.fresh = TRUE]
      BY <2>1, <2>2
    <3>2. account'[v].code = c
      BY <1>0, <3>1 DEF AccountRow
    <3> QED
      BY <3>2, NullAssumption
  <2>3. CASE op[r].user # v
    BY <2>1, <2>3
  <2> QED
    BY <2>2, <2>3
<1>3. ASSUME NEW r \in Request, Clear(r)
      PROVE  op[r].user = v
  BY <1>3 DEF Clear
<1>4. ASSUME NEW u \in User, LapseCode(u)
      PROVE  FALSE
  <2>1. CASE u = v
    <3>1. account'[v] = [account[v] EXCEPT !.fresh = FALSE]
      BY <1>4, <2>1 DEF LapseCode
    <3> QED
      BY <1>0, <3>1 DEF AccountRow
  <2>2. CASE u # v
    BY <1>4, <2>2 DEF LapseCode
  <2> QED
    BY <2>1, <2>2
<1>5. ASSUME NEW r \in Request,
             \/ \E o \in Requests : Start(r, o)
             \/ Existing(r) \/ FindUser(r) \/ Match(r) \/ FindSession(r)
             \/ Mail(r) \/ Open(r) \/ Store(r) \/ Send(r) \/ Drop(r) \/ Delete(r) \/ Fail(r)
      PROVE  FALSE
  <2>1. account' = account
    BY <1>5 DEF Start, Existing, FindUser, Match, FindSession, Mail, Open, Store, Send,
                Drop, Delete, Fail, EndSession, Refuse, tables
  <2> QED
    BY <2>1
<1>6. ASSUME UNCHANGED vars \/ \E s \in Session : LapseSession(s)
      PROVE  FALSE
  BY <1>6 DEF vars, LapseSession
<1> QED
  BY <1>1, <1>2, <1>3, <1>4, <1>5, <1>6 DEF Next, Step

\* A handler comes to clear a code by having matched it.
LEMMA ClearEntered ==
    ASSUME TypeInv, [Next]_vars, NEW q \in Request, pc'[q] = "clear"
    PROVE  \/ pc[q] = "clear" /\ op'[q] = op[q]
           \/ /\ op'[q] = op[q] /\ account' = account
              /\ account[op[q].user].code # NULL
<1> USE DEF TypeInv, TypeOK
<1>1. ASSUME NEW r \in Request, r # q, Step(r)
      PROVE  pc[q] = "clear" /\ op'[q] = op[q]
  BY <1>1, OthersKeep
<1>2. ASSUME NEW o \in Requests, Start(q, o)
      PROVE  FALSE
  <2>1. o.do \in Do /\ pc'[q] = First[o.do]
    BY <1>2 DEF Start, Requests, Do
  <2> QED
    BY <2>1 DEF First, Do
<1>3. ASSUME Match(q)
      PROVE  /\ op'[q] = op[q] /\ account' = account
             /\ account[op[q].user].code # NULL
  <2>1. ~Refuse(q)
    BY DEF Refuse, Finish, Goto
  <2>2. account[op[q].user].code = op[q].code /\ UNCHANGED <<tables, op>>
    BY <1>3, <2>1 DEF Match
  <2>3. op[q].code \in Code
    BY <1>3 DEF Match, Purposes
  <2> QED
    BY <2>2, <2>3, NullAssumption DEF tables
<1>4. ASSUME NEW label, Goto(q, label), label # "clear"
      PROVE  FALSE
  BY <1>4 DEF Goto
<1>5. ASSUME Refuse(q) \/ Finish(q)
      PROVE  FALSE
  BY <1>5 DEF Refuse, Finish, Goto
<1>6. ASSUME Existing(q) \/ Insert(q) \/ FindUser(q) \/ SetOtp(q)
      PROVE  FALSE
  BY <1>4, <1>5, <1>6 DEF Existing, Insert, FindUser, SetOtp
<1>7. ASSUME Mail(q) \/ Clear(q) \/ Open(q) \/ Store(q) \/ Send(q)
      PROVE  FALSE
  BY <1>4, <1>5, <1>7 DEF Mail, Clear, Open, Store, Send
<1>8. ASSUME FindSession(q) \/ Drop(q) \/ Delete(q)
      PROVE  FALSE
  BY <1>4, <1>5, <1>8 DEF FindSession, Drop, Delete
<1>9. ASSUME Fail(q)
      PROVE  FALSE
  BY <1>9 DEF Fail
<1>10. ASSUME \/ UNCHANGED vars
              \/ \E u \in User : LapseCode(u)
              \/ \E s \in Session : LapseSession(s)
       PROVE  pc[q] = "clear" /\ op'[q] = op[q]
  BY <1>10 DEF vars, LapseCode, LapseSession
<1> QED
  BY <1>1, <1>2, <1>3, <1>6, <1>7, <1>8, <1>9, <1>10 DEF Next, Step

\* Nobody else verifies for the user meanwhile, so the code stays there.
LEMMA NextThere ==
    ASSUME TypeInv, OneVerifies, CodesThere, [Next]_vars
    PROVE  CodesThere'
<1> SUFFICES ASSUME NEW q \in Request, pc'[q] = "clear", account'[op'[q].user].code = NULL
             PROVE  FALSE
  BY DEF CodesThere
<1> DEFINE v == op[q].user
<1>1. pc[q] = "clear" /\ op'[q] = op[q]
  BY ClearEntered
<1>2. v \in User /\ account[v] # NULL /\ account[v].code # NULL
  BY <1>1 DEF CodesThere, TypeInv, TypeOK, Purposes, Knows, Op
<1>3. PICK r \in Request : Clear(r) /\ op[r].user = v
  BY <1>1, <1>2, CodeTaken
<1>4. op[r].do = "verifyOtp" /\ op[q].do = "verifyOtp" /\ pc[r] # "idle"
  BY <1>1, <1>3 DEF Clear, TypeInv, Purposes
<1>5. r = q
  BY <1>1, <1>3, <1>4 DEF OneVerifies
<1>6. pc'[r] = "open"
  BY <1>3 DEF Clear, Goto, TypeInv, TypeOK
<1> QED
  BY <1>5, <1>6

LEMMA InitBook == Init => BookInv /\ Book!Init
<1>1. Init => TokenInv /\ OneVerifies /\ CodesThere
  BY DEF Init, TokenInv, RowsMinted, Carries, OneVerifies, CodesThere
<1>2. Init => Book!Init
  BY DEF Init, Book!Init
<1> QED
  BY <1>1, <1>2, InitType DEF BookInv

LEMMA NextBookInv == ASSUME BookInv, [Next]_vars PROVE BookInv'
BY NextType, NextToken, NextVerifies, NextThere, CalmStays DEF BookInv

\* The rows that SessionBook speaks of.
Rows == <<account, session, minted, issued, drawn, accepted, calm>>

Held == {<<t.user, t.session>> : t \in issued}

LEMMA SameBook == UNCHANGED Rows => UNCHANGED Book!vars
BY DEF Rows, Book!vars

\* The other handlers' statements are seen in no row.
LEMMA QuietSteps ==
    ASSUME NEW r \in Request,
           \/ Refuse(r) \/ \E o \in Requests : Start(r, o)
           \/ Existing(r) \/ FindUser(r) \/ Match(r) \/ FindSession(r) \/ Mail(r)
    PROVE  UNCHANGED Book!vars
<1>1. UNCHANGED Rows
  BY DEF Rows, Refuse, Start, Existing, FindUser, Match, FindSession, Mail, Finish, Goto, tables
<1> QED
  BY <1>1, SameBook

\* The user a request is for.
LEMMA ForUser == ASSUME TypeInv, NEW r \in Request, pc[r] # "idle" PROVE op[r] \in Op /\ op[r].user \in User
BY DEF TypeInv, TypeOK, Op

LEMMA AccountBook ==
    ASSUME BookInv, NEW r \in Request, Insert(r) \/ SetOtp(r) \/ Clear(r)
    PROVE  Book!AccountCommand \/ UNCHANGED Book!vars
<1> USE DEF BookInv
<1>1. ASSUME Insert(r), ~Refuse(r)
      PROVE  Book!AccountCommand
  <2>1. PICK u \in User : u = op[r].user
    BY <1>1, ForUser DEF Insert
  <2>2. PICK s \in Session \ minted, c \in Code :
          /\ account' = [account EXCEPT ![u] =
                            [verified |-> FALSE, code |-> c, fresh |-> TRUE]]
          /\ session' = [session EXCEPT ![s] =
                            [user |-> u, digest |-> NULL, live |-> TRUE]]
          /\ minted' = minted \cup {s}
    BY <1>1, <2>1 DEF Insert
  <2>3. /\ account[u] = NULL /\ drawn' = [drawn EXCEPT ![u] = @ + 1]
        /\ UNCHANGED <<issued, accepted, calm>>
    BY <1>1, <2>1 DEF Insert, Goto
  <2>4. Book!SignUp(u, c, s)
    BY <2>2, <2>3 DEF Book!SignUp, Book!Opens
  <2> QED
    BY <2>4 DEF Book!AccountCommand
<1>2. ASSUME SetOtp(r)
      PROVE  Book!AccountCommand
  <2>1. PICK u \in User : u = op[r].user
    BY <1>2, ForUser DEF SetOtp
  <2>2. PICK c \in Code :
          account' = [account EXCEPT ![u].code = c, ![u].fresh = TRUE]
    BY <1>2, <2>1 DEF SetOtp
  <2>3. /\ account[u] # NULL /\ drawn' = [drawn EXCEPT ![u] = @ + 1]
        /\ UNCHANGED <<session, minted, issued, accepted, calm>>
    BY <1>2, <2>1 DEF SetOtp, Goto, TypeInv, Purposes, Knows
  <2>4. Book!Draw(u, c)
    BY <2>2, <2>3 DEF Book!Draw
  <2> QED
    BY <2>4 DEF Book!AccountCommand
<1>3. ASSUME Clear(r)
      PROVE  Book!AccountCommand
  <2>1. PICK u \in User : u = op[r].user
    BY <1>3, ForUser DEF Clear
  <2>2. account[u] # NULL /\ (calm => account[u].code # NULL)
    BY <1>3, <2>1 DEF Clear, CodesThere, TypeInv, Purposes, Knows
  <2>3. /\ account' = [account EXCEPT ![u] =
                          [verified |-> TRUE, code |-> NULL, fresh |-> FALSE]]
        /\ accepted' = [accepted EXCEPT ![u] = @ + 1]
        /\ UNCHANGED <<session, minted, issued, drawn, calm>>
    BY <1>3, <2>1 DEF Clear, Goto
  <2>4. Book!Verify(u)
    BY <2>2, <2>3 DEF Book!Verify
  <2> QED
    BY <2>4 DEF Book!AccountCommand
<1> QED
  BY <1>1, <1>2, <1>3, QuietSteps

\* A token that is handed out passes the comparison of its session.
LEMMA HandOutBook ==
    ASSUME BookInv, NEW r \in Request, Good(op[r].user, op[r].session),
           op[r].user \in User, issued' = issued \cup {Signed(op[r])},
           UNCHANGED <<account, session, minted, drawn, accepted, calm>>
    PROVE  Book!SessionCommand
<1>1. PICK u, s : u \in User /\ u = op[r].user /\ s = op[r].session
  OBVIOUS
<1>2. s \in minted /\ (session[s] # NULL => session[s].user = u /\ session[s].digest = u)
  BY <1>1 DEF Good
<1>3. s \in Session
  BY <1>2 DEF BookInv, TypeInv, TypeOK
<1>4. Signed(op[r]).user = u /\ Signed(op[r]).session = s
  BY <1>1 DEF Signed
<1>5. Held' = Held \cup {<<u, s>>}
  BY <1>4 DEF Held
<1>6. Book!HandOut(u, s)
  BY <1>2, <1>5 DEF Book!HandOut, Held
<1> QED
  BY <1>1, <1>3, <1>6 DEF Book!SessionCommand

LEMMA EndBook ==
    ASSUME BookInv, NEW s, EndSession(s), UNCHANGED calm
    PROVE  Book!SessionCommand \/ UNCHANGED Book!vars
<1>1. CASE s \notin Session \/ session[s] = NULL
  <2>1. session' = session
    BY <1>1 DEF EndSession, BookInv, TypeInv, TypeOK
  <2> QED
    BY <2>1, SameBook DEF Rows, EndSession
<1>2. CASE s \in Session /\ session[s] # NULL
  <2>1. Book!End(s)
    BY <1>2 DEF EndSession, Book!End
  <2> QED
    BY <1>2, <2>1 DEF Book!SessionCommand
<1> QED
  BY <1>1, <1>2

\* A row gets the digest of its own user.
LEMMA StoreBook ==
    ASSUME BookInv, NEW r \in Request, Store(r)
    PROVE  Book!SessionCommand \/ UNCHANGED Book!vars
<1>1. PICK s \in Session : s = op[r].session
  BY DEF Store, BookInv, TypeInv, Purposes
<1>2. UNCHANGED <<account, minted, issued, drawn, accepted, calm>>
  BY DEF Store, Goto
<1>3. CASE session[s] = NULL
  <2>1. session' = session
    BY <1>1, <1>3 DEF Store, BookInv, TypeInv, TypeOK
  <2> QED
    BY <1>2, <2>1, SameBook DEF Rows
<1>4. CASE session[s] # NULL
  <2>1. PICK live \in BOOLEAN :
          /\ session' = [session EXCEPT ![s] = [user |-> session[s].user,
                            digest |-> Digest(Signed(op[r])), live |-> live]]
          /\ session[s].live => live
    <3>1. session[s].live \in BOOLEAN
      BY <1>4 DEF BookInv, TypeInv, TypeOK, SessionRow
    <3> DEFINE live == session[s].live \/ op[r].do = "refreshToken"
    <3>2. session' = [session EXCEPT ![s] = [user |-> session[s].user,
                         digest |-> Digest(Signed(op[r])), live |-> live]]
      BY <1>1, <1>4 DEF Store
    <3>3. live \in BOOLEAN
      BY <3>1
    <3> QED
      BY <3>2, <3>3
  <2>2. Digest(Signed(op[r])) = session[s].user
    <3>1. Known(op[r].user, s)
      BY <1>1 DEF Store, BookInv, TokenInv, Carries
    <3> QED
      BY <1>4, <3>1 DEF Known, Digest, Signed
  <2>3. session' = [session EXCEPT ![s] = [user |-> session[s].user,
                       digest |-> session[s].user, live |-> live]]
    BY <2>1, <2>2
  <2>4. Book!Rotate(s, live)
    BY <1>2, <1>4, <2>1, <2>3 DEF Book!Rotate
  <2> QED
    BY <2>4 DEF Book!SessionCommand
<1> QED
  BY <1>3, <1>4

LEMMA SessionBookStep ==
    ASSUME BookInv, NEW r \in Request,
           Open(r) \/ Send(r) \/ Drop(r) \/ Delete(r) \/ Fail(r)
    PROVE  Book!SessionCommand \/ UNCHANGED Book!vars
<1> USE DEF BookInv
<1>1. ASSUME Open(r)
      PROVE  Book!SessionCommand
  <2>1. PICK u \in User : u = op[r].user
    BY <1>1, ForUser DEF Open
  <2>2. PICK s \in Session \ minted :
          /\ session' = [session EXCEPT ![s] = [user |-> u, digest |-> NULL, live |-> TRUE]]
          /\ minted' = minted \cup {s}
    BY <1>1, <2>1 DEF Open
  <2>3. account[u] # NULL /\ UNCHANGED <<account, issued, drawn, accepted, calm>>
    BY <1>1, <2>1 DEF Open, Goto, TypeInv, Purposes, Knows
  <2>4. Book!SignIn(u, s)
    BY <2>2, <2>3 DEF Book!SignIn, Book!Opens
  <2> QED
    BY <2>4 DEF Book!SessionCommand
<1>2. ASSUME Send(r)
      PROVE  Book!SessionCommand
  <2>1. Good(op[r].user, op[r].session) /\ op[r].user \in User
    BY <1>2, ForUser DEF Send, TokenInv, Carries
  <2>2. /\ issued' = issued \cup {Signed(op[r])}
        /\ UNCHANGED <<account, session, minted, drawn, accepted, calm>>
    BY <1>2 DEF Send, Finish, Goto
  <2> QED
    BY <2>1, <2>2, HandOutBook
<1>3. ASSUME Drop(r) \/ Delete(r)
      PROVE  Book!SessionCommand \/ UNCHANGED Book!vars
  <2>1. CASE Refuse(r)
    BY <2>1, QuietSteps
  <2>2. CASE ~Refuse(r)
    <3>1. EndSession(op[r].session) /\ UNCHANGED calm
      BY <1>3, <2>2 DEF Drop, Delete, Finish, Goto
    <3> QED
      BY <3>1, EndBook
  <2> QED
    BY <2>1, <2>2
<1>4. ASSUME Fail(r)
      PROVE  Book!SessionCommand \/ UNCHANGED Book!vars
  <2>1. UNCHANGED <<account, session, minted, drawn, accepted, calm>>
    BY <1>4 DEF Fail
  <2>2. CASE issued' = issued
    BY <2>1, <2>2, SameBook DEF Rows
  <2>3. CASE pc[r] = "mail" /\ op[r].do = "signUp" /\ issued' = issued \cup {Signed(op[r])}
    <3>1. Good(op[r].user, op[r].session) /\ op[r].user \in User
      BY <2>3, ForUser DEF TokenInv, Carries
    <3> QED
      BY <2>1, <2>3, <3>1, HandOutBook
  <2> QED
    BY <1>4, <2>2, <2>3 DEF Fail
<1> QED
  BY <1>1, <1>2, <1>3, <1>4

LEMMA LapseBook ==
    /\ \A u \in User : LapseCode(u) => Book!AccountCommand
    /\ \A s \in Session : LapseSession(s) => Book!SessionCommand
<1>1. ASSUME NEW u \in User, LapseCode(u)
      PROVE  Book!AccountCommand
  <2>1. Book!LapseCode(u)
    BY <1>1 DEF LapseCode, Book!LapseCode
  <2> QED
    BY <2>1 DEF Book!AccountCommand
<1>2. ASSUME NEW s \in Session, LapseSession(s)
      PROVE  Book!SessionCommand
  <2>1. Book!LapseSession(s)
    BY <1>2 DEF LapseSession, Book!LapseSession
  <2> QED
    BY <2>1 DEF Book!SessionCommand
<1> QED
  BY <1>1, <1>2

LEMMA NextBook == ASSUME BookInv, [Next]_vars PROVE [Book!Next]_(Book!vars)
<1>1. ASSUME UNCHANGED vars
      PROVE  UNCHANGED Book!vars
  BY <1>1, SameBook DEF vars, Rows
<1> QED
  BY <1>1, AccountBook, SessionBookStep, StoreBook, QuietSteps, LapseBook
     DEF Next, Step, Book!Next

\* Whatever requests overlap and whichever statement fails, the tables change by
\* the whole commands of SessionBook.
THEOREM HandlersImplementBook == Spec => RefinesBook
<1>1. Init => BookInv /\ Book!Init
  BY InitBook
<1>2. BookInv /\ [Next]_vars => BookInv'
  BY NextBookInv
<1>3. BookInv /\ [Next]_vars => [Book!Next]_(Book!vars)
  BY NextBook
<1> QED
  BY <1>1, <1>2, <1>3, PTL DEF Spec, RefinesBook, Book!Spec
=============================================================================
