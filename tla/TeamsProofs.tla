------------------------------ MODULE TeamsProofs ------------------------------
(***************************************************************************)
(* What Teams guarantees for every number of users, teams, roles, invites  *)
(* and requests.                                                           *)
(***************************************************************************)
EXTENDS Teams, TLAPS

-----------------------------------------------------------------------------
(* Types, and which handler runs which statement.                          *)

LEMMA NeedDomain ==
    DOMAIN Need = {"rename", "deleteTeam", "setRole", "deleteMember", "insertRole",
                   "changeRole", "dropRole", "insertInvite", "revoke"}
BY DEF Need

\* What a request names exists, or existed.
Named(o) ==
    /\ o.do \in DOMAIN Need => o.team \in Team \cap minted
    /\ o.do \in {"setRole", "deleteMember", "insertInvite"} => o.whom \in User
    /\ o.do \in {"setRole", "insertInvite"} => o.role \in System \cup (Role \cap minted)
    /\ o.do \in {"changeRole", "dropRole"} => o.role \in Role \cap minted
    /\ o.do \in {"revoke", "join", "decline"} => o.invite \in Invite \cap minted

\* The operations that run the statement `label`.
Runs(label, do) ==
    /\ label \in Do => do = label
    /\ label \in {"access", "member"} => do \in DOMAIN Need
    /\ label = "isDefault" => do = "deleteTeam"
    /\ label = "usable" => do \in {"setRole", "insertInvite"}
    /\ label = "owner" => do \in {"setRole", "deleteMember"}
    /\ label = "existing" => do = "insertInvite"
    /\ label \in {"load", "expire"} => do \in {"join", "decline"}

Fits(r) == pc[r] # "idle" => Named(op[r]) /\ Runs(pc[r], op[r].do)

Local ==
    /\ op \in [Request -> Op \cup {NULL}] /\ pc \in [Request -> Pc]
    /\ \A r \in Request : op[r] = NULL <=> pc[r] = "idle"
    /\ \A r \in Request : Fits(r)

TypeInv == TypeOK /\ Local

OthersKeep(r) == \A q \in Request : q # r => pc'[q] = pc[q] /\ op'[q] = op[q]

LEMMA LocalFinish ==
    ASSUME TypeInv, NEW r \in Request, Finish(r), minted \subseteq minted'
    PROVE  Local' /\ OthersKeep(r) /\ pc'[r] = "idle"
<1>1. OthersKeep(r) /\ pc'[r] = "idle" /\ op'[r] = NULL
  BY DEF Finish, TypeInv, TypeOK, OthersKeep
<1>2. op' \in [Request -> Op \cup {NULL}] /\ pc' \in [Request -> Pc]
  BY DEF Finish, TypeInv, TypeOK, Pc
<1>3. \A q \in Request : Fits(q)'
  BY <1>1 DEF TypeInv, Local, OthersKeep, Fits, Named
<1> QED
  BY <1>1, <1>2, <1>3 DEF TypeInv, Local, OthersKeep

LEMMA LocalGoto ==
    ASSUME TypeInv, NEW r \in Request, NEW label \in Pc \ {"idle"}, pc[r] # "idle",
           Goto(r, label), Runs(label, op[r].do), minted' = minted
    PROVE  Local' /\ OthersKeep(r) /\ pc'[r] = label
<1>1. OthersKeep(r) /\ pc'[r] = label /\ op' = op
  BY DEF Goto, TypeInv, TypeOK, OthersKeep
<1>2. pc' \in [Request -> Pc]
  BY DEF Goto, TypeInv, TypeOK
<1>3. \A q \in Request : Fits(q)'
  BY <1>1 DEF TypeInv, Local, OthersKeep, Fits, Named
<1> QED
  BY <1>1, <1>2, <1>3 DEF TypeInv, Local, OthersKeep

\* Any step but a Start ends r, or takes it to another statement of its request.
Moves(r) ==
    /\ pc[r] # "idle"
    /\ \/ Finish(r)
       \/ \E label \in Pc \ {"idle"} : Goto(r, label) /\ Runs(label, op[r].do) /\ UNCHANGED tables

LEMMA StepMoves ==
    ASSUME TypeInv, NEW r \in Request, Step(r),
           ~ \E do \in Do : \E o \in Requests(do) : Start(r, o)
    PROVE  Moves(r)
<1>0. pc[r] # "idle" => op[r] \in Op /\ Runs(pc[r], op[r].do)
  BY DEF TypeInv, TypeOK, Local, Fits
<1>1. \A do \in DOMAIN Need : Body(do) \in Pc \ {"idle"} /\ Runs(Body(do), do)
  <2>1. \A do \in DOMAIN Need : do \in Pc \ {"idle"} /\ do \in Do
    BY NeedDomain DEF Pc, Do
  <2> SUFFICES ASSUME NEW do \in DOMAIN Need
               PROVE  Body(do) \in Pc \ {"idle"} /\ Runs(Body(do), do)
    OBVIOUS
  <2>2. CASE do \in {"deleteTeam", "setRole", "insertInvite", "deleteMember"}
    BY <2>2, NeedDomain DEF Body, Runs, Pc, Do
  <2>3. CASE do \in {"rename", "insertRole", "changeRole", "dropRole", "revoke"}
    BY <2>3, NeedDomain DEF Body, Runs, Pc, Do
  <2> QED
    BY <2>2, <2>3, NeedDomain
<1>2. ASSUME NEW label \in Pc \ {"idle"}, Goto(r, label), Runs(label, op[r].do), UNCHANGED tables,
             pc[r] # "idle"
      PROVE  Moves(r)
  BY <1>2 DEF Moves
<1>3. ASSUME Refuse(r) \/ Finish(r), pc[r] # "idle"
      PROVE  Moves(r)
  BY <1>3 DEF Refuse, Moves
<1>4. ASSUME Access(r)
      PROVE  Moves(r)
  <2>1. pc[r] = "access" /\ op[r].do \in DOMAIN Need
    BY <1>0, <1>4, NeedDomain DEF Access, Runs, Do
  <2>2. "member" \in Pc \ {"idle"} /\ Runs("member", op[r].do)
    BY <2>1, NeedDomain DEF Runs, Pc, Do
  <2> QED
    BY <1>1, <1>2, <1>3, <1>4, <2>1, <2>2 DEF Access
<1>5. ASSUME Membership(r)
      PROVE  Moves(r)
  <2>1. pc[r] = "member" /\ op[r].do \in DOMAIN Need
    BY <1>0, <1>5, NeedDomain DEF Membership, Runs, Do
  <2> QED
    BY <1>1, <1>2, <1>3, <1>5, <2>1 DEF Membership
<1>6. ASSUME IsDefault(r)
      PROVE  Moves(r)
  <2>1. pc[r] = "isDefault" /\ op[r].do = "deleteTeam"
    BY <1>0, <1>6, NeedDomain DEF IsDefault, Runs, Do
  <2>2. "deleteTeam" \in Pc \ {"idle"} /\ Runs("deleteTeam", op[r].do)
    BY <2>1, NeedDomain DEF Runs, Pc, Do
  <2> QED
    BY <1>2, <1>3, <1>6, <2>1, <2>2 DEF IsDefault
<1>7. ASSUME Usable(r)
      PROVE  Moves(r)
  <2>1. pc[r] = "usable" /\ op[r].do \in {"setRole", "insertInvite"}
    BY <1>0, <1>7, NeedDomain DEF Usable, Runs, Do
  <2>2. /\ "owner" \in Pc \ {"idle"} /\ "existing" \in Pc \ {"idle"}
        /\ op[r].do = "setRole" => Runs("owner", op[r].do)
        /\ op[r].do # "setRole" => Runs("existing", op[r].do)
    BY <2>1, NeedDomain DEF Runs, Pc, Do
  <2> QED
    BY <1>2, <1>3, <1>7, <2>1, <2>2 DEF Usable
<1>8. ASSUME OwnerOf(r)
      PROVE  Moves(r)
  <2>1. pc[r] = "owner" /\ op[r].do \in {"setRole", "deleteMember"}
    BY <1>0, <1>8, NeedDomain DEF OwnerOf, Runs, Do
  <2>2. op[r].do \in Pc \ {"idle"} /\ Runs(op[r].do, op[r].do)
    BY <2>1, NeedDomain DEF Runs, Pc, Do
  <2> QED
    BY <1>2, <1>3, <1>8, <2>1, <2>2 DEF OwnerOf
<1>9. ASSUME Existing(r)
      PROVE  Moves(r)
  <2>1. pc[r] = "existing" /\ op[r].do = "insertInvite"
    BY <1>0, <1>9, NeedDomain DEF Existing, Runs, Do
  <2>2. "insertInvite" \in Pc \ {"idle"} /\ Runs("insertInvite", op[r].do)
    BY <2>1, NeedDomain DEF Runs, Pc, Do
  <2> QED
    BY <1>2, <1>3, <1>9, <2>1, <2>2 DEF Existing
<1>10. ASSUME Load(r)
       PROVE  Moves(r)
  <2>1. pc[r] = "load" /\ op[r].do \in {"join", "decline"}
    BY <1>0, <1>10, NeedDomain DEF Load, Runs, Do
  <2>2. /\ "expire" \in Pc \ {"idle"} /\ Runs("expire", op[r].do)
        /\ op[r].do \in Pc \ {"idle"} /\ Runs(op[r].do, op[r].do)
    BY <2>1, NeedDomain DEF Runs, Pc, Do
  <2> QED
    BY <1>2, <1>3, <1>10, <2>1, <2>2 DEF Load
<1>11. ASSUME InsertTeam(r) \/ Rename(r) \/ DeleteTeam(r) \/ SetRole(r) \/ DeleteMember(r)
              \/ InsertRole(r) \/ ChangeRole(r) \/ DropRole(r)
       PROVE  Moves(r)
  BY <1>3, <1>11 DEF InsertTeam, Rename, DeleteTeam, SetRole, DeleteMember, InsertRole, ChangeRole,
                     DropRole
<1>12. ASSUME InsertInvite(r) \/ Revoke(r) \/ Expire(r) \/ Decline(r) \/ Join(r)
       PROVE  Moves(r)
  BY <1>3, <1>12 DEF InsertInvite, Revoke, Expire, Decline, Join
<1> QED
  BY <1>4, <1>5, <1>6, <1>7, <1>8, <1>9, <1>10, <1>11, <1>12 DEF Step

LEMMA StepLocal ==
    ASSUME TypeInv, NEW r \in Request, Step(r), minted \subseteq minted'
    PROVE  Local' /\ OthersKeep(r)
<1>1. ASSUME NEW do \in Do, NEW o \in Requests(do), Start(r, o)
      PROVE  Local' /\ OthersKeep(r)
  <2> DEFINE label == CASE o.do = "insertTeam" -> "insertTeam"
                        [] o.do \in {"join", "decline"} -> "load"
                        [] OTHER -> "access"
  <2>1. /\ op' = [op EXCEPT ![r] = o] /\ pc' = [pc EXCEPT ![r] = label] /\ minted' = minted
    BY <1>1 DEF Start, tables
  <2>2. o \in Op /\ Named(o) /\ o.do \in Do
    <3>1. o \in Op
      BY DEF Requests, Given, Op
    <3> QED
      BY <3>1, NeedDomain DEF Requests, Given, Named, Do
  <2>3. label \in Pc \ {"idle"} /\ Runs(label, o.do)
    <3>1. CASE o.do = "insertTeam"
      BY <3>1, NeedDomain DEF Runs, Pc, Do
    <3>2. CASE o.do \in {"join", "decline"}
      BY <3>2, NeedDomain DEF Runs, Pc, Do
    <3>3. CASE o.do \in DOMAIN Need
      BY <3>3, NeedDomain DEF Runs, Pc, Do
    <3> QED
      BY <2>2, <3>1, <3>2, <3>3 DEF Do
  <2> HIDE DEF label
  <2>4. OthersKeep(r) /\ pc'[r] = label /\ op'[r] = o
    BY <2>1 DEF TypeInv, TypeOK, OthersKeep
  <2>5. op' \in [Request -> Op \cup {NULL}] /\ pc' \in [Request -> Pc]
    BY <2>1, <2>2, <2>3 DEF TypeInv, TypeOK
  <2>6. \A q \in Request : op'[q] = NULL <=> pc'[q] = "idle"
    BY <2>2, <2>3, <2>4, NullAssumption DEF TypeInv, TypeOK, OthersKeep
  <2>7. \A q \in Request : Fits(q)'
    BY <2>1, <2>2, <2>3, <2>4 DEF TypeInv, Local, OthersKeep, Fits, Named
  <2> QED
    BY <2>4, <2>5, <2>6, <2>7 DEF Local
<1>2. ASSUME Moves(r)
      PROVE  Local' /\ OthersKeep(r)
  <2>1. CASE Finish(r)
    BY <2>1, LocalFinish
  <2>2. ASSUME NEW label \in Pc \ {"idle"}, Goto(r, label), Runs(label, op[r].do), UNCHANGED tables
        PROVE  Local' /\ OthersKeep(r)
    BY <1>2, <2>2, LocalGoto DEF Moves, tables
  <2> QED
    BY <1>2, <2>1, <2>2 DEF Moves
<1> QED
  BY <1>1, <1>2, StepMoves

-----------------------------------------------------------------------------
(* Rows.  Ids are handed out once, so what a handler learned of a row stays *)
(* true of it until it is gone, however long the handler takes.            *)

TablesType ==
    /\ team \in [Team -> TeamRow \cup {NULL}]
    /\ member \in [Team -> [User -> Role \cup System \cup {NULL}]]
    /\ role \in [Role -> RoleRow \cup {NULL}]
    /\ invite \in [Invite -> InviteRow \cup {NULL}]
    /\ minted \subseteq Team \cup Role \cup Invite
    /\ requests \in Nat /\ admitted \in [Invite -> Nat] /\ calm \in BOOLEAN

Ids ==
    /\ \A t \in Team : team[t] # NULL => t \in minted
    /\ \A c \in Role : role[c] # NULL => c \in minted
    /\ \A i \in Invite : invite[i] # NULL => i \in minted

\* What r has checked before it writes.
Knows(r) ==
    LET o == op[r] IN
    /\ pc[r] \in {"setRole", "deleteMember"} =>
          (team[o.team] # NULL => team[o.team].owner # o.whom)
    /\ pc[r] \in {"setRole", "existing", "insertInvite"} \/ (pc[r] = "owner" /\ o.do = "setRole") =>
          (o.role \in System \/ (role[o.role] # NULL => role[o.role].team = o.team))
    /\ pc[r] \in {"join", "decline"} =>
          (invite[o.invite] # NULL => invite[o.invite].email = o.user)

RowsOK == Ids /\ OwnerStaysAdmin /\ RolesFit /\ MembersWereInvited

Inv == TypeInv /\ RowsOK /\ \A r \in Request : Knows(r)

\* What no step takes back.
Evolve ==
    /\ minted \subseteq minted'
    /\ \A t \in Team \cap minted : team'[t] # NULL =>
           team[t] # NULL /\ team'[t].owner = team[t].owner
    /\ \A c \in Role \cap minted : role'[c] # NULL =>
           role[c] # NULL /\ role'[c].team = role[c].team
    /\ \A i \in Invite \cap minted : invite'[i] # NULL =>
           invite[i] # NULL /\ invite'[i].email = invite[i].email

LEMMA KnowsStays ==
    ASSUME Inv, Evolve, NEW q \in Request, pc'[q] = pc[q], op'[q] = op[q]
    PROVE  Knows(q)'
<1> DEFINE o == op[q]
<1>1. CASE pc[q] = "idle"
  BY <1>1 DEF Knows
<1>2. CASE pc[q] # "idle"
  <2>1. Fits(q)
    BY DEF Inv, TypeInv, Local
  <2>2. /\ pc[q] \in {"setRole", "deleteMember"} => o.team \in Team \cap minted
        /\ pc[q] \in {"setRole", "existing", "insertInvite"} \/ (pc[q] = "owner" /\ o.do = "setRole") =>
              o.role \in System \cup (Role \cap minted)
        /\ pc[q] \in {"join", "decline"} => o.invite \in Invite \cap minted
    <3>1. Named(o) /\ Runs(pc[q], o.do)
      BY <1>2, <2>1 DEF Fits
    <3>2. /\ pc[q] \in {"setRole", "deleteMember", "insertInvite", "join", "decline"} => o.do = pc[q]
          /\ pc[q] = "existing" => o.do = "insertInvite"
      BY <3>1, NeedDomain DEF Runs, Do
    <3> QED
      BY <3>1, <3>2, NeedDomain DEF Named
  <2>3. Knows(q)
    BY DEF Inv
  <2> QED
    BY <2>2, <2>3 DEF Knows, Evolve
<1> QED
  BY <1>1, <1>2

\* A step that writes rows: r ends, or nobody moves.
LEMMA Written ==
    ASSUME Inv, Local', \A q \in Request : pc'[q] = "idle" \/ (pc'[q] = pc[q] /\ op'[q] = op[q]),
           TablesType', Evolve, RowsOK'
    PROVE  Inv'
<1>1. ASSUME NEW q \in Request
      PROVE  Knows(q)'
  <2>1. CASE pc'[q] = "idle"
    BY <2>1 DEF Knows
  <2>2. CASE pc'[q] = pc[q] /\ op'[q] = op[q]
    BY <2>2, KnowsStays
  <2> QED
    BY <2>1, <2>2
<1>2. TypeOK'
  BY DEF TypeOK, TablesType, Local
<1> QED
  BY <1>1, <1>2 DEF Inv, TypeInv

LEMMA FinishWritten ==
    ASSUME Inv, NEW r \in Request, Finish(r), TablesType', Evolve, RowsOK'
    PROVE  Inv'
<1>1. Local' /\ OthersKeep(r) /\ pc'[r] = "idle"
  BY LocalFinish DEF Inv, Evolve
<1> QED
  BY <1>1, Written DEF OthersKeep

LEMMA TypesHold == ASSUME Inv PROVE TablesType
BY DEF Inv, TypeInv, TypeOK, TablesType

LEMMA TablesSame == ASSUME Inv, UNCHANGED tables PROVE Evolve /\ RowsOK'
BY DEF Inv, tables, Evolve, RowsOK, Ids, OwnerStaysAdmin, RolesFit, RolesOf, CustomRoles, MembersWereInvited

LEMMA RefuseInv == ASSUME Inv, NEW r \in Request, Refuse(r) PROVE Inv'
<1>1. Finish(r) /\ UNCHANGED tables
  BY DEF Refuse
<1>2. TablesType'
  BY <1>1, TypesHold DEF TablesType, Finish, tables
<1> QED
  BY <1>1, <1>2, TablesSame, FinishWritten

\* A step that only reads: r has learned what Knows asks of its next statement.
LEMMA ReadInv ==
    ASSUME Inv, NEW r \in Request, Moves(r), NEW label \in Pc \ {"idle"}, Goto(r, label),
           Step(r), UNCHANGED tables,
           label \in {"setRole", "deleteMember"} =>
               (team[op[r].team] # NULL => team[op[r].team].owner # op[r].whom),
           label \in {"setRole", "existing", "insertInvite"} \/ (label = "owner" /\ op[r].do = "setRole") =>
               (op[r].role \in System \/ (role[op[r].role] # NULL => role[op[r].role].team = op[r].team)),
           label \in {"join", "decline"} =>
               (invite[op[r].invite] # NULL => invite[op[r].invite].email = op[r].user)
    PROVE  Inv'
<1>1. pc'[r] = label /\ op' = op
  BY DEF Goto, Inv, TypeInv, TypeOK
<1>2. Local' /\ OthersKeep(r)
  BY StepLocal DEF Inv, tables
<1>3. Knows(r)'
  BY <1>1 DEF Knows, tables
<1>4. \A q \in Request : Knows(q)'
  BY <1>2, <1>3, TablesSame, KnowsStays DEF OthersKeep
<1>5. TablesType'
  BY TypesHold DEF TablesType, Goto, tables
<1>6. TypeOK'
  BY <1>2, <1>5 DEF TypeOK, TablesType, Local
<1> QED
  BY <1>2, <1>4, <1>6, TablesSame DEF Inv, TypeInv

LEMMA StartInv ==
    ASSUME Inv, NEW r \in Request, NEW do \in Do, NEW o \in Requests(do), Start(r, o) PROVE Inv'
<1>1. UNCHANGED tables /\ requests' = requests + 1 /\ calm' = calm
  BY DEF Start
<1>2. Local' /\ OthersKeep(r)
  BY <1>1, StepLocal DEF Inv, Step, tables
<1>3. pc'[r] \in {"insertTeam", "load", "access"}
  <2>1. pc' = [pc EXCEPT ![r] = CASE o.do = "insertTeam" -> "insertTeam"
                                  [] o.do \in {"join", "decline"} -> "load"
                                  [] OTHER -> "access"]
    BY DEF Start
  <2> QED
    BY <2>1 DEF Inv, TypeInv, TypeOK
<1>4. Knows(r)'
  BY <1>3 DEF Knows
<1>5. \A q \in Request : Knows(q)'
  BY <1>1, <1>2, <1>4, TablesSame, KnowsStays DEF OthersKeep
<1>6. TablesType'
  BY <1>1, TypesHold DEF TablesType, tables
<1>7. TypeOK'
  BY <1>2, <1>6 DEF TypeOK, TablesType, Local
<1> QED
  BY <1>1, <1>2, <1>5, <1>7, TablesSame DEF Inv, TypeInv

-----------------------------------------------------------------------------
(* The statements that read.                                               *)

LEMMA ReadersInv ==
    ASSUME Inv, NEW r \in Request,
           Access(r) \/ Membership(r) \/ IsDefault(r) \/ Usable(r) \/ OwnerOf(r) \/ Existing(r) \/ Load(r)
    PROVE  Inv'
<1>0. Step(r) /\ pc[r] # "idle"
  BY DEF Step, Access, Membership, IsDefault, Usable, OwnerOf, Existing, Load
<1>1. ~ \E do \in Do : \E o \in Requests(do) : Start(r, o)
  BY <1>0 DEF Start
<1>2. Moves(r) /\ op[r] \in Op /\ Runs(pc[r], op[r].do) /\ Named(op[r])
  BY <1>0, <1>1, StepMoves DEF Inv, TypeInv, TypeOK, Local, Fits
<1>3. \A do \in DOMAIN Need : Body(do) \in Pc \ {"idle", "setRole", "existing", "insertInvite",
                                                   "deleteMember", "join", "decline"}
                            /\ (Body(do) = "owner" => do = "deleteMember")
  <2> SUFFICES ASSUME NEW do \in DOMAIN Need
               PROVE  /\ Body(do) \in Pc \ {"idle", "setRole", "existing", "insertInvite",
                                              "deleteMember", "join", "decline"}
                      /\ Body(do) = "owner" => do = "deleteMember"
    OBVIOUS
  <2>2. CASE do \in {"deleteTeam", "setRole", "insertInvite", "deleteMember"}
    BY <2>2, NeedDomain DEF Body, Pc, Do
  <2>3. CASE do \in {"rename", "insertRole", "changeRole", "dropRole", "revoke"}
    BY <2>3, NeedDomain DEF Body, Pc, Do
  <2> QED
    BY <2>2, <2>3, NeedDomain
<1>4. CASE Refuse(r)
  BY <1>4, RefuseInv
<1> SUFFICES ASSUME ~Refuse(r) PROVE Inv'
  BY <1>4
<1>5. ASSUME NEW label \in Pc \ {"idle"}, Goto(r, label), UNCHANGED tables,
             label \notin {"setRole", "existing", "insertInvite", "deleteMember", "join", "decline"},
             label = "owner" => op[r].do # "setRole"
      PROVE  Inv'
  BY <1>0, <1>2, <1>5, ReadInv
<1>6. CASE Access(r)
  <2>1. op[r].do \in DOMAIN Need
    BY <1>2, <1>6, NeedDomain DEF Access, Runs, Do
  <2>2. /\ UNCHANGED tables
        /\ Goto(r, Body(op[r].do)) \/ Goto(r, "member")
    BY <1>6 DEF Access
  <2>3. "member" \in Pc \ {"idle"}
    BY DEF Pc
  <2> QED
    BY <1>3, <1>5, <2>1, <2>2, <2>3
<1>7. CASE Membership(r)
  <2>1. op[r].do \in DOMAIN Need
    BY <1>2, <1>7, NeedDomain DEF Membership, Runs, Do
  <2>2. UNCHANGED tables /\ Goto(r, Body(op[r].do))
    BY <1>7 DEF Membership
  <2> QED
    BY <1>3, <1>5, <2>1, <2>2
<1>8. CASE IsDefault(r)
  <2>1. UNCHANGED tables /\ Goto(r, "deleteTeam") /\ "deleteTeam" \in Pc \ {"idle"}
    BY <1>8, NeedDomain DEF IsDefault, Pc, Do
  <2> QED
    BY <1>5, <2>1
<1>9. CASE Usable(r)
  <2>1. /\ UNCHANGED tables /\ op[r].role \in System \cup RolesOf(op[r].team)
        /\ Goto(r, IF op[r].do = "setRole" THEN "owner" ELSE "existing")
    BY <1>9 DEF Usable
  <2>2. op[r].role \in System \/ role[op[r].role].team = op[r].team
    BY <2>1 DEF RolesOf
  <2>3. {"owner", "existing"} \subseteq Pc \ {"idle"}
    BY DEF Pc
  <2>4. PICK label \in {"owner", "existing"} : Goto(r, label)
    BY <2>1
  <2> QED
    BY <1>0, <1>2, <2>1, <2>2, <2>3, <2>4, ReadInv
<1>10. CASE OwnerOf(r)
  <2>1. /\ UNCHANGED tables /\ team[op[r].team] # NULL /\ team[op[r].team].owner # op[r].whom
        /\ Goto(r, op[r].do) /\ pc[r] = "owner"
    BY <1>10 DEF OwnerOf
  <2>2. op[r].do \in {"setRole", "deleteMember"} /\ {"setRole", "deleteMember"} \subseteq Pc \ {"idle"}
    BY <1>2, <2>1, NeedDomain DEF Runs, Pc, Do
  <2>3. op[r].do = "setRole" =>
           (op[r].role \in System \/ (role[op[r].role] # NULL => role[op[r].role].team = op[r].team))
    BY <2>1 DEF Inv, Knows
  <2>4. PICK label \in {"setRole", "deleteMember"} : Goto(r, label) /\ label = op[r].do
    BY <2>1, <2>2
  <2> QED
    BY <1>0, <1>2, <2>1, <2>2, <2>3, <2>4, ReadInv
<1>11. CASE Existing(r)
  <2>1. UNCHANGED tables /\ Goto(r, "insertInvite") /\ pc[r] = "existing"
    BY <1>11 DEF Existing
  <2>2. op[r].role \in System \/ (role[op[r].role] # NULL => role[op[r].role].team = op[r].team)
    BY <2>1 DEF Inv, Knows
  <2>3. "insertInvite" \in Pc \ {"idle"}
    BY NeedDomain DEF Pc, Do
  <2> QED
    BY <1>0, <1>2, <2>1, <2>2, <2>3, ReadInv
<1>12. CASE Load(r)
  <2>1. /\ UNCHANGED tables /\ pc[r] = "load"
        /\ \/ Goto(r, "expire")
           \/ Goto(r, op[r].do) /\ invite[op[r].invite].email = op[r].user
    BY <1>12 DEF Load
  <2>2. op[r].do \in {"join", "decline"} /\ {"join", "decline", "expire"} \subseteq Pc \ {"idle"}
    BY <1>2, <2>1, NeedDomain DEF Runs, Pc, Do
  <2>3. CASE Goto(r, "expire")
    BY <1>5, <2>1, <2>2, <2>3
  <2>4. CASE Goto(r, op[r].do) /\ invite[op[r].invite].email = op[r].user
    <3>1. PICK label \in {"join", "decline"} : Goto(r, label)
      BY <2>2, <2>4
    <3> QED
      BY <1>0, <1>2, <2>1, <2>2, <2>4, <3>1, ReadInv
  <2> QED
    BY <2>1, <2>3, <2>4
<1> QED
  BY <1>6, <1>7, <1>8, <1>9, <1>10, <1>11, <1>12

-----------------------------------------------------------------------------
(* The statements that write.                                              *)

LEMMA Request_ ==
    ASSUME Inv, NEW r \in Request, pc[r] \in Do
    PROVE  op[r] \in Op /\ op[r].do = pc[r] /\ Named(op[r]) /\ Knows(r) /\ op[r].user \in User
<1>1. pc[r] # "idle"
  BY NeedDomain DEF Do
<1> QED
  BY <1>1 DEF Inv, TypeInv, TypeOK, Local, Fits, Runs, Op

LEMMA MemberSet ==
    ASSUME Inv, NEW t \in Team, NEW u \in User, NEW x \in Role \cup System \cup {NULL},
           member' = [member EXCEPT ![t][u] = x]
    PROVE  /\ member' \in [Team -> [User -> Role \cup System \cup {NULL}]]
           /\ member'[t][u] = x
           /\ \A s \in Team : \A v \in User : s # t \/ v # u => member'[s][v] = member[s][v]
<1>1. member \in [Team -> [User -> Role \cup System \cup {NULL}]]
  BY DEF Inv, TypeInv, TypeOK
<1> QED
  BY <1>1

LEMMA InsertTeamInv == ASSUME Inv, NEW r \in Request, InsertTeam(r) PROVE Inv'
<1>1. ASSUME NEW t \in Team \ minted,
             team' = [team EXCEPT ![t] = [owner |-> op[r].user, isDefault |-> FALSE]],
             member' = [member EXCEPT ![t][op[r].user] = SystemAdmin],
             minted' = minted \cup {t}, Finish(r), UNCHANGED <<role, invite, admitted>>,
             pc[r] = "insertTeam"
      PROVE  Inv'
  <2>1. PICK u \in User : u = op[r].user
    BY <1>1, Request_ DEF Do
  <2>2. [owner |-> u, isDefault |-> FALSE] \in TeamRow
    BY DEF TeamRow
  <2>3. /\ team' \in [Team -> TeamRow \cup {NULL}]
        /\ team'[t] # NULL /\ team'[t].owner = u
        /\ \A s \in Team : s # t => team'[s] = team[s]
    BY <1>1, <2>1, <2>2, NullAssumption, TypesHold DEF TablesType
  <2>4. /\ member' \in [Team -> [User -> Role \cup System \cup {NULL}]]
        /\ member'[t][u] = SystemAdmin
        /\ \A s \in Team : \A v \in User : s # t \/ v # u => member'[s][v] = member[s][v]
    <3>1. PICK x \in Role \cup System \cup {NULL} : x = SystemAdmin
      BY DEF System
    <3>2. t \in Team /\ member' = [member EXCEPT ![t][u] = x]
      BY <1>1, <2>1, <3>1
    <3>3. /\ member' \in [Team -> [User -> Role \cup System \cup {NULL}]]
          /\ member'[t][u] = x
          /\ \A s \in Team : \A v \in User : s # t \/ v # u => member'[s][v] = member[s][v]
      BY <3>2, TypesHold DEF TablesType
    <3> QED
      BY <3>1, <3>3
  <2>5. team[t] = NULL
    BY <1>1 DEF Inv, RowsOK, Ids
  <2>6. TablesType'
    BY <1>1, <2>3, <2>4, TypesHold DEF TablesType, Finish
  <2>7. Evolve
    BY <1>1, <2>3 DEF Evolve
  <2>8. Ids'
    BY <1>1, <2>3 DEF Inv, RowsOK, Ids
  <2>9. OwnerStaysAdmin'
    <3> SUFFICES ASSUME NEW s \in Team, team'[s] # NULL
                 PROVE  member'[s][team'[s].owner] = SystemAdmin
      BY DEF OwnerStaysAdmin
    <3>1. CASE s = t
      BY <2>3, <2>4, <3>1
    <3>2. CASE s # t
      <4>1. team'[s] = team[s]
        BY <2>3, <3>2
      <4>2. PICK v \in User : v = team[s].owner
        BY <4>1, TypesHold DEF TablesType, TeamRow
      <4>3. member[s][v] = SystemAdmin
        BY <4>1, <4>2 DEF Inv, RowsOK, OwnerStaysAdmin
      <4> QED
        BY <2>4, <3>2, <4>1, <4>2, <4>3
    <3> QED
      BY <3>1, <3>2
  <2>10. RolesFit'
    BY <1>1, <2>4 DEF Inv, RowsOK, RolesFit, RolesOf, CustomRoles, System
  <2>11. MembersWereInvited'
    BY <1>1, <2>3, <2>4, <2>5 DEF Inv, RowsOK, MembersWereInvited
  <2> QED
    BY <1>1, <2>6, <2>7, <2>8, <2>9, <2>10, <2>11, FinishWritten DEF RowsOK
<1> QED
  BY <1>1, RefuseInv DEF InsertTeam

LEMMA DeleteTeamInv == ASSUME Inv, NEW r \in Request, DeleteTeam(r) PROVE Inv'
<1> SUFFICES ASSUME ~Refuse(r) PROVE Inv'
  BY RefuseInv
<1>1. PICK t : t = op[r].team
  OBVIOUS
<1>2. /\ team' = [team EXCEPT ![t] = NULL]
      /\ member' = [member EXCEPT ![t] = [u \in User |-> NULL]]
      /\ role' = [c \in Role |-> IF c \in RolesOf(t) THEN NULL ELSE role[c]]
      /\ invite' = [i \in Invite |->
            IF invite[i] # NULL /\ invite[i].team = t THEN NULL ELSE invite[i]]
      /\ Finish(r) /\ UNCHANGED <<minted, admitted>> /\ pc[r] = "deleteTeam"
  BY <1>1 DEF DeleteTeam
<1>3. t \in Team
  BY <1>1, <1>2, Request_, NeedDomain DEF Do, Named
<1>4. /\ team' \in [Team -> TeamRow \cup {NULL}]
      /\ team'[t] = NULL /\ \A s \in Team : s # t => team'[s] = team[s]
  BY <1>2, <1>3, TypesHold DEF TablesType
<1>5. /\ member' \in [Team -> [User -> Role \cup System \cup {NULL}]]
      /\ \A u \in User : member'[t][u] = NULL
      /\ \A s \in Team : s # t => member'[s] = member[s]
  BY <1>2, <1>3, TypesHold DEF TablesType
<1>6. /\ role' \in [Role -> RoleRow \cup {NULL}] /\ invite' \in [Invite -> InviteRow \cup {NULL}]
  BY <1>2, TypesHold DEF TablesType
<1>7. \A c \in Role : /\ role'[c] # NULL => role'[c] = role[c]
                      /\ role[c] # NULL /\ role[c].team # t => role'[c] = role[c]
  BY <1>2 DEF RolesOf
<1>8. \A i \in Invite : /\ invite'[i] # NULL => invite'[i] = invite[i] /\ invite[i].team # t
                        /\ invite[i] # NULL /\ invite[i].team # t => invite'[i] = invite[i]
  BY <1>2
<1>9. TablesType'
  BY <1>2, <1>4, <1>5, <1>6, TypesHold DEF TablesType, Finish
<1>10. Evolve
  BY <1>2, <1>4, <1>7, <1>8 DEF Evolve
<1>11. Ids'
  BY <1>2, <1>4, <1>7, <1>8 DEF Inv, RowsOK, Ids
<1>12. OwnerStaysAdmin'
  BY <1>4, <1>5 DEF Inv, RowsOK, OwnerStaysAdmin
<1>13. \A s \in Team : s # t => \A c \in RolesOf(s) : c \in RolesOf(s)'
  BY <1>7 DEF RolesOf, CustomRoles
<1>14. RolesFit'
  <2>1. ASSUME NEW s \in Team, NEW u \in User, member'[s][u] # NULL
        PROVE  member'[s][u] \in System \cup RolesOf(s)'
    BY <1>5, <1>13, <2>1 DEF Inv, RowsOK, RolesFit
  <2>2. ASSUME NEW i \in Invite, invite'[i] # NULL
        PROVE  invite'[i].role \in System \cup RolesOf(invite[i].team)'
    <3>1. PICK s : s = invite[i].team
      OBVIOUS
    <3>2. invite'[i] = invite[i] /\ s # t /\ invite[i] \in InviteRow
      BY <1>8, <2>2, <3>1, TypesHold DEF TablesType
    <3>3. s \in Team
      BY <3>1, <3>2 DEF InviteRow
    <3>4. invite[i].role \in System \cup RolesOf(s)
      BY <2>2, <3>1, <3>2 DEF Inv, RowsOK, RolesFit
    <3>5. invite'[i].role \in System \cup RolesOf(s)'
      BY <1>13, <3>2, <3>3, <3>4
    <3> QED
      BY <3>1, <3>2, <3>5
  <2> QED
    BY <2>1, <2>2 DEF RolesFit
<1>15. MembersWereInvited'
  <2> SUFFICES ASSUME NEW s \in Team, NEW u \in User, member'[s][u] # NULL,
                      ~(team'[s] # NULL /\ team'[s].owner = u)
               PROVE  \E i \in Invite : /\ invite'[i] # NULL /\ invite'[i].team = s
                                        /\ invite'[i].email = u /\ invite'[i].acceptedBy = u
    BY DEF MembersWereInvited
  <2>1. s # t /\ member[s][u] # NULL /\ ~(team[s] # NULL /\ team[s].owner = u)
    BY <1>4, <1>5
  <2>2. PICK i \in Invite : /\ invite[i] # NULL /\ invite[i].team = s
                            /\ invite[i].email = u /\ invite[i].acceptedBy = u
    BY <2>1 DEF Inv, RowsOK, MembersWereInvited
  <2> QED
    BY <1>8, <2>1, <2>2
<1> QED
  BY <1>2, <1>9, <1>10, <1>11, <1>12, <1>14, <1>15, FinishWritten DEF RowsOK

LEMMA SetRoleInv == ASSUME Inv, NEW r \in Request, SetRole(r) PROVE Inv'
<1> SUFFICES ASSUME ~Refuse(r) PROVE Inv'
  BY RefuseInv
<1>1. PICK t, u, c : t = op[r].team /\ u = op[r].whom /\ c = op[r].role
  OBVIOUS
<1>2. /\ member[t][u] # NULL /\ c \in System \cup CustomRoles
      /\ member' = [member EXCEPT ![t][u] = c]
      /\ Finish(r) /\ UNCHANGED <<team, role, invite, minted, admitted>> /\ pc[r] = "setRole"
  BY <1>1 DEF SetRole
<1>3. t \in Team /\ u \in User
  BY <1>1, <1>2, Request_, NeedDomain DEF Do, Named
<1>4. (c \in System \/ (role[c] # NULL => role[c].team = t)) /\ (team[t] # NULL => team[t].owner # u)
  BY <1>1, <1>2, Request_, NeedDomain DEF Do, Knows
<1>5. c \in Role \cup System
  BY <1>2 DEF CustomRoles
<1>6. /\ member' \in [Team -> [User -> Role \cup System \cup {NULL}]]
      /\ member'[t][u] = c
      /\ \A s \in Team : \A v \in User : s # t \/ v # u => member'[s][v] = member[s][v]
  <2>1. member' = [member EXCEPT ![t][u] = c] /\ c \in Role \cup System \cup {NULL}
    BY <1>2, <1>5
  <2> QED
    BY <1>3, <2>1, MemberSet, Zenon
<1>7. TablesType'
  BY <1>2, <1>6, TypesHold DEF TablesType, Finish
<1>8. Evolve /\ Ids'
  BY <1>2 DEF Evolve, Inv, RowsOK, Ids
<1>9. OwnerStaysAdmin'
  BY <1>2, <1>3, <1>4, <1>6 DEF Inv, RowsOK, OwnerStaysAdmin
<1>10. c \in System \cup RolesOf(t)
  BY <1>2, <1>4 DEF CustomRoles, RolesOf
<1>11. RolesFit'
  BY <1>2, <1>6, <1>10 DEF Inv, RowsOK, RolesFit, RolesOf, CustomRoles
<1>12. MembersWereInvited'
  BY <1>2, <1>6 DEF Inv, RowsOK, MembersWereInvited
<1> QED
  BY <1>2, <1>7, <1>8, <1>9, <1>11, <1>12, FinishWritten DEF RowsOK

LEMMA DeleteMemberInv == ASSUME Inv, NEW r \in Request, DeleteMember(r) PROVE Inv'
<1>1. PICK t, u : t = op[r].team /\ u = op[r].whom
  OBVIOUS
<1>2. /\ member' = [member EXCEPT ![t][u] = NULL]
      /\ Finish(r) /\ UNCHANGED <<team, role, invite, minted, admitted>> /\ pc[r] = "deleteMember"
  BY <1>1 DEF DeleteMember
<1>3. t \in Team /\ u \in User
  BY <1>1, <1>2, Request_, NeedDomain DEF Do, Named
<1>4. team[t] # NULL => team[t].owner # u
  BY <1>1, <1>2, Request_, NeedDomain DEF Do, Knows
<1>5. /\ member' \in [Team -> [User -> Role \cup System \cup {NULL}]]
      /\ member'[t][u] = NULL
      /\ \A s \in Team : \A v \in User : s # t \/ v # u => member'[s][v] = member[s][v]
  <2>1. NULL \in Role \cup System \cup {NULL}
    OBVIOUS
  <2> QED
    BY <1>2, <1>3, <2>1, MemberSet
<1>6. TablesType'
  BY <1>2, <1>5, TypesHold DEF TablesType, Finish
<1>7. Evolve /\ Ids'
  BY <1>2 DEF Evolve, Inv, RowsOK, Ids
<1>8. OwnerStaysAdmin'
  <2> SUFFICES ASSUME NEW s \in Team, team[s] # NULL
               PROVE  member'[s][team[s].owner] = SystemAdmin
    BY <1>2 DEF OwnerStaysAdmin
  <2>1. PICK v \in User : v = team[s].owner
    BY TypesHold DEF TablesType, TeamRow
  <2>2. member[s][v] = SystemAdmin
    BY <2>1 DEF Inv, RowsOK, OwnerStaysAdmin
  <2>3. s # t \/ v # u
    BY <1>4, <2>1
  <2> QED
    BY <1>5, <2>1, <2>2, <2>3
<1>9. RolesFit' /\ MembersWereInvited'
  BY <1>2, <1>5 DEF Inv, RowsOK, RolesFit, RolesOf, CustomRoles, MembersWereInvited
<1> QED
  BY <1>2, <1>6, <1>7, <1>8, <1>9, FinishWritten DEF RowsOK

\* A step that writes role c of team t, or adds it.
LEMMA RoleWritten ==
    ASSUME Inv, NEW r \in Request, Finish(r), UNCHANGED <<team, member, invite, admitted>>,
           NEW c \in Role, NEW t \in Team, NEW bag \in SUBSET Permission,
           role' = [role EXCEPT ![c] = [team |-> t, permissions |-> bag]],
           minted' = minted \cup {c},
           c \in minted => role[c] # NULL /\ role[c].team = t
    PROVE  Inv'
<1>1. [team |-> t, permissions |-> bag] \in RoleRow
  BY DEF RoleRow
<1>2. /\ role' \in [Role -> RoleRow \cup {NULL}]
      /\ role'[c] # NULL /\ role'[c].team = t
      /\ \A d \in Role : d # c => role'[d] = role[d]
  BY <1>1, NullAssumption, TypesHold DEF TablesType
<1>3. TablesType'
  BY <1>2, TypesHold DEF TablesType, Finish
<1>4. Evolve
  BY <1>2 DEF Evolve
<1>5. Ids'
  BY <1>2 DEF Inv, RowsOK, Ids
<1>6. c \notin minted => role[c] = NULL
  BY DEF Inv, RowsOK, Ids
<1>7. \A s \in Team : \A d \in RolesOf(s) : d \in RolesOf(s)'
  BY <1>2, <1>6 DEF RolesOf, CustomRoles
<1>8. RolesFit'
  <2>1. \A s \in Team, u \in User : member'[s][u] # NULL => member'[s][u] \in System \cup RolesOf(s)'
    BY <1>7 DEF Inv, RowsOK, RolesFit
  <2>2. ASSUME NEW i \in Invite, invite[i] # NULL
        PROVE  invite[i].role \in System \cup RolesOf(invite[i].team)'
    <3>1. invite[i] \in InviteRow
      BY <2>2, TypesHold DEF TablesType
    <3>2. PICK s \in Team : s = invite[i].team
      BY <3>1 DEF InviteRow
    <3>3. invite[i].role \in System \cup RolesOf(s)
      BY <2>2, <3>2 DEF Inv, RowsOK, RolesFit
    <3>4. invite[i].role \in System \cup RolesOf(s)'
      BY <1>7, <3>3
    <3> QED
      BY <3>2, <3>4
  <2> QED
    BY <2>1, <2>2 DEF RolesFit
<1>9. OwnerStaysAdmin' /\ MembersWereInvited'
  BY DEF Inv, RowsOK, OwnerStaysAdmin, MembersWereInvited
<1> QED
  BY <1>3, <1>4, <1>5, <1>8, <1>9, FinishWritten DEF RowsOK

LEMMA InsertRoleInv == ASSUME Inv, NEW r \in Request, InsertRole(r) PROVE Inv'
<1> SUFFICES ASSUME ~Refuse(r) PROVE Inv'
  BY RefuseInv
<1>1. PICK c \in Role \ minted, bag \in Bags :
         /\ role' = [role EXCEPT ![c] = [team |-> op[r].team, permissions |-> bag]]
         /\ minted' = minted \cup {c}
  BY DEF InsertRole
<1>2. pc[r] = "insertRole" /\ Finish(r) /\ UNCHANGED <<team, member, invite, admitted>>
  BY DEF InsertRole
<1>3. PICK t \in Team : t = op[r].team
  BY <1>2, Request_, NeedDomain DEF Do, Named
<1> QED
  BY <1>1, <1>2, <1>3, RoleAssumption, RoleWritten

LEMMA ChangeRoleInv == ASSUME Inv, NEW r \in Request, ChangeRole(r) PROVE Inv'
<1> SUFFICES ASSUME ~Refuse(r) PROVE Inv'
  BY RefuseInv
<1>1. PICK bag \in Bags : role' = [role EXCEPT ![op[r].role].permissions = bag]
  BY DEF ChangeRole
<1>2. /\ op[r].role \in RolesOf(op[r].team) /\ pc[r] = "changeRole" /\ Finish(r)
      /\ UNCHANGED <<team, member, invite, minted, admitted>>
  BY DEF ChangeRole
<1>3. PICK c \in Role : c = op[r].role /\ role[c] # NULL
  BY <1>2 DEF RolesOf, CustomRoles
<1>4. role[c] \in RoleRow
  BY <1>3, TypesHold DEF TablesType
<1>5. PICK t \in Team : t = role[c].team
  BY <1>4 DEF RoleRow
<1>6. role' = [role EXCEPT ![c] = [role[c] EXCEPT !.permissions = bag]]
  BY <1>1, <1>3
<1>7. [role[c] EXCEPT !.permissions = bag] = [team |-> t, permissions |-> bag]
  BY <1>4, <1>5 DEF RoleRow
<1>8. c \in minted
  BY <1>3 DEF Inv, RowsOK, Ids
<1>9. role' = [role EXCEPT ![c] = [team |-> t, permissions |-> bag]] /\ minted' = minted \cup {c}
  BY <1>2, <1>6, <1>7, <1>8
<1>10. bag \in SUBSET Permission
  BY RoleAssumption
<1> QED
  BY <1>2, <1>3, <1>5, <1>9, <1>10, RoleWritten

LEMMA DropRoleInv == ASSUME Inv, NEW r \in Request, DropRole(r) PROVE Inv'
<1> SUFFICES ASSUME ~Refuse(r) PROVE Inv'
  BY RefuseInv
<1>1. PICK c : c = op[r].role
  OBVIOUS
<1>2. /\ c \in RolesOf(op[r].team) /\ ~InUse(c) /\ role' = [role EXCEPT ![c] = NULL]
      /\ Finish(r) /\ UNCHANGED <<team, member, invite, minted, admitted>>
  BY <1>1 DEF DropRole
<1>3. c \in Role
  BY <1>2 DEF RolesOf, CustomRoles
<1>4. /\ role' \in [Role -> RoleRow \cup {NULL}] /\ role'[c] = NULL
      /\ \A d \in Role : d # c => role'[d] = role[d]
  BY <1>2, <1>3, TypesHold DEF TablesType
<1>5. TablesType'
  BY <1>2, <1>4, TypesHold DEF TablesType, Finish
<1>6. Evolve /\ Ids'
  BY <1>2, <1>4 DEF Evolve, Inv, RowsOK, Ids
<1>7. \A s : \A d \in RolesOf(s) : d # c => d \in RolesOf(s)'
  BY <1>4 DEF RolesOf, CustomRoles
<1>8. /\ \A s \in Team : \A u \in User : member[s][u] # c
      /\ \A i \in Invite : invite[i] # NULL => invite[i].role # c
  BY <1>2 DEF InUse
<1>9. RolesFit'
  <2>1. \A s \in Team, u \in User : member'[s][u] # NULL => member'[s][u] \in System \cup RolesOf(s)'
    BY <1>2, <1>7, <1>8 DEF Inv, RowsOK, RolesFit
  <2>2. ASSUME NEW i \in Invite, invite[i] # NULL
        PROVE  invite[i].role \in System \cup RolesOf(invite[i].team)'
    <3>1. PICK s : s = invite[i].team
      OBVIOUS
    <3>2. invite[i].role \in System \cup RolesOf(s)
      BY <2>2, <3>1 DEF Inv, RowsOK, RolesFit
    <3>3. invite[i].role \in System \cup RolesOf(s)'
      BY <1>7, <1>8, <2>2, <3>2
    <3> QED
      BY <1>2, <3>1, <3>3
  <2> QED
    BY <1>2, <2>1, <2>2 DEF RolesFit
<1>10. OwnerStaysAdmin' /\ MembersWereInvited'
  BY <1>2 DEF Inv, RowsOK, OwnerStaysAdmin, MembersWereInvited
<1> QED
  BY <1>2, <1>5, <1>6, <1>9, <1>10, FinishWritten DEF RowsOK

-----------------------------------------------------------------------------
(* Invites.                                                                *)

\* A step that writes invites and nobody's membership: an invite keeps its
\* team, address, role and acceptance, and a new one gets a role that fits.
InvitesKeep ==
    \A i \in Invite :
        /\ invite[i] # NULL =>
              /\ invite'[i] # NULL
              /\ invite'[i].team = invite[i].team /\ invite'[i].email = invite[i].email
              /\ invite'[i].role = invite[i].role
              /\ invite'[i].acceptedBy = invite[i].acceptedBy
        /\ invite[i] = NULL /\ invite'[i] # NULL =>
              /\ i \in minted' \ minted
              /\ \E s \in Team : /\ invite'[i].team = s
                                 /\ invite'[i].role \in System \cup RolesOf(s)

LEMMA InvitesWritten ==
    ASSUME Inv, UNCHANGED <<team, member, role, admitted>>, minted \subseteq minted', InvitesKeep
    PROVE  Evolve /\ RowsOK'
<1>1. Evolve
  BY DEF Evolve, InvitesKeep
<1>2. Ids'
  BY DEF Inv, RowsOK, Ids, InvitesKeep
<1>3. OwnerStaysAdmin'
  BY DEF Inv, RowsOK, OwnerStaysAdmin
<1>4. \A s : RolesOf(s)' = RolesOf(s)
  BY DEF RolesOf, CustomRoles
<1>5. RolesFit'
  <2>1. \A s \in Team, u \in User : member'[s][u] # NULL => member'[s][u] \in System \cup RolesOf(s)'
    BY <1>4 DEF Inv, RowsOK, RolesFit
  <2>2. ASSUME NEW i \in Invite, invite'[i] # NULL
        PROVE  \E s : invite'[i].team = s /\ invite'[i].role \in System \cup RolesOf(s)
    BY <2>2 DEF Inv, RowsOK, RolesFit, InvitesKeep
  <2>3. \A i \in Invite : invite'[i] # NULL => invite'[i].role \in System \cup RolesOf(invite[i].team)'
    BY <2>2 DEF RolesOf, CustomRoles
  <2> QED
    BY <2>1, <2>3 DEF RolesFit
<1>6. MembersWereInvited'
  BY DEF Inv, RowsOK, MembersWereInvited, InvitesKeep
<1> QED
  BY <1>1, <1>2, <1>3, <1>5, <1>6 DEF RowsOK

LEMMA InsertInviteInv == ASSUME Inv, NEW r \in Request, InsertInvite(r) PROVE Inv'
<1> SUFFICES ASSUME ~Refuse(r) PROVE Inv'
  BY RefuseInv
<1>1. PICK t, u, c : t = op[r].team /\ u = op[r].whom /\ c = op[r].role
  OBVIOUS
<1>2. PICK i \in Invite \ minted :
         /\ invite' = [invite EXCEPT ![i] = [team |-> t, email |-> u, role |-> c, status |-> "PENDING",
                                             live |-> TRUE, acceptedBy |-> NULL]]
         /\ minted' = minted \cup {i}
  BY <1>1 DEF InsertInvite
<1>3. /\ c \in System \cup CustomRoles /\ pc[r] = "insertInvite" /\ Finish(r)
      /\ UNCHANGED <<team, member, role, admitted>>
  BY <1>1 DEF InsertInvite
<1>4. t \in Team /\ u \in User
  BY <1>1, <1>3, Request_, NeedDomain DEF Do, Named
<1>5. c \in System \cup RolesOf(t)
  <2>1. c \in System \/ (role[c] # NULL => role[c].team = t)
    BY <1>1, <1>3, Request_, NeedDomain DEF Do, Knows
  <2> QED
    BY <1>3, <2>1 DEF CustomRoles, RolesOf
<1> DEFINE row == [team |-> t, email |-> u, role |-> c, status |-> "PENDING", live |-> TRUE,
                   acceptedBy |-> NULL]
<1>6. row \in InviteRow
  BY <1>3, <1>4 DEF InviteRow, Status, CustomRoles
<1>7. row.team = t /\ row.role = c
  OBVIOUS
<1>8. invite' = [invite EXCEPT ![i] = row]
  BY <1>2
<1> HIDE DEF row
<1>9. /\ invite' \in [Invite -> InviteRow \cup {NULL}] /\ invite'[i] = row
      /\ \A j \in Invite : j # i => invite'[j] = invite[j]
  BY <1>6, <1>8, TypesHold DEF TablesType
<1>10. TablesType'
  BY <1>2, <1>3, <1>9, TypesHold DEF TablesType, Finish
<1>11. invite[i] = NULL
  BY <1>2 DEF Inv, RowsOK, Ids
<1>12. InvitesKeep
  BY <1>2, <1>4, <1>5, <1>7, <1>9, <1>11 DEF InvitesKeep
<1> QED
  BY <1>2, <1>3, <1>10, <1>12, InvitesWritten, FinishWritten

LEMMA StatusSet ==
    ASSUME Inv, NEW i \in Invite, NEW status \in Status, SetStatus(i, status)
    PROVE  /\ invite' \in [Invite -> InviteRow \cup {NULL}]
           /\ InvitesKeep
<1> DEFINE row == [invite[i] EXCEPT !.status = status]
<1>1. invite' = [invite EXCEPT ![i] = IF invite[i] = NULL THEN NULL ELSE row]
  BY DEF SetStatus
<1>2. ASSUME invite[i] # NULL
      PROVE  /\ row \in InviteRow
             /\ row.team = invite[i].team /\ row.email = invite[i].email
             /\ row.role = invite[i].role /\ row.acceptedBy = invite[i].acceptedBy
  <2>1. invite[i] \in InviteRow
    BY <1>2, TypesHold DEF TablesType
  <2> QED
    BY <2>1 DEF InviteRow
<1> HIDE DEF row
<1>3. /\ invite' \in [Invite -> InviteRow \cup {NULL}]
      /\ invite'[i] = IF invite[i] = NULL THEN NULL ELSE row
      /\ \A j \in Invite : j # i => invite'[j] = invite[j]
  BY <1>1, <1>2, TypesHold DEF TablesType
<1> QED
  BY <1>2, <1>3, NullAssumption DEF InvitesKeep

LEMMA StatusInv ==
    ASSUME Inv, NEW r \in Request, NEW i \in Invite, NEW status \in Status, SetStatus(i, status), Finish(r)
    PROVE  Inv'
<1>1. UNCHANGED <<team, member, role, minted, admitted>>
  BY DEF SetStatus
<1>2. TablesType'
  BY <1>1, StatusSet, TypesHold DEF TablesType, Finish
<1> QED
  BY <1>1, <1>2, StatusSet, InvitesWritten, FinishWritten

LEMMA ClosesInv ==
    ASSUME Inv, NEW r \in Request, Revoke(r) \/ Expire(r) \/ Decline(r) PROVE Inv'
<1> SUFFICES ASSUME ~Refuse(r) PROVE Inv'
  BY RefuseInv
<1>0. PICK i : i = op[r].invite
  OBVIOUS
<1>1. PICK status \in Status : SetStatus(i, status) /\ Finish(r)
  <2>1. {"REVOKED", "EXPIRED", "DECLINED"} \subseteq Status
    BY DEF Status
  <2>2. \E status \in {"REVOKED", "EXPIRED", "DECLINED"} : SetStatus(i, status) /\ Finish(r)
    BY <1>0 DEF Revoke, Expire, Decline
  <2> QED
    BY <2>1, <2>2
<1>2. pc[r] \in {"revoke", "expire", "decline"}
  BY DEF Revoke, Expire, Decline
<1>3. Named(op[r]) /\ Runs(pc[r], op[r].do)
  BY <1>2 DEF Inv, TypeInv, Local, Fits
<1>4. op[r].do \in {"revoke", "join", "decline"}
  BY <1>2, <1>3, NeedDomain DEF Runs, Do
<1>5. i \in Invite
  BY <1>0, <1>3, <1>4 DEF Named
<1> QED
  BY <1>1, <1>5, StatusInv

LEMMA JoinInv == ASSUME Inv, NEW r \in Request, Join(r) PROVE Inv'
<1> SUFFICES ASSUME ~Refuse(r) PROVE Inv'
  BY RefuseInv
<1>1. PICK i, u : i = op[r].invite /\ u = op[r].user
  OBVIOUS
<1>2. PICK v : v = invite[i]
  OBVIOUS
<1>3. /\ pc[r] = "join" /\ v # NULL
      /\ \/ /\ member[v.team][u] = NULL
            /\ member' = [member EXCEPT ![v.team][u] = v.role]
            /\ admitted' = [admitted EXCEPT ![i] = @ + 1]
         \/ member[v.team][u] # NULL /\ UNCHANGED <<member, admitted>>
      /\ invite' = [invite EXCEPT ![i].status = "ACCEPTED", ![i].acceptedBy = u]
      /\ Finish(r) /\ UNCHANGED <<team, role, minted>>
  BY <1>1, <1>2 DEF Join
<1>4. i \in Invite /\ u \in User
  BY <1>1, <1>3, Request_, NeedDomain DEF Do, Named
<1>5. v \in InviteRow
  BY <1>2, <1>3, <1>4, TypesHold DEF TablesType
<1>6. v.email = u
  <2>1. invite[op[r].invite] # NULL => invite[op[r].invite].email = op[r].user
    BY <1>3, Request_, NeedDomain DEF Do, Knows
  <2> QED
    BY <1>1, <1>2, <1>3, <2>1
<1>7. PICK t \in Team, c \in Role \cup System : t = v.team /\ c = v.role
  BY <1>5 DEF InviteRow
<1> DEFINE row == [[v EXCEPT !.status = "ACCEPTED"] EXCEPT !.acceptedBy = u]
<1>8. invite' = [invite EXCEPT ![i] = row]
  BY <1>2, <1>3, <1>4, TypesHold DEF TablesType
<1>9. /\ row \in InviteRow /\ row.team = t /\ row.email = u /\ row.role = c /\ row.acceptedBy = u
  <2>1. PICK w : w = [v EXCEPT !.status = "ACCEPTED"]
    OBVIOUS
  <2>2. /\ w \in InviteRow /\ w.team = t /\ w.email = u /\ w.role = c
    BY <1>5, <1>6, <1>7, <2>1 DEF InviteRow, Status
  <2>3. /\ [w EXCEPT !.acceptedBy = u] \in InviteRow
        /\ [w EXCEPT !.acceptedBy = u].team = t /\ [w EXCEPT !.acceptedBy = u].email = u
        /\ [w EXCEPT !.acceptedBy = u].role = c /\ [w EXCEPT !.acceptedBy = u].acceptedBy = u
    BY <1>4, <2>2 DEF InviteRow
  <2> QED
    BY <2>1, <2>3
<1> HIDE DEF row
<1>10. /\ invite' \in [Invite -> InviteRow \cup {NULL}] /\ invite'[i] = row /\ row # NULL
       /\ \A j \in Invite : j # i => invite'[j] = invite[j]
  BY <1>8, <1>9, <1>4, NullAssumption, TypesHold DEF TablesType
<1>11. /\ member' \in [Team -> [User -> Role \cup System \cup {NULL}]]
       /\ member'[t][u] # NULL
       /\ \A s \in Team : \A w \in User : s # t \/ w # u => member'[s][w] = member[s][w]
       /\ member[t][u] # NULL => member'[t][u] = member[t][u]
       /\ member[t][u] = NULL => member'[t][u] = c
  <2>1. CASE member[t][u] = NULL
    <3>1. member' = [member EXCEPT ![t][u] = c]
      BY <1>3, <1>7, <2>1
    <3>2. c \in Role \cup System \cup {NULL} /\ c # NULL
      BY <1>7, RoleAssumption
    <3>3. /\ member' \in [Team -> [User -> Role \cup System \cup {NULL}]]
          /\ member'[t][u] = c
          /\ \A s \in Team : \A w \in User : s # t \/ w # u => member'[s][w] = member[s][w]
      BY <1>4, <3>1, <3>2, MemberSet
    <3> QED
      BY <2>1, <3>2, <3>3
  <2>2. CASE member[t][u] # NULL
    BY <1>3, <1>7, <2>2, TypesHold DEF TablesType
  <2> QED
    BY <2>1, <2>2
<1>12. admitted' \in [Invite -> Nat]
  BY <1>3, <1>4, TypesHold DEF TablesType
<1>13. TablesType'
  BY <1>3, <1>10, <1>11, <1>12, TypesHold DEF TablesType, Finish
<1>14. Evolve /\ Ids'
  BY <1>2, <1>3, <1>4, <1>6, <1>9, <1>10 DEF Evolve, Inv, RowsOK, Ids
<1>15. OwnerStaysAdmin'
  <2> SUFFICES ASSUME NEW s \in Team, team[s] # NULL
               PROVE  member'[s][team[s].owner] = SystemAdmin
    BY <1>3 DEF OwnerStaysAdmin
  <2>1. PICK w \in User : w = team[s].owner
    BY TypesHold DEF TablesType, TeamRow
  <2>2. member[s][w] = SystemAdmin /\ SystemAdmin # NULL
    BY <2>1, RoleAssumption DEF Inv, RowsOK, OwnerStaysAdmin, System
  <2>3. member'[s][w] = SystemAdmin
    BY <1>11, <2>2
  <2> QED
    BY <2>1, <2>3
<1>16. c \in System \cup RolesOf(t)
  BY <1>2, <1>3, <1>4, <1>7 DEF Inv, RowsOK, RolesFit
<1>17. RolesFit'
  <2>1. \A s \in Team : RolesOf(s)' = RolesOf(s)
    BY <1>3 DEF RolesOf, CustomRoles
  <2>2. \A s \in Team, w \in User : member'[s][w] # NULL => member'[s][w] \in System \cup RolesOf(s)
    BY <1>11, <1>16 DEF Inv, RowsOK, RolesFit
  <2>3. \A j \in Invite : invite'[j] # NULL => \E s : invite'[j].team = s
                                                    /\ invite'[j].role \in System \cup RolesOf(s)
    BY <1>9, <1>10, <1>16 DEF Inv, RowsOK, RolesFit
  <2>4. \A j \in Invite : invite'[j] # NULL => invite'[j].role \in System \cup RolesOf(invite[j].team)'
    BY <1>3, <2>3 DEF RolesOf, CustomRoles
  <2> QED
    BY <2>1, <2>2, <2>4 DEF RolesFit
<1>18. MembersWereInvited'
  <2> SUFFICES ASSUME NEW s \in Team, NEW w \in User, member'[s][w] # NULL,
                      ~(team[s] # NULL /\ team[s].owner = w)
               PROVE  \E j \in Invite : /\ invite'[j] # NULL /\ invite'[j].team = s
                                        /\ invite'[j].email = w /\ invite'[j].acceptedBy = w
    BY <1>3 DEF MembersWereInvited
  <2>1. CASE s = t /\ w = u
    BY <1>4, <1>9, <1>10, <2>1
  <2>2. CASE s # t \/ w # u
    <3>1. member[s][w] # NULL
      BY <1>11, <2>2
    <3>2. PICK j \in Invite : /\ invite[j] # NULL /\ invite[j].team = s
                              /\ invite[j].email = w /\ invite[j].acceptedBy = w
      BY <3>1 DEF Inv, RowsOK, MembersWereInvited
    <3>3. j # i
      BY <1>2, <1>6, <1>7, <2>2, <3>2
    <3> QED
      BY <1>10, <3>2, <3>3
  <2> QED
    BY <2>1, <2>2
<1> QED
  BY <1>3, <1>13, <1>14, <1>15, <1>17, <1>18, FinishWritten DEF RowsOK

LEMMA LapseInv == ASSUME Inv, NEW i \in Invite, Lapse(i) PROVE Inv'
<1>1. /\ invite[i] # NULL /\ invite' = [invite EXCEPT ![i].live = FALSE]
      /\ UNCHANGED <<team, member, role, minted, admitted, op, pc, requests, calm>>
  BY DEF Lapse
<1>2. invite[i] \in InviteRow
  BY <1>1, TypesHold DEF TablesType
<1> DEFINE row == [invite[i] EXCEPT !.live = FALSE]
<1>3. /\ row \in InviteRow
      /\ row.team = invite[i].team /\ row.email = invite[i].email
      /\ row.role = invite[i].role /\ row.acceptedBy = invite[i].acceptedBy
  BY <1>2 DEF InviteRow
<1>4. invite' = [invite EXCEPT ![i] = row]
  BY <1>1
<1> HIDE DEF row
<1>5. /\ invite' \in [Invite -> InviteRow \cup {NULL}] /\ invite'[i] = row /\ row # NULL
      /\ \A j \in Invite : j # i => invite'[j] = invite[j]
  BY <1>3, <1>4, NullAssumption, TypesHold DEF TablesType
<1>6. InvitesKeep
  BY <1>1, <1>3, <1>5 DEF InvitesKeep
<1>7. TablesType'
  BY <1>1, <1>5, TypesHold DEF TablesType
<1>8. Local'
  BY <1>1 DEF Inv, TypeInv, Local, Fits, Named
<1> QED
  BY <1>1, <1>6, <1>7, <1>8, InvitesWritten, Written

-----------------------------------------------------------------------------
(* The invariant.                                                          *)

LEMMA InitInv == ASSUME Init PROVE Inv
<1>1. \A t \in Team : /\ ~(\E u \in User : Home[u] = t) => team[t] = NULL
                      /\ \A u \in User : Home[u] = t => team[t] = [owner |-> u, isDefault |-> TRUE]
  <2> SUFFICES ASSUME NEW t \in Team, NEW u \in User, Home[u] = t
               PROVE  team[t] = [owner |-> u, isDefault |-> TRUE]
    BY DEF Init
  <2>1. (CHOOSE v \in User : Home[v] = t) = u
    BY HomeAssumption
  <2> QED
    BY <2>1 DEF Init
<1>2. \A t \in Team : team[t] # NULL => \E u \in User : Home[u] = t /\ team[t] = [owner |-> u, isDefault |-> TRUE]
  BY <1>1
<1>3. \A u \in User : [owner |-> u, isDefault |-> TRUE] \in TeamRow
  BY DEF TeamRow
<1>4. team \in [Team -> TeamRow \cup {NULL}]
  BY <1>1, <1>3 DEF Init
<1>5. member \in [Team -> [User -> Role \cup System \cup {NULL}]]
  BY DEF Init, System
<1>6. minted \subseteq Team \cup Role \cup Invite
  BY HomeAssumption DEF Init
<1>7. TypeOK
  BY <1>4, <1>5, <1>6 DEF Init, TypeOK, Pc
<1>8. Local
  BY <1>7 DEF Init, Local, TypeOK, Fits
<1>9. Ids
  BY <1>2, HomeAssumption DEF Init, Ids
<1>10. \A t \in Team, u \in User : member[t][u] = IF Home[u] = t THEN SystemAdmin ELSE NULL
  BY DEF Init
<1>11. OwnerStaysAdmin
  <2> SUFFICES ASSUME NEW t \in Team, team[t] # NULL
               PROVE  member[t][team[t].owner] = SystemAdmin
    BY DEF OwnerStaysAdmin
  <2>1. PICK u \in User : Home[u] = t /\ team[t] = [owner |-> u, isDefault |-> TRUE]
    BY <1>2
  <2>2. team[t].owner = u
    BY <2>1
  <2> QED
    BY <1>10, <2>1, <2>2
<1>12. RolesFit
  BY <1>10 DEF Init, RolesFit, System
<1>13. MembersWereInvited
  <2>1. \A t \in Team, u \in User : member[t][u] # NULL => team[t] # NULL /\ team[t].owner = u
    <3> SUFFICES ASSUME NEW t \in Team, NEW u \in User, member[t][u] # NULL
                 PROVE  team[t] # NULL /\ team[t].owner = u
      OBVIOUS
    <3>1. Home[u] = t
      BY <1>10
    <3>2. team[t] = [owner |-> u, isDefault |-> TRUE]
      BY <1>1, <3>1
    <3> QED
      BY <1>3, <3>2, NullAssumption
  <2> QED
    BY <2>1 DEF MembersWereInvited
<1>14. \A r \in Request : Knows(r)
  BY DEF Init, Knows
<1> QED
  BY <1>7, <1>8, <1>9, <1>11, <1>12, <1>13, <1>14 DEF Inv, TypeInv, RowsOK

LEMMA StutterInv == ASSUME Inv, UNCHANGED vars PROVE Inv'
<1>1. UNCHANGED <<team, member, role, invite, minted, op, pc, requests, admitted, calm>>
  BY DEF vars
<1>2. TypeOK' /\ Local'
  BY <1>1 DEF Inv, TypeInv, TypeOK, Local, Fits, Named
<1>3. RowsOK'
  BY <1>1, TablesSame DEF tables
<1>4. \A r \in Request : Knows(r)'
  BY <1>1 DEF Inv, Knows
<1> QED
  BY <1>2, <1>3, <1>4 DEF Inv, TypeInv

LEMMA NextInv == ASSUME Inv, [Next]_vars PROVE Inv'
<1>1. ASSUME NEW r \in Request, Step(r)
      PROVE  Inv'
  <2>1. CASE \E do \in Do : \E o \in Requests(do) : Start(r, o)
    BY <2>1, StartInv
  <2>2. CASE Access(r) \/ Membership(r) \/ IsDefault(r) \/ Usable(r) \/ OwnerOf(r) \/ Existing(r) \/ Load(r)
    BY <1>1, <2>2, ReadersInv
  <2>3. CASE Rename(r)
    BY <2>3, RefuseInv DEF Rename
  <2>4. CASE InsertTeam(r) \/ DeleteTeam(r) \/ SetRole(r) \/ DeleteMember(r)
    BY <2>4, InsertTeamInv, DeleteTeamInv, SetRoleInv, DeleteMemberInv
  <2>5. CASE InsertRole(r) \/ ChangeRole(r) \/ DropRole(r)
    BY <2>5, InsertRoleInv, ChangeRoleInv, DropRoleInv
  <2>6. CASE InsertInvite(r) \/ Revoke(r) \/ Expire(r) \/ Decline(r) \/ Join(r)
    BY <2>6, InsertInviteInv, ClosesInv, JoinInv
  <2> QED
    BY <1>1, <2>1, <2>2, <2>3, <2>4, <2>5, <2>6 DEF Step
<1> QED
  BY <1>1, LapseInv, StutterInv DEF Next

LEMMA Always == Spec => []Inv
  BY InitInv, NextInv, PTL DEF Spec

\* Rows and requests have their types, and a slot is idle exactly when it
\* serves no request (team.service.ts and invite.service.ts, every statement).
THEOREM TypeCorrect == Spec => []TypeOK
<1>1. Inv => TypeOK
  BY DEF Inv, TypeInv
<1> QED
  BY <1>1, Always, PTL

\* A team's owner is its member with the administrator's role, whatever role
\* changes, removals, invites and deletions interleave (team.service.ts,
\* updateMemberRole and removeMember).
THEOREM OwnersStayAdmins == Spec => []OwnerStaysAdmin
<1>1. Inv => OwnerStaysAdmin
  BY DEF Inv, RowsOK
<1> QED
  BY <1>1, Always, PTL

\* A member's role, and the role an invite will give, exists and belongs to the
\* same team (assertRoleUsable, deleteRole and the foreign keys of migration 004).
THEOREM RolesAlwaysFit == Spec => []RolesFit
<1>1. Inv => RolesFit
  BY DEF Inv, RowsOK
<1> QED
  BY <1>1, Always, PTL

\* Whoever is a member owns the team or accepted an invite to it that was
\* addressed to that user (invite.service.ts, accept).
THEOREM EveryMemberWasInvited == Spec => []MembersWereInvited
<1>1. Inv => MembersWereInvited
  BY DEF Inv, RowsOK
<1> QED
  BY <1>1, Always, PTL

-----------------------------------------------------------------------------
(* Handlers of one invite that do not overlap: whoever is about to write it *)
(* is alone and has it pending, as it was loaded.                          *)

Holder(q) == pc[q] \in {"join", "decline", "expire"}

Pends(i) == invite[i] # NULL => invite[i].status = "PENDING"

Counted(i) ==
    /\ admitted[i] <= 1
    /\ i \notin minted => admitted[i] = 0
    /\ invite[i] # NULL /\ invite[i].status # "ACCEPTED" => admitted[i] = 0

CalmInv ==
    calm => /\ \A q, s \in Request :
                   Holder(q) /\ Holder(s) /\ op[q].invite = op[s].invite => q = s
            /\ \A q \in Request : Holder(q) => Pends(op[q].invite)
            /\ \A i \in Invite : Counted(i)

\* Nobody starts to hold an invite, and those still held are pending.
LEMMA CalmStep ==
    ASSUME Inv, CalmInv, calm' = calm,
           \A q \in Request : Holder(q)' => Holder(q) /\ op'[q] = op[q],
           calm => \A q \in Request : Holder(q)' =>
               (invite'[op[q].invite] # NULL => invite'[op[q].invite].status = "PENDING"),
           calm => \A i \in Invite : Counted(i)'
    PROVE  CalmInv'
<1> SUFFICES ASSUME calm'
             PROVE  /\ \A q, s \in Request : Holder(q)' /\ Holder(s)' /\ op'[q].invite = op'[s].invite => q = s
                    /\ \A q \in Request : Holder(q)' => Pends(op[q].invite)'
  BY DEF CalmInv
<1>1. \A q, s \in Request : Holder(q)' /\ Holder(s)' /\ op'[q].invite = op'[s].invite => q = s
  BY DEF CalmInv
<1>2. \A q \in Request : Holder(q)' => Pends(op[q].invite)'
  BY DEF Pends
<1> QED
  BY <1>1, <1>2

\* An invite keeps its status or goes, and admits nobody.
StatusKeeps ==
    /\ minted \subseteq minted' /\ admitted' = admitted /\ calm' = calm
    /\ \A i \in Invite :
           invite'[i] # NULL => invite[i] # NULL /\ invite'[i].status = invite[i].status

LEMMA CalmKept ==
    ASSUME Inv, CalmInv, StatusKeeps,
           \A q \in Request : Holder(q)' => Holder(q) /\ op'[q] = op[q]
    PROVE  CalmInv'
<1>1. calm => \A i \in Invite : Counted(i)'
  BY DEF StatusKeeps, CalmInv, Counted
<1>2. ASSUME NEW q \in Request, Holder(q)', calm, invite'[op[q].invite] # NULL
      PROVE  invite'[op[q].invite].status = "PENDING"
  <2>1. Holder(q) /\ pc[q] # "idle"
    BY <1>2 DEF Holder
  <2>2. Named(op[q]) /\ Runs(pc[q], op[q].do)
    BY <2>1 DEF Inv, TypeInv, Local, Fits
  <2>3. op[q].invite \in Invite
    BY <2>1, <2>2, NeedDomain DEF Holder, Named, Runs, Do
  <2> QED
    BY <1>2, <2>1, <2>3 DEF StatusKeeps, CalmInv, Pends
<1> QED
  BY <1>1, <1>2, CalmStep DEF StatusKeeps

LEMMA FinishHolders ==
    ASSUME Inv, NEW r \in Request, Finish(r)
    PROVE  /\ \A q \in Request : Holder(q)' => q # r /\ Holder(q) /\ op'[q] = op[q]
           /\ calm' = calm
BY DEF Inv, TypeInv, TypeOK, Finish, Holder

LEMMA CalmRefused ==
    ASSUME Inv, CalmInv, NEW r \in Request, Refuse(r) PROVE CalmInv'
<1>1. Finish(r) /\ UNCHANGED tables
  BY DEF Refuse
<1>2. StatusKeeps
  BY <1>1, FinishHolders DEF tables, StatusKeeps
<1> QED
  BY <1>1, <1>2, FinishHolders, CalmKept

LEMMA CalmRead ==
    ASSUME Inv, CalmInv, NEW r \in Request, Step(r),
           Access(r) \/ Membership(r) \/ IsDefault(r) \/ Usable(r) \/ OwnerOf(r) \/ Existing(r)
    PROVE  CalmInv'
<1>1. pc[r] \in {"access", "member", "isDefault", "usable", "owner", "existing"} /\ pc[r] # "idle"
  BY DEF Access, Membership, IsDefault, Usable, OwnerOf, Existing
<1>2. op[r].do \notin {"join", "decline"}
  <2>1. Runs(pc[r], op[r].do)
    BY <1>1 DEF Inv, TypeInv, Local, Fits
  <2> QED
    BY <1>1, <2>1, NeedDomain DEF Runs
<1> SUFFICES ASSUME ~Refuse(r) PROVE CalmInv'
  BY CalmRefused
<1>3. UNCHANGED tables /\ op' = op /\ calm' = calm
  BY DEF Access, Membership, IsDefault, Usable, OwnerOf, Existing, Goto
<1>4. Local' /\ OthersKeep(r)
  BY <1>3, StepLocal DEF Inv, tables
<1>5. ~Holder(r)'
  <2>1. Fits(r)'
    BY <1>4 DEF Local
  <2>2. pc'[r] # "idle" => Runs(pc'[r], op[r].do)
    BY <1>3, <2>1 DEF Fits
  <2> QED
    BY <1>2, <2>2, NeedDomain DEF Holder, Runs, Do
<1>6. StatusKeeps
  BY <1>3 DEF tables, StatusKeeps
<1> QED
  BY <1>4, <1>5, <1>6, CalmKept DEF OthersKeep, Holder

LEMMA CalmStart ==
    ASSUME Inv, CalmInv, NEW r \in Request, NEW do \in Do, NEW o \in Requests(do), Start(r, o)
    PROVE  CalmInv'
<1>1. UNCHANGED tables /\ calm' = calm
  BY DEF Start
<1>2. pc'[r] \in {"insertTeam", "load", "access"}
  <2>1. pc' = [pc EXCEPT ![r] = CASE o.do = "insertTeam" -> "insertTeam"
                                  [] o.do \in {"join", "decline"} -> "load"
                                  [] OTHER -> "access"]
    BY DEF Start
  <2> QED
    BY <2>1 DEF Inv, TypeInv, TypeOK
<1>3. OthersKeep(r)
  BY <1>1, StepLocal DEF Inv, Step, tables
<1>4. StatusKeeps
  BY <1>1 DEF tables, StatusKeeps
<1> QED
  BY <1>2, <1>3, <1>4, CalmKept DEF OthersKeep, Holder

LEMMA CalmLoad ==
    ASSUME Inv, CalmInv, NEW r \in Request, Step(r), Load(r) PROVE CalmInv'
<1> SUFFICES ASSUME ~Refuse(r) PROVE CalmInv'
  BY CalmRefused
<1>1. PICK i : i = op[r].invite
  OBVIOUS
<1>2. /\ calm => Holding(i) = {}
      /\ invite[i] # NULL /\ invite[i].status = "PENDING"
      /\ UNCHANGED tables /\ op' = op /\ calm' = calm
  BY <1>1 DEF Load, Goto
<1>3. OthersKeep(r)
  BY <1>2, StepLocal DEF Inv, tables
<1> SUFFICES ASSUME calm
             PROVE  CalmInv'
  BY <1>2 DEF CalmInv
<1>4. \A q \in Request : q # r => (Holder(q)' <=> Holder(q))
  BY <1>3 DEF OthersKeep, Holder
<1>5. \A q \in Request : Holder(q) => op[q].invite # i
  BY <1>2 DEF Holding, Holder
<1>6. \A q, s \in Request : Holder(q)' /\ Holder(s)' /\ op'[q].invite = op'[s].invite => q = s
  BY <1>1, <1>2, <1>4, <1>5 DEF CalmInv
<1>7. \A q \in Request : Holder(q)' => Pends(op[q].invite)
  BY <1>1, <1>2, <1>4 DEF CalmInv, Pends
<1>8. \A q \in Request : Holder(q)' => Pends(op[q].invite)'
  BY <1>2, <1>7 DEF Pends, tables
<1>9. \A i_1 \in Invite : Counted(i_1)'
  BY <1>2 DEF CalmInv, Counted, tables
<1> QED
  BY <1>2, <1>6, <1>8, <1>9 DEF CalmInv

\* Writers that leave the status of every invite that stays.
LEMMA CalmOthers ==
    ASSUME Inv, CalmInv, NEW r \in Request,
           InsertTeam(r) \/ Rename(r) \/ DeleteTeam(r) \/ SetRole(r) \/ DeleteMember(r)
           \/ InsertRole(r) \/ ChangeRole(r) \/ DropRole(r)
    PROVE  CalmInv'
<1> SUFFICES ASSUME ~Refuse(r) PROVE CalmInv'
  BY CalmRefused
<1>1. Finish(r) /\ minted \subseteq minted' /\ admitted' = admitted
  BY DEF InsertTeam, Rename, DeleteTeam, SetRole, DeleteMember, InsertRole, ChangeRole, DropRole
<1>2. \A i \in Invite : invite'[i] # NULL => invite'[i] = invite[i]
  BY DEF InsertTeam, Rename, DeleteTeam, SetRole, DeleteMember, InsertRole, ChangeRole, DropRole
<1>3. StatusKeeps
  BY <1>1, <1>2, FinishHolders DEF StatusKeeps
<1> QED
  BY <1>1, <1>3, FinishHolders, CalmKept

LEMMA CalmInsert ==
    ASSUME Inv, CalmInv, NEW r \in Request, InsertInvite(r) PROVE CalmInv'
<1> SUFFICES ASSUME ~Refuse(r) PROVE CalmInv'
  BY CalmRefused
<1>0. PICK i \in Invite \ minted :
         /\ invite' = [invite EXCEPT ![i] =
                [team |-> op[r].team, email |-> op[r].whom, role |-> op[r].role,
                 status |-> "PENDING", live |-> TRUE, acceptedBy |-> NULL]]
         /\ minted' = minted \cup {i}
  BY DEF InsertInvite
<1> DEFINE row == [team |-> op[r].team, email |-> op[r].whom, role |-> op[r].role,
                   status |-> "PENDING", live |-> TRUE, acceptedBy |-> NULL]
<1>fresh. row.status = "PENDING"
  OBVIOUS
<1>1. invite' = [invite EXCEPT ![i] = row] /\ minted' = minted \cup {i}
  BY <1>0
<1> HIDE DEF row
<1>2. Finish(r) /\ admitted' = admitted
  BY DEF InsertInvite
<1>3. /\ invite'[i].status = "PENDING"
      /\ \A j \in Invite : j # i => invite'[j] = invite[j]
  BY <1>fresh, <1>1, TypesHold DEF TablesType
<1>4. calm => \A j \in Invite : Counted(j)'
  BY <1>1, <1>2, <1>3 DEF CalmInv, Counted
<1>5. ASSUME NEW q \in Request, Holder(q)', calm, invite'[op[q].invite] # NULL
      PROVE  invite'[op[q].invite].status = "PENDING"
  <2>1. Holder(q) /\ pc[q] # "idle"
    BY <1>2, <1>5, FinishHolders DEF Holder
  <2>2. Named(op[q]) /\ Runs(pc[q], op[q].do)
    BY <2>1 DEF Inv, TypeInv, Local, Fits
  <2>3. op[q].invite \in Invite \cap minted
    BY <2>1, <2>2, NeedDomain DEF Holder, Named, Runs, Do
  <2> QED
    BY <1>3, <1>5, <2>1, <2>3 DEF CalmInv, Pends
<1> QED
  BY <1>2, <1>4, <1>5, FinishHolders, CalmStep

\* The one who holds invite i, or revokes it while nobody does, ends it.
LEMMA CalmEnds ==
    ASSUME Inv, CalmInv, NEW r \in Request, Finish(r), NEW i \in Invite,
           calm => Pends(i) /\ \A q \in Request : Holder(q) /\ op[q].invite = i => q = r,
           \A j \in Invite : j # i => invite'[j] = invite[j],
           minted' = minted,
           calm => Counted(i)',
           \A j \in Invite : j # i => admitted'[j] = admitted[j]
    PROVE  CalmInv'
<1>1. calm => \A j \in Invite : Counted(j)'
  BY DEF CalmInv, Counted
<1>2. ASSUME NEW q \in Request, Holder(q)', calm, invite'[op[q].invite] # NULL
      PROVE  invite'[op[q].invite].status = "PENDING"
  <2>1. Holder(q) /\ pc[q] # "idle" /\ q # r
    BY <1>2, FinishHolders DEF Holder
  <2>2. Named(op[q]) /\ Runs(pc[q], op[q].do)
    BY <2>1 DEF Inv, TypeInv, Local, Fits
  <2>3. op[q].invite \in Invite /\ op[q].invite # i
    BY <1>2, <2>1, <2>2, NeedDomain DEF Holder, Named, Runs, Do
  <2> QED
    BY <1>2, <2>1, <2>3 DEF CalmInv, Pends
<1> QED
  BY <1>1, <1>2, FinishHolders, CalmStep

LEMMA CalmCloses ==
    ASSUME Inv, CalmInv, NEW r \in Request, Revoke(r) \/ Expire(r) \/ Decline(r) PROVE CalmInv'
<1> SUFFICES ASSUME ~Refuse(r) PROVE CalmInv'
  BY CalmRefused
<1>0. PICK i : i = op[r].invite
  OBVIOUS
<1>1. PICK status \in {"REVOKED", "EXPIRED", "DECLINED"} : SetStatus(i, status) /\ Finish(r)
  BY <1>0 DEF Revoke, Expire, Decline
<1>2. pc[r] \in {"revoke", "expire", "decline"} /\ pc[r] # "idle"
  BY DEF Revoke, Expire, Decline
<1>3. Named(op[r]) /\ Runs(pc[r], op[r].do)
  BY <1>2 DEF Inv, TypeInv, Local, Fits
<1>4. i \in Invite
  BY <1>0, <1>2, <1>3, NeedDomain DEF Named, Runs, Do
<1>5. calm => Pends(i) /\ \A q \in Request : Holder(q) /\ op[q].invite = i => q = r
  <2>1. CASE pc[r] = "revoke"
    <3>1. Revoke(r)
      BY <2>1 DEF Expire, Decline
    <3>2. (calm => Holding(i) = {}) /\ Pends(i)
      BY <1>0, <3>1 DEF Revoke, Pends
    <3> QED
      BY <3>2 DEF Holding, Holder
  <2>2. CASE pc[r] # "revoke"
    BY <1>0, <1>2, <2>2 DEF Holder, CalmInv
  <2> QED
    BY <2>1, <2>2
<1> DEFINE row == [invite[i] EXCEPT !.status = status]
<1>6. invite' = [invite EXCEPT ![i] = IF invite[i] = NULL THEN NULL ELSE row]
      /\ UNCHANGED <<minted, admitted>>
  BY <1>1 DEF SetStatus
<1>7. /\ invite'[i] = IF invite[i] = NULL THEN NULL ELSE row
      /\ \A j \in Invite : j # i => invite'[j] = invite[j]
  BY <1>4, <1>6, TypesHold DEF TablesType
<1>8. calm => Counted(i)'
  BY <1>4, <1>5, <1>6, <1>7 DEF CalmInv, Counted, Pends
<1> QED
  BY <1>1, <1>4, <1>5, <1>6, <1>7, <1>8, CalmEnds

LEMMA CalmJoin ==
    ASSUME Inv, CalmInv, NEW r \in Request, Join(r) PROVE CalmInv'
<1> SUFFICES ASSUME ~Refuse(r) PROVE CalmInv'
  BY CalmRefused
<1>1. PICK i, u : i = op[r].invite /\ u = op[r].user
  OBVIOUS
<1>2. /\ pc[r] = "join" /\ invite[i] # NULL
      /\ \/ admitted' = [admitted EXCEPT ![i] = @ + 1]
         \/ admitted' = admitted
      /\ invite' = [invite EXCEPT ![i].status = "ACCEPTED", ![i].acceptedBy = u]
      /\ Finish(r) /\ minted' = minted
  BY <1>1 DEF Join
<1>3. i \in Invite \cap minted
  BY <1>1, <1>2, Request_, NeedDomain DEF Do, Named
<1>4. invite[i] \in InviteRow
  BY <1>2, <1>3, TypesHold DEF TablesType
<1> DEFINE row == [[invite[i] EXCEPT !.status = "ACCEPTED"] EXCEPT !.acceptedBy = u]
<1>5. invite' = [invite EXCEPT ![i] = row]
  BY <1>2, <1>3, TypesHold DEF TablesType
<1>6. row.status = "ACCEPTED"
  BY <1>4 DEF InviteRow
<1> HIDE DEF row
<1>7. /\ invite'[i].status = "ACCEPTED"
      /\ \A j \in Invite : j # i => invite'[j] = invite[j]
  BY <1>3, <1>5, <1>6, TypesHold DEF TablesType
<1>8. calm => Pends(i) /\ \A q \in Request : Holder(q) /\ op[q].invite = i => q = r
  BY <1>1, <1>2 DEF Holder, CalmInv
<1>9. /\ admitted'[i] \in {admitted[i], admitted[i] + 1}
      /\ \A j \in Invite : j # i => admitted'[j] = admitted[j]
  BY <1>2, <1>3, TypesHold DEF TablesType
<1>10. calm => Counted(i)'
  <2>1. calm => admitted[i] = 0
    BY <1>2, <1>3, <1>8 DEF Pends, CalmInv, Counted
  <2> QED
    BY <1>2, <1>3, <1>7, <1>9, <2>1 DEF Counted
<1>11. Finish(r) /\ i \in Invite /\ minted' = minted
  BY <1>2, <1>3
<1>12. \A j \in Invite : j # i => invite'[j] = invite[j]
  BY <1>7
<1>13. \A j \in Invite : j # i => admitted'[j] = admitted[j]
  BY <1>9
<1> QED
  BY <1>8, <1>10, <1>11, <1>12, <1>13, CalmEnds

LEMMA CalmLapse == ASSUME Inv, CalmInv, NEW i \in Invite, Lapse(i) PROVE CalmInv'
<1>1. /\ invite[i] # NULL /\ invite' = [invite EXCEPT ![i] = [invite[i] EXCEPT !.live = FALSE]]
      /\ UNCHANGED <<minted, admitted, op, pc, calm>>
  BY DEF Lapse
<1>2. invite[i] \in InviteRow
  BY <1>1, TypesHold DEF TablesType
<1>3. [invite[i] EXCEPT !.live = FALSE].status = invite[i].status
  BY <1>2 DEF InviteRow
<1>4. StatusKeeps
  BY <1>1, <1>3, TypesHold DEF TablesType, StatusKeeps
<1> QED
  BY <1>1, <1>4, CalmKept DEF Holder

LEMMA CalmNext == ASSUME Inv, CalmInv, [Next]_vars PROVE CalmInv'
<1>1. ASSUME NEW r \in Request, Step(r)
      PROVE  CalmInv'
  <2>1. CASE \E do \in Do : \E o \in Requests(do) : Start(r, o)
    BY <2>1, CalmStart
  <2>2. CASE Access(r) \/ Membership(r) \/ IsDefault(r) \/ Usable(r) \/ OwnerOf(r) \/ Existing(r)
    BY <1>1, <2>2, CalmRead
  <2>3. CASE Load(r)
    BY <1>1, <2>3, CalmLoad
  <2>4. CASE InsertTeam(r) \/ Rename(r) \/ DeleteTeam(r) \/ SetRole(r) \/ DeleteMember(r)
             \/ InsertRole(r) \/ ChangeRole(r) \/ DropRole(r)
    BY <2>4, CalmOthers
  <2>5. CASE InsertInvite(r) \/ Revoke(r) \/ Expire(r) \/ Decline(r) \/ Join(r)
    BY <2>5, CalmInsert, CalmCloses, CalmJoin
  <2> QED
    BY <1>1, <2>1, <2>2, <2>3, <2>4, <2>5 DEF Step
<1>2. CASE UNCHANGED vars
  BY <1>2 DEF vars, CalmInv, Holder, Pends, Counted
<1> QED
  BY <1>1, <1>2, CalmLapse DEF Next

\* When the handlers of one invite do not overlap, the invite makes one member
\* at most and is not also declined, revoked or expired (invite.service.ts,
\* loadActionableInvite, accept and decline).
THEOREM OneInviteOneMember == Spec => []CalmAdmitsOnce
<1>1. Init => CalmInv
  BY DEF Init, CalmInv, Holder, Counted
<1>2. Inv /\ CalmInv => CalmAdmitsOnce
  BY DEF CalmInv, CalmAdmitsOnce, Counted
<1>3. Inv /\ CalmInv /\ [Next]_vars => CalmInv'
  BY CalmNext
<1>4. Spec => [](Inv /\ CalmInv)
  BY <1>1, <1>3, InitInv, NextInv, PTL DEF Spec
<1> QED
  BY <1>2, <1>4, PTL

-----------------------------------------------------------------------------
(* The handlers implement TeamBook: what r checked statements ago still     *)
(* holds when it writes.                                                   *)

\* Nothing outlives its team (the foreign keys of migration 004).
Attached ==
    \A t \in Team : team[t] = NULL =>
        /\ \A u \in User : member[t][u] = NULL
        /\ \A c \in Role : role[c] # NULL => role[c].team # t
        /\ \A i \in Invite : invite[i] # NULL => invite[i].team # t

\* What remove and loadActionableInvite have seen before they write.
Sees(r) ==
    LET o == op[r] IN
    /\ pc[r] = "deleteTeam" => (team[o.team] # NULL => ~team[o.team].isDefault)
    /\ pc[r] = "expire" => (invite[o.invite] # NULL => ~invite[o.invite].live)

BookInv == Attached /\ \A r \in Request : Sees(r)

\* A team stays default or not, and an invite past its time stays so.
Persist ==
    /\ minted \subseteq minted'
    /\ \A t \in Team \cap minted : team'[t] # NULL =>
           team[t] # NULL /\ team'[t].isDefault = team[t].isDefault
    /\ \A i \in Invite \cap minted : invite'[i] # NULL =>
           invite[i] # NULL /\ (~invite[i].live => ~invite'[i].live)

LEMMA InitBook == ASSUME Init PROVE Book!Init /\ BookInv
<1>1. \A t \in Team : team[t] = NULL => ~ \E u \in User : Home[u] = t
  <2> SUFFICES ASSUME NEW t \in Team, \E u \in User : Home[u] = t
               PROVE  team[t] # NULL
    OBVIOUS
  <2> DEFINE row == [owner |-> CHOOSE u \in User : Home[u] = t, isDefault |-> TRUE]
  <2>1. team[t] = row
    BY DEF Init
  <2>2. row \in TeamRow
    BY DEF TeamRow
  <2> QED
    BY <2>1, <2>2, NullAssumption
<1>2. Attached
  BY <1>1 DEF Init, Attached
<1> QED
  BY <1>2 DEF Init, Book!Init, BookInv, Sees

\* TeamBook speaks of the same rows.
LEMMA SameRows ==
    ASSUME NEW t
    PROVE  Book!RolesOf(t) = RolesOf(t)
BY DEF Book!RolesOf, RolesOf, CustomRoles

\* A step that writes invites only, or memberships of teams that exist.
LEMMA InvitesPersist ==
    ASSUME TablesType, Ids, Attached, UNCHANGED <<team, role>>, minted \subseteq minted',
           \A t \in Team : team[t] = NULL => member'[t] = member[t],
           \A i \in Invite : invite'[i] # NULL =>
               \/ /\ invite[i] # NULL /\ invite'[i].team = invite[i].team
                  /\ ~invite[i].live => ~invite'[i].live
               \/ i \notin minted /\ team[invite'[i].team] # NULL
    PROVE  Attached' /\ Persist
<1>1. Attached'
  BY DEF Attached
<1>2. Persist
  BY DEF Persist
<1> QED
  BY <1>1, <1>2

\* The rows of the book keep these promises, command by command.
LEMMA BookKeeps ==
    ASSUME TablesType, Ids, Attached, [Book!Next]_(Book!vars)
    PROVE  Attached' /\ Persist
<1> USE DEF TablesType
<1>1. ASSUME NEW t \in Team, NEW u \in User, Book!Found(t, u)
      PROVE  Attached' /\ Persist
  <2> DEFINE row == [owner |-> u, isDefault |-> FALSE]
  <2>1. row \in TeamRow
    BY DEF TeamRow
  <2>2. row # NULL /\ team' = [team EXCEPT ![t] = row]
    BY <1>1, <2>1, NullAssumption DEF Book!Found
  <2> HIDE DEF row
  <2>3. t \notin minted /\ minted \subseteq minted' /\ UNCHANGED <<role, invite>>
        /\ \A s \in Team : s # t => team'[s] = team[s] /\ member'[s] = member[s]
    BY <1>1, <2>2 DEF Book!Found
  <2>4. team'[t] # NULL
    BY <2>2
  <2>5. Attached'
    BY <2>3, <2>4 DEF Attached
  <2>6. Persist
    BY <2>3 DEF Persist
  <2> QED
    BY <2>5, <2>6
<1>2. ASSUME NEW t \in Team, Book!Disband(t)
      PROVE  Attached' /\ Persist
  <2>1. /\ team'[t] = NULL /\ minted' = minted
        /\ \A s \in Team : s # t => team'[s] = team[s] /\ member'[s] = member[s]
        /\ \A u \in User : member'[t][u] = NULL
    BY <1>2 DEF Book!Disband
  <2>2. /\ \A c \in Role : role'[c] # NULL => role'[c] = role[c] /\ role[c].team # t
        /\ \A i \in Invite : invite'[i] # NULL => invite'[i] = invite[i] /\ invite[i].team # t
    BY <1>2 DEF Book!Disband, Book!RolesOf, Book!InvitesTo
  <2>3. Attached'
    BY <2>1, <2>2 DEF Attached
  <2>4. Persist
    BY <2>1, <2>2 DEF Persist
  <2> QED
    BY <2>3, <2>4
<1>3. ASSUME NEW t \in Team, NEW u \in User, NEW c \in Role \cup System \cup {NULL},
             Book!Assign(t, u, c) \/ Book!Remove(t, u)
      PROVE  Attached' /\ Persist
  <2>1. team[t] # NULL /\ UNCHANGED <<team, role, invite, minted>>
    BY <1>3 DEF Book!Assign, Book!Remove, Book!Member
  <2>2. \A s \in Team : s # t => member'[s] = member[s]
    BY <1>3 DEF Book!Assign, Book!Remove
  <2> QED
    BY <2>1, <2>2, InvitesPersist
<1>4. ASSUME UNCHANGED <<team, member, invite, minted>>,
             \A c \in Role : role'[c] # NULL =>
                 (role[c] # NULL /\ role'[c].team = role[c].team) \/ team[role'[c].team] # NULL
      PROVE  Attached' /\ Persist
  BY <1>4 DEF Attached, Persist
<1>5. ASSUME NEW c \in Role, NEW t \in Team, NEW bag \in Bags, Book!Define(c, t, bag)
      PROVE  Attached' /\ Persist
  <2>1. role'[c].team = t /\ team[t] # NULL /\ UNCHANGED <<team, member, invite>>
        /\ minted \subseteq minted'
        /\ \A d \in Role : d # c => role'[d] = role[d]
    BY <1>5 DEF Book!Define
  <2> QED
    BY <2>1 DEF Attached, Persist
<1>6. ASSUME NEW c \in Role, NEW bag \in Bags, Book!Redefine(c, bag)
      PROVE  Attached' /\ Persist
  <2>1. role[c] \in RoleRow /\ UNCHANGED <<team, member, invite, minted>>
        /\ role' = [role EXCEPT ![c] = [role[c] EXCEPT !.permissions = bag]]
    BY <1>6 DEF Book!Redefine
  <2>2. [role[c] EXCEPT !.permissions = bag].team = role[c].team
    BY <2>1 DEF RoleRow
  <2>3. \A d \in Role : role'[d] # NULL => role[d] # NULL /\ role'[d].team = role[d].team
    BY <1>6, <2>1, <2>2 DEF Book!Redefine
  <2> QED
    BY <1>4, <2>1, <2>3
<1>7. ASSUME NEW c \in Role, Book!Retire(c)
      PROVE  Attached' /\ Persist
  <2>1. \A d \in Role : role'[d] # NULL => role'[d] = role[d]
    BY <1>7 DEF Book!Retire
  <2> QED
    BY <1>4, <1>7, <2>1 DEF Book!Retire
<1>8. ASSUME NEW i \in Invite, NEW t \in Team, NEW u \in User, NEW c, Book!Offer(i, t, u, c)
      PROVE  Attached' /\ Persist
  <2>1. /\ UNCHANGED <<team, member, role>> /\ i \notin minted /\ team[t] # NULL
        /\ invite'[i].team = t /\ minted \subseteq minted'
        /\ \A j \in Invite : j # i => invite'[j] = invite[j]
    BY <1>8 DEF Book!Offer
  <2> QED
    BY <2>1, InvitesPersist
<1>9. ASSUME NEW i \in Invite, NEW row,
             invite[i] # NULL, invite' = [invite EXCEPT ![i] = row],
             row.team = invite[i].team, ~invite[i].live => ~row.live
      PROVE  \A j \in Invite : invite'[j] # NULL =>
                 /\ invite[j] # NULL /\ invite'[j].team = invite[j].team
                 /\ ~invite[j].live => ~invite'[j].live
  BY <1>9
<1>10. ASSUME NEW i \in Invite, NEW status, Book!Close(i, status)
       PROVE  Attached' /\ Persist
  <2>1. invite[i] \in InviteRow /\ UNCHANGED <<team, member, role, minted>>
        /\ invite' = [invite EXCEPT ![i] = [invite[i] EXCEPT !.status = status]]
    BY <1>10 DEF Book!Close
  <2>2. /\ [invite[i] EXCEPT !.status = status].team = invite[i].team
        /\ [invite[i] EXCEPT !.status = status].live = invite[i].live
    BY <2>1 DEF InviteRow
  <2>3. \A j \in Invite : invite'[j] # NULL =>
                 /\ invite[j] # NULL /\ invite'[j].team = invite[j].team
                 /\ ~invite[j].live => ~invite'[j].live
    BY <1>9, <1>10, <2>1, <2>2 DEF Book!Close
  <2> QED
    BY <2>1, <2>3, InvitesPersist
<1>11. ASSUME NEW i \in Invite, Book!Lapse(i)
       PROVE  Attached' /\ Persist
  <2>1. invite[i] \in InviteRow /\ UNCHANGED <<team, member, role, minted>>
        /\ invite' = [invite EXCEPT ![i] = [invite[i] EXCEPT !.live = FALSE]]
    BY <1>11 DEF Book!Lapse
  <2>2. /\ [invite[i] EXCEPT !.live = FALSE].team = invite[i].team
        /\ ~[invite[i] EXCEPT !.live = FALSE].live
    BY <2>1 DEF InviteRow
  <2>3. \A j \in Invite : invite'[j] # NULL =>
                 /\ invite[j] # NULL /\ invite'[j].team = invite[j].team
                 /\ ~invite[j].live => ~invite'[j].live
    BY <1>9, <1>11, <2>1, <2>2 DEF Book!Lapse
  <2> QED
    BY <2>1, <2>3, InvitesPersist
<1>12. ASSUME NEW i \in Invite, Book!Accept(i)
       PROVE  Attached' /\ Persist
  <2> DEFINE v == invite[i]
             row == [[v EXCEPT !.status = "ACCEPTED"] EXCEPT !.acceptedBy = v.email]
  <2>1. v \in InviteRow /\ UNCHANGED <<team, role, minted>>
    BY <1>12 DEF Book!Accept
  <2>2. invite' = [invite EXCEPT ![i] = row]
    BY <1>12 DEF Book!Accept
  <2>3. row.team = v.team /\ row.live = v.live
    BY <2>1 DEF InviteRow
  <2>4. team[v.team] # NULL /\ v.team \in Team
    BY <1>12, <2>1 DEF Book!Accept, Attached, InviteRow
  <2>5. \A s \in Team : s # v.team => member'[s] = member[s]
    BY <1>12, <2>4 DEF Book!Accept
  <2> HIDE DEF row
  <2>6. \A j \in Invite : invite'[j] # NULL =>
                 /\ invite[j] # NULL /\ invite'[j].team = invite[j].team
                 /\ ~invite[j].live => ~invite'[j].live
    BY <1>9, <1>12, <2>2, <2>3 DEF Book!Accept
  <2> QED
    BY <2>1, <2>4, <2>5, <2>6, InvitesPersist
<1>13. CASE UNCHANGED Book!vars
  BY <1>13 DEF Book!vars, Attached, Persist
<1> QED
  BY <1>1, <1>2, <1>3, <1>5, <1>6, <1>7, <1>8, <1>10, <1>11, <1>12, <1>13
     DEF Book!Next, Book!TeamCommand, Book!RoleCommand, Book!InviteCommand, System

\* Whoever runs a statement of these has a request that names these rows.
LEMMA Holds ==
    ASSUME Inv, NEW r \in Request, pc[r] # "idle"
    PROVE  /\ pc[r] \in {"deleteTeam", "setRole", "deleteMember", "insertRole",
                         "changeRole", "dropRole", "insertInvite"} => op[r].team \in Team
           /\ pc[r] \in {"setRole", "deleteMember", "insertInvite"} => op[r].whom \in User
           /\ pc[r] \in {"revoke", "join", "decline", "expire"} => op[r].invite \in Invite
           /\ pc[r] \in {"insertTeam", "join"} => op[r].user \in User
<1>1. op[r] \in Op /\ Named(op[r]) /\ Runs(pc[r], op[r].do)
  BY DEF Inv, TypeInv, TypeOK, Local, Fits
<1>2. op[r].user \in User
  BY <1>1 DEF Op
<1> QED
  BY <1>1, <1>2, NeedDomain DEF Named, Runs, Do

\* A status is written to an invite that is still there, or nothing changes.
LEMMA SetsStatus ==
    ASSUME Inv, NEW i \in Invite, NEW status, SetStatus(i, status)
    PROVE  /\ UNCHANGED <<team, member, role, minted, admitted>>
           /\ \/ invite[i] = NULL /\ invite' = invite
              \/ invite[i] # NULL /\ invite' = [invite EXCEPT ![i].status = status]
<1>1. invite \in [Invite -> InviteRow \cup {NULL}]
  BY TypesHold DEF TablesType
<1>2. CASE invite[i] = NULL
  <2>1. invite' = [invite EXCEPT ![i] = NULL]
    BY <1>2 DEF SetStatus
  <2> QED
    BY <1>1, <1>2, <2>1 DEF SetStatus
<1>3. CASE invite[i] # NULL
  BY <1>3 DEF SetStatus
<1> QED
  BY <1>2, <1>3

\* A repeated removal finds nothing to remove.
LEMMA DeleteTeamBook ==
    ASSUME Inv, BookInv, NEW r \in Request, DeleteTeam(r)
    PROVE  [Book!Next]_(Book!vars)
<1>1. CASE Refuse(r)
  BY <1>1 DEF Refuse, Finish, tables, Book!vars
<1> SUFFICES ASSUME ~Refuse(r) PROVE [Book!Next]_(Book!vars)
  BY <1>1
<1>2. PICK t \in Team : t = op[r].team
  BY Holds DEF DeleteTeam
<1>3. /\ team' = [team EXCEPT ![t] = NULL]
      /\ member' = [member EXCEPT ![t] = [u \in User |-> NULL]]
      /\ role' = [c \in Role |-> IF c \in RolesOf(t) THEN NULL ELSE role[c]]
      /\ invite' = [i \in Invite |->
            IF invite[i] # NULL /\ invite[i].team = t THEN NULL ELSE invite[i]]
      /\ UNCHANGED <<minted, admitted, calm>> /\ pc[r] = "deleteTeam"
  BY <1>2 DEF DeleteTeam, Finish
<1>4. CASE team[t] = NULL
  <2>1. /\ \A u \in User : member[t][u] = NULL
        /\ \A c \in Role : role[c] # NULL => role[c].team # t
        /\ \A i \in Invite : invite[i] # NULL => invite[i].team # t
    BY <1>4 DEF BookInv, Attached
  <2>2. TablesType
    BY TypesHold
  <2>3. team' = team
    BY <1>3, <1>4, <2>2 DEF TablesType
  <2>4. member' = member
    <3>1. member[t] = [u \in User |-> NULL]
      BY <2>1, <2>2 DEF TablesType
    <3> QED
      BY <1>3, <2>2, <3>1 DEF TablesType
  <2>5. role' = role
    BY <1>3, <2>1, <2>2 DEF TablesType, RolesOf, CustomRoles
  <2>6. invite' = invite
    BY <1>3, <2>1, <2>2 DEF TablesType
  <2> QED
    BY <1>3, <2>3, <2>4, <2>5, <2>6 DEF Book!vars
<1>5. CASE team[t] # NULL
  <2>1. ~team[t].isDefault
    BY <1>2, <1>3, <1>5 DEF BookInv, Sees
  <2>2. invite' = [i \in Invite |-> IF i \in Book!InvitesTo(t) THEN NULL ELSE invite[i]]
    BY <1>3 DEF Book!InvitesTo
  <2>3. Book!Disband(t)
    BY <1>3, <1>5, <2>1, <2>2, SameRows DEF Book!Disband
  <2> QED
    BY <2>3 DEF Book!Next, Book!TeamCommand
<1> QED
  BY <1>4, <1>5

\* Members, and the roles they get.
LEMMA MembersBook ==
    ASSUME Inv, BookInv, NEW r \in Request, InsertTeam(r) \/ SetRole(r) \/ DeleteMember(r)
    PROVE  [Book!Next]_(Book!vars)
<1>0. CASE Refuse(r)
  BY <1>0 DEF Refuse, Finish, tables, Book!vars
<1> SUFFICES ASSUME ~Refuse(r) PROVE [Book!Next]_(Book!vars)
  BY <1>0
<1>1. CASE InsertTeam(r)
  <2>1. PICK u \in User : u = op[r].user
    BY <1>1, Holds DEF InsertTeam
  <2>2. \E t \in Team : Book!Found(t, u)
    BY <1>1, <2>1 DEF InsertTeam, Finish, Book!Found
  <2> QED
    BY <2>2 DEF Book!Next, Book!TeamCommand
<1> DEFINE o == op[r]
<1>2. ASSUME o.team \in Team, o.whom \in User, pc[r] \in {"setRole", "deleteMember"},
             member[o.team][o.whom] # NULL
      PROVE  Book!Member(o.team, o.whom)
  <2>1. team[o.team] # NULL
    BY <1>2 DEF BookInv, Attached
  <2>2. team[o.team].owner # o.whom
    BY <1>2, <2>1 DEF Inv, Knows
  <2> QED
    BY <1>2, <2>1, <2>2 DEF Book!Member
<1>3. CASE SetRole(r)
  <2>1. /\ pc[r] = "setRole" /\ o.team \in Team /\ o.whom \in User
        /\ member[o.team][o.whom] # NULL /\ o.role \in System \cup CustomRoles
        /\ member' = [member EXCEPT ![o.team][o.whom] = o.role]
        /\ UNCHANGED <<team, role, invite, minted, admitted, calm>>
    BY <1>3, Holds DEF SetRole, Finish
  <2>2. o.role \in System \cup RolesOf(o.team)
    BY <2>1 DEF Inv, Knows, CustomRoles, RolesOf
  <2>3. Book!Usable(o.role, o.team) /\ o.role \in Role \cup System
    BY <2>1, <2>2, SameRows DEF Book!Usable, System, CustomRoles
  <2>4. Book!Assign(o.team, o.whom, o.role)
    BY <1>2, <2>1, <2>3 DEF Book!Assign
  <2> QED
    BY <2>1, <2>3, <2>4 DEF Book!Next, Book!TeamCommand, System
<1>4. CASE DeleteMember(r)
  <2>1. /\ pc[r] = "deleteMember" /\ o.team \in Team /\ o.whom \in User
        /\ member' = [member EXCEPT ![o.team][o.whom] = NULL]
        /\ UNCHANGED <<team, role, invite, minted, admitted, calm>>
    BY <1>4, Holds DEF DeleteMember, Finish
  <2>2. CASE member[o.team][o.whom] = NULL
    <3>1. member' = member
      BY <2>1, <2>2, TypesHold DEF TablesType
    <3> QED
      BY <2>1, <3>1 DEF Book!vars
  <2>3. CASE member[o.team][o.whom] # NULL
    <3>1. Book!Remove(o.team, o.whom)
      BY <1>2, <2>1, <2>3 DEF Book!Remove
    <3> QED
      BY <2>1, <3>1 DEF Book!Next, Book!TeamCommand
  <2> QED
    BY <2>2, <2>3
<1> QED
  BY <1>1, <1>3, <1>4

\* Roles.
LEMMA RolesBook ==
    ASSUME Inv, NEW r \in Request, InsertRole(r) \/ ChangeRole(r) \/ DropRole(r)
    PROVE  [Book!Next]_(Book!vars)
<1>0. CASE Refuse(r)
  BY <1>0 DEF Refuse, Finish, tables, Book!vars
<1> SUFFICES ASSUME ~Refuse(r) PROVE [Book!Next]_(Book!vars)
  BY <1>0
<1>1. CASE InsertRole(r)
  <2>1. PICK t \in Team : t = op[r].team
    BY <1>1, Holds DEF InsertRole
  <2>2. \E c \in Role : \E bag \in Bags : Book!Define(c, t, bag)
    BY <1>1, <2>1 DEF InsertRole, Finish, Book!Define
  <2> QED
    BY <2>2 DEF Book!Next, Book!RoleCommand
<1> DEFINE c == op[r].role
<1>2. CASE ChangeRole(r)
  <2>1. c \in Role /\ role[c] # NULL
    BY <1>2 DEF ChangeRole, RolesOf, CustomRoles
  <2>2. \E bag \in Bags : Book!Redefine(c, bag)
    BY <1>2, <2>1 DEF ChangeRole, Finish, Book!Redefine
  <2> QED
    BY <2>1, <2>2 DEF Book!Next, Book!RoleCommand
<1>3. CASE DropRole(r)
  <2>1. c \in Role /\ role[c] # NULL /\ ~InUse(c)
    BY <1>3 DEF DropRole, RolesOf, CustomRoles
  <2>2. Book!Retire(c)
    BY <1>3, <2>1 DEF DropRole, Finish, InUse, Book!Retire
  <2> QED
    BY <2>1, <2>2 DEF Book!Next, Book!RoleCommand
<1> QED
  BY <1>1, <1>2, <1>3

\* Invites.
LEMMA InvitesBook ==
    ASSUME Inv, CalmInv, BookInv, NEW r \in Request,
           InsertInvite(r) \/ Revoke(r) \/ Expire(r) \/ Decline(r) \/ Join(r)
    PROVE  [Book!Next]_(Book!vars)
<1>0. CASE Refuse(r)
  BY <1>0 DEF Refuse, Finish, tables, Book!vars
<1> SUFFICES ASSUME ~Refuse(r) PROVE [Book!Next]_(Book!vars)
  BY <1>0
<1> DEFINE o == op[r]
           i == o.invite
<1>1. CASE InsertInvite(r)
  <2>1. /\ pc[r] = "insertInvite" /\ o.team \in Team /\ o.whom \in User
        /\ team[o.team] # NULL /\ o.role \in System \cup CustomRoles
        /\ Pending(o.team, o.whom) = {}
    BY <1>1, Holds DEF InsertInvite
  <2>2. o.role \in System \cup RolesOf(o.team)
    BY <2>1 DEF Inv, Knows, CustomRoles, RolesOf
  <2>3. Book!Usable(o.role, o.team) /\ o.role \in Role \cup {SystemAdmin, SystemMember}
    BY <2>1, <2>2, SameRows DEF Book!Usable, System, CustomRoles
  <2>4. \A j \in Book!InvitesTo(o.team) : invite[j].email = o.whom => ~Book!Pending(j)
    BY <2>1 DEF Book!InvitesTo, Book!Pending, Pending
  <2>5. \E j \in Invite : Book!Offer(j, o.team, o.whom, o.role)
    BY <1>1, <2>1, <2>3, <2>4 DEF InsertInvite, Finish, Book!Offer
  <2> QED
    BY <2>1, <2>3, <2>5 DEF Book!Next, Book!InviteCommand
<1>2. ASSUME NEW status \in {"REVOKED", "DECLINED", "EXPIRED"}, i \in Invite,
             SetStatus(i, status), calm' = calm,
             invite[i] # NULL => (calm \/ status = "REVOKED" => invite[i].status = "PENDING"),
             invite[i] # NULL => (status = "EXPIRED" => ~invite[i].live)
      PROVE  [Book!Next]_(Book!vars)
  <2>1. CASE invite' = invite
    BY <1>2, <2>1, SetsStatus DEF Book!vars
  <2>2. CASE invite[i] # NULL /\ invite' = [invite EXCEPT ![i].status = status]
    <3>1. Book!Close(i, status)
      BY <1>2, <2>2, SetsStatus DEF Book!Close, Book!Pending
    <3> QED
      BY <1>2, <3>1 DEF Book!Next, Book!InviteCommand
  <2> QED
    BY <1>2, <2>1, <2>2, SetsStatus
<1>3. CASE Revoke(r)
  <2>1. /\ i \in Invite /\ invite[i].status = "PENDING"
        /\ SetStatus(i, "REVOKED") /\ calm' = calm
    BY <1>3, Holds DEF Revoke, Finish
  <2> QED
    BY <1>2, <2>1
<1>4. CASE Expire(r)
  <2>1. i \in Invite /\ pc[r] = "expire" /\ SetStatus(i, "EXPIRED") /\ calm' = calm
    BY <1>4, Holds DEF Expire, Finish
  <2>2. invite[i] # NULL => (calm => invite[i].status = "PENDING") /\ ~invite[i].live
    BY <2>1 DEF CalmInv, Holder, Pends, BookInv, Sees
  <2> QED
    BY <1>2, <2>1, <2>2
<1>5. CASE Decline(r)
  <2>1. i \in Invite /\ pc[r] = "decline" /\ SetStatus(i, "DECLINED") /\ calm' = calm
    BY <1>5, Holds DEF Decline, Finish
  <2>2. invite[i] # NULL => (calm => invite[i].status = "PENDING")
    BY <2>1 DEF CalmInv, Holder, Pends
  <2> QED
    BY <1>2, <2>1, <2>2
<1>6. CASE Join(r)
  <2>1. i \in Invite /\ pc[r] = "join" /\ invite[i] # NULL /\ calm' = calm
    BY <1>6, Holds DEF Join, Finish
  <2>2. o.user = invite[i].email
    BY <2>1 DEF Inv, Knows
  <2>3. calm => Book!Pending(i)
    BY <2>1 DEF CalmInv, Holder, Pends, Book!Pending
  <2>4. Book!Accept(i)
    BY <1>6, <2>1, <2>2, <2>3 DEF Join, Book!Accept
  <2> QED
    BY <2>1, <2>4 DEF Book!Next, Book!InviteCommand
<1> QED
  BY <1>1, <1>3, <1>4, <1>5, <1>6

\* Every step is a command of the book, or leaves it as it is.
LEMMA NextBook ==
    ASSUME Inv, CalmInv, BookInv, [Next]_vars
    PROVE  [Book!Next]_(Book!vars)
<1>1. ASSUME UNCHANGED tables, calm' = calm
      PROVE  [Book!Next]_(Book!vars)
  BY <1>1 DEF tables, Book!vars
<1>2. ASSUME NEW r \in Request, Step(r)
      PROVE  [Book!Next]_(Book!vars)
  <2>1. CASE \E do \in Do : \E o \in Requests(do) : Start(r, o)
    BY <1>1, <2>1 DEF Start
  <2>2. CASE Access(r) \/ Membership(r) \/ IsDefault(r) \/ Usable(r) \/ OwnerOf(r)
             \/ Existing(r) \/ Load(r) \/ Rename(r)
    BY <1>1, <2>2 DEF Access, Membership, IsDefault, Usable, OwnerOf, Existing, Load,
       Rename, Refuse, Goto, Finish
  <2>3. CASE DeleteTeam(r)
    BY <2>3, DeleteTeamBook
  <2>4. CASE InsertTeam(r) \/ SetRole(r) \/ DeleteMember(r)
    BY <2>4, MembersBook
  <2>5. CASE InsertRole(r) \/ ChangeRole(r) \/ DropRole(r)
    BY <2>5, RolesBook
  <2>6. CASE InsertInvite(r) \/ Revoke(r) \/ Expire(r) \/ Decline(r) \/ Join(r)
    BY <2>6, InvitesBook
  <2> QED
    BY <1>2, <2>1, <2>2, <2>3, <2>4, <2>5, <2>6 DEF Step
<1>3. ASSUME NEW i \in Invite, Lapse(i)
      PROVE  [Book!Next]_(Book!vars)
  <2>1. Book!Lapse(i)
    BY <1>3 DEF Lapse, Book!Lapse
  <2> QED
    BY <2>1 DEF Book!Next, Book!InviteCommand
<1>4. CASE UNCHANGED vars
  BY <1>1, <1>4 DEF vars, tables
<1> QED
  BY <1>2, <1>3, <1>4 DEF Next

\* The handlers learn what Sees says from IsDefault and Load alone.
LEMMA NextSees ==
    ASSUME Inv, BookInv, Persist, [Next]_vars, NEW q \in Request
    PROVE  Sees(q)'
<1>1. ASSUME pc'[q] = pc[q], op'[q] = op[q]
      PROVE  Sees(q)'
  <2>1. CASE pc[q] \notin {"deleteTeam", "expire"}
    BY <1>1, <2>1 DEF Sees
  <2>2. CASE pc[q] \in {"deleteTeam", "expire"}
    <3>1. Named(op[q]) /\ Runs(pc[q], op[q].do)
      BY <2>2 DEF Inv, TypeInv, Local, Fits
    <3>2. /\ pc[q] = "deleteTeam" => op[q].team \in Team \cap minted
          /\ pc[q] = "expire" => op[q].invite \in Invite \cap minted
      BY <3>1, NeedDomain DEF Named, Runs, Do
    <3> QED
      BY <1>1, <2>2, <3>2 DEF BookInv, Sees, Persist
  <2> QED
    BY <2>1, <2>2
<1>2. ASSUME pc'[q] \notin {"deleteTeam", "expire"}
      PROVE  Sees(q)'
  BY <1>2 DEF Sees
<1>3. ASSUME NEW label, Goto(q, label)
      PROVE  pc'[q] = label /\ op'[q] = op[q]
  BY <1>3 DEF Goto, Inv, TypeInv, TypeOK
<1>4. CASE Step(q)
  <2>1. ASSUME NEW do \in Do, NEW o \in Requests(do), Start(q, o)
        PROVE  Sees(q)'
    <3>1. pc'[q] \in {"insertTeam", "load", "access"}
      <4>1. pc' = [pc EXCEPT ![q] = CASE o.do = "insertTeam" -> "insertTeam"
                                      [] o.do \in {"join", "decline"} -> "load"
                                      [] OTHER -> "access"]
        BY <2>1 DEF Start
      <4> QED
        BY <4>1 DEF Inv, TypeInv, TypeOK
    <3> QED
      BY <1>2, <3>1
  <2>2. CASE ~ \E do \in Do : \E o \in Requests(do) : Start(q, o)
    <3>1. Moves(q) /\ Runs(pc[q], op[q].do) /\ op[q] \in Op
      BY <1>4, <2>2, StepMoves DEF Inv, TypeInv, TypeOK, Local, Fits, Moves
    <3>2. CASE Finish(q)
      BY <1>2, <3>2 DEF Finish, Inv, TypeInv, TypeOK
    <3>3. CASE ~Finish(q)
      <4>1. Access(q) \/ Membership(q) \/ IsDefault(q) \/ Usable(q) \/ OwnerOf(q)
            \/ Existing(q) \/ Load(q)
        BY <1>4, <2>2, <3>3 DEF Step, Rename, InsertTeam, DeleteTeam, SetRole, DeleteMember,
           InsertRole, ChangeRole, DropRole, InsertInvite, Revoke, Expire, Decline, Join,
           Refuse
      <4>2. \A do \in DOMAIN Need : Body(do) \notin {"deleteTeam", "expire"}
        BY NeedDomain DEF Body
      <4>3. CASE Access(q) \/ Membership(q)
        <5>1. op[q].do \in DOMAIN Need
          BY <3>1, <4>3, NeedDomain DEF Access, Membership, Runs, Do
        <5>2. Goto(q, Body(op[q].do)) \/ Goto(q, "member")
          BY <3>3, <4>3 DEF Access, Membership, Refuse
        <5> QED
          BY <1>2, <1>3, <4>2, <5>1, <5>2
      <4>4. CASE IsDefault(q)
        <5>1. /\ Goto(q, "deleteTeam") /\ UNCHANGED tables
              /\ team[op[q].team] # NULL => ~team[op[q].team].isDefault
          BY <3>3, <4>4 DEF IsDefault, Refuse
        <5> QED
          BY <1>3, <5>1 DEF Sees, tables
      <4>5. CASE Usable(q) \/ OwnerOf(q) \/ Existing(q)
        <5>1. OwnerOf(q) => op[q].do \in {"setRole", "deleteMember"}
          BY <3>1, NeedDomain DEF OwnerOf, Runs, Do
        <5>2. \E label \in {"owner", "existing", "insertInvite", "setRole", "deleteMember"} :
                 Goto(q, label)
          BY <3>3, <4>5, <5>1 DEF Usable, OwnerOf, Existing, Refuse
        <5> QED
          BY <1>2, <1>3, <5>2
      <4>6. CASE Load(q)
        <5>1. op[q].do \in {"join", "decline"}
          BY <3>1, <4>6, NeedDomain DEF Load, Runs, Do
        <5>2. /\ UNCHANGED tables
              /\ \/ Goto(q, "expire") /\ ~invite[op[q].invite].live
                 \/ Goto(q, op[q].do)
          BY <3>3, <4>6 DEF Load, Refuse
        <5> QED
          BY <1>2, <1>3, <5>1, <5>2 DEF Sees, tables
      <4> QED
        BY <4>1, <4>3, <4>4, <4>5, <4>6
    <3> QED
      BY <3>2, <3>3
  <2> QED
    BY <2>1, <2>2
<1>5. ASSUME NEW r \in Request, Step(r), r # q
      PROVE  pc'[q] = pc[q] /\ op'[q] = op[q]
  BY <1>5, StepLocal DEF Inv, OthersKeep, Persist
<1>6. CASE (\E i \in Invite : Lapse(i)) \/ UNCHANGED vars
  BY <1>1, <1>6 DEF Lapse, vars
<1> QED
  BY <1>1, <1>4, <1>5, <1>6 DEF Next

\* The handlers of the two services implement the book of whole commands, for
\* every number of users, teams, roles, invites and requests: what they checked
\* before, the ownership, the role's team, the default team, the invite's time,
\* is true when they write (team.service.ts and invite.service.ts).
THEOREM HandlersImplementBook == Spec => RefinesBook
<1> DEFINE All == Inv /\ CalmInv /\ BookInv
<1>1. Init => All /\ Book!Init
  BY InitInv, InitBook DEF Init, CalmInv, Holder, Counted
<1>2. All /\ [Next]_vars => [Book!Next]_(Book!vars)
  BY NextBook
<1>3. All /\ [Next]_vars => BookInv'
  BY <1>2, TypesHold, BookKeeps, NextSees DEF Inv, RowsOK, BookInv
<1>4. All /\ [Next]_vars => All'
  BY <1>3, NextInv, CalmNext
<1> QED
  BY <1>1, <1>2, <1>4, PTL DEF Spec, RefinesBook, Book!Spec
=============================================================================
