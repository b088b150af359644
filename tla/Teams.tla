-------------------------------- MODULE Teams --------------------------------
(***************************************************************************)
(* Teams, their members, roles and invites: team.service.ts and            *)
(* invite.service.ts over the tables of migration 004, each handler as the *)
(* awaited statements it runs, authorization.service.ts among them.        *)
(* Left out: names (of teams and roles; the unique indexes on them may     *)
(* refuse a statement), the read-only handlers, and the events and the     *)
(* mail that follow a write.                                               *)
(***************************************************************************)
EXTENDS Naturals, FiniteSets

CONSTANTS
    User, Team, Role, Invite, Request, NULL,
    SystemAdmin,  \* ADMIN_SYSTEM_ROLE_ID: 'role_system_admin'
    SystemMember, \* 'role_system_member'
    AppAdmin,     \* the users whose User.role is ADMIN
    Home,         \* the default team that signUp made for a user
    Bags,         \* the sets of permissions a custom role may be given
    MaxRequests   \* bound on the requests that are made

Permission == {"MEMBER_INVITE", "MEMBER_REMOVE", "MEMBER_UPDATE_ROLE", "ROLE_CREATE",
               "ROLE_UPDATE", "ROLE_DELETE", "TEAM_UPDATE", "TEAM_DELETE"}
System == {SystemAdmin, SystemMember}

ASSUME UserAssumption == NULL \notin User /\ AppAdmin \subseteq User
ASSUME HomeAssumption ==
    /\ Home \in [User -> Team \cup {NULL}] /\ NULL \notin Team
    /\ \A u, v \in User : Home[u] # NULL /\ Home[u] = Home[v] => u = v
ASSUME RoleAssumption ==
    /\ SystemAdmin # SystemMember /\ System \cap Role = {} /\ NULL \notin Role \cup System
    /\ Bags \subseteq SUBSET Permission
ASSUME BoundAssumption == MaxRequests \in Nat

VARIABLES
    team,     \* rows of "Team"
    member,   \* "TeamMember": the role of a user in a team, or NULL
    role,     \* rows of "Role" that belong to a team
    invite,   \* rows of "Invite"
    minted,   \* ids already handed out: none is used twice
    op, pc,   \* the request a slot serves, and its next statement
    requests, \* requests made so far
    admitted, \* history: how often an invite made its user a member
    calm      \* whether the handlers of one invite run one after the other

tables == <<team, member, role, invite, minted, admitted>>
vars == <<team, member, role, invite, minted, op, pc, requests, admitted, calm>>

TeamRow == [owner : User, isDefault : BOOLEAN]
RoleRow == [team : Team, permissions : SUBSET Permission]
Status == {"PENDING", "ACCEPTED", "DECLINED", "REVOKED", "EXPIRED"}
InviteRow == [team : Team, email : User, role : Role \cup System, status : Status,
              live : BOOLEAN, acceptedBy : User \cup {NULL}]

\* What the handlers of the two services are asked to do, and the permission
\* that each asks for first.
Need == [rename |-> "TEAM_UPDATE", deleteTeam |-> "TEAM_DELETE",
         setRole |-> "MEMBER_UPDATE_ROLE", deleteMember |-> "MEMBER_REMOVE",
         insertRole |-> "ROLE_CREATE", changeRole |-> "ROLE_UPDATE",
         dropRole |-> "ROLE_DELETE", insertInvite |-> "MEMBER_INVITE",
         revoke |-> "MEMBER_INVITE"]
Do == DOMAIN Need \cup {"insertTeam", "join", "decline"}
Op == [do : Do, user : User, team : Team \cup {NULL}, whom : User \cup {NULL},
       role : Role \cup System \cup {NULL}, invite : Invite \cup {NULL}]
Pc == Do \cup {"idle", "access", "member", "isDefault", "usable", "owner", "existing",
               "load", "expire"}

ASSUME NullAssumption == NULL \notin TeamRow \cup RoleRow \cup InviteRow \cup Op

Init ==
    /\ team = [t \in Team |-> IF \E u \in User : Home[u] = t
                              THEN [owner |-> CHOOSE u \in User : Home[u] = t, isDefault |-> TRUE]
                              ELSE NULL]
    /\ member = [t \in Team |-> [u \in User |-> IF Home[u] = t THEN SystemAdmin ELSE NULL]]
    /\ role = [c \in Role |-> NULL]
    /\ invite = [i \in Invite |-> NULL]
    /\ minted = {Home[u] : u \in User} \ {NULL}
    /\ op = [r \in Request |-> NULL]
    /\ pc = [r \in Request |-> "idle"]
    /\ requests = 0
    /\ admitted = [i \in Invite |-> 0]
    /\ calm \in BOOLEAN

Goto(r, label) == pc' = [pc EXCEPT ![r] = label] /\ UNCHANGED <<op, requests, calm>>

\* The handler answers, or throws: 403, 404, or 409 for a refused statement.
Finish(r) ==
    /\ pc' = [pc EXCEPT ![r] = "idle"] /\ op' = [op EXCEPT ![r] = NULL]
    /\ UNCHANGED <<requests, calm>>

Refuse(r) == Finish(r) /\ UNCHANGED tables

Given(S, yes) == IF yes THEN S ELSE {NULL}

\* The requests a client can make: roles and invites of any team may be named.
Requests(do) ==
    [do : {do}, user : User,
     team : Given(Team \cap minted, do \in DOMAIN Need),
     whom : Given(User, do \in {"setRole", "deleteMember", "insertInvite"}),
     role : Given((Role \cap minted) \cup (IF do \in {"changeRole", "dropRole"} THEN {} ELSE System),
                  do \in {"setRole", "changeRole", "dropRole", "insertInvite"}),
     invite : Given(Invite \cap minted, do \in {"revoke", "join", "decline"})]

Start(r, o) ==
    /\ pc[r] = "idle" /\ requests < MaxRequests
    /\ requests' = requests + 1
    /\ op' = [op EXCEPT ![r] = o]
    /\ pc' = [pc EXCEPT ![r] = CASE o.do = "insertTeam" -> "insertTeam"
                                 [] o.do \in {"join", "decline"} -> "load"
                                 [] OTHER -> "access"]
    /\ UNCHANGED <<tables, calm>>

\* What follows the authorization of an operation.
Body(do) ==
    CASE do = "deleteTeam" -> "isDefault"
      [] do \in {"setRole", "insertInvite"} -> "usable"
      [] do = "deleteMember" -> "owner"
      [] OTHER -> do

\* getTeamAccess: the team's row; its owner and app administrators pass.
Access(r) ==
    LET o == op[r] IN
    /\ pc[r] = "access"
    /\ \/ team[o.team] = NULL /\ Refuse(r)
       \/ /\ team[o.team] # NULL
          /\ Goto(r, IF team[o.team].owner = o.user \/ o.user \in AppAdmin
                     THEN Body(o.do) ELSE "member")
          /\ UNCHANGED tables

\* Custom roles, and those of them that belong to team t.
CustomRoles == {c \in Role : role[c] # NULL}
RolesOf(t) == {c \in CustomRoles : role[c].team = t}

\* The permissions of a role, system or custom.
Grants(c) ==
    CASE c = SystemAdmin -> Permission
      [] c = SystemMember -> {}
      [] OTHER -> role[c].permissions

\* getTeamAccess: the member's row; then assertTeamPermission.
Membership(r) ==
    LET o == op[r]
        may == member[o.team][o.user] # NULL /\ Need[o.do] \in Grants(member[o.team][o.user])
    IN
    /\ pc[r] = "member"
    /\ \/ ~may /\ Refuse(r)
       \/ may /\ Goto(r, Body(o.do)) /\ UNCHANGED tables

\* Mutant: the default team is deleted like any other.
DeletesAny(r) ==
    /\ pc[r] = "isDefault"
    /\ Goto(r, "deleteTeam") /\ UNCHANGED tables

\* remove: the home team of a user stays.
IsDefault(r) ==
    LET deletable == {t \in Team : team[t] # NULL /\ ~team[t].isDefault} IN
    /\ pc[r] = "isDefault"
    /\ \/ op[r].team \notin deletable /\ Refuse(r)
       \/ op[r].team \in deletable /\ Goto(r, "deleteTeam") /\ UNCHANGED tables

\* Mutant: any role that exists will do.
UsableAnywhere(r) ==
    LET o == op[r] IN
    /\ pc[r] = "usable"
    /\ o.role \in System \cup CustomRoles
    /\ Goto(r, IF o.do = "setRole" THEN "owner" ELSE "existing")
    /\ UNCHANGED tables

\* assertRoleUsable: a system role, or a role of this team.
Usable(r) ==
    LET o == op[r]
        ok == o.role \in System \cup RolesOf(o.team)
    IN
    /\ pc[r] = "usable"
    /\ \/ ~ok /\ Refuse(r)
       \/ /\ ok /\ Goto(r, IF o.do = "setRole" THEN "owner" ELSE "existing")
          /\ UNCHANGED tables

\* Mutant: any member's role can be changed, and any member removed.
OwnerNotSpared(r) ==
    /\ pc[r] = "owner"
    /\ Goto(r, op[r].do) /\ UNCHANGED tables

\* getOwnerId, and the owner is neither removed nor given another role.
OwnerOf(r) ==
    LET t == op[r].team
        ok == team[t] # NULL /\ team[t].owner # op[r].whom
    IN
    /\ pc[r] = "owner"
    /\ \/ ~ok /\ Refuse(r)
       \/ ok /\ Goto(r, op[r].do) /\ UNCHANGED tables

\* InviteService.create: the email belongs to a member already.
Existing(r) ==
    LET o == op[r] IN
    /\ pc[r] = "existing"
    /\ \/ member[o.team][o.whom] # NULL /\ Refuse(r)
       \/ member[o.team][o.whom] = NULL /\ Goto(r, "insertInvite") /\ UNCHANGED tables

-----------------------------------------------------------------------------
\* create: the team and its owner's membership, in one transaction, unless the
\* user has a team of that name.
InsertTeam(r) ==
    LET u == op[r].user IN
    /\ pc[r] = "insertTeam"
    /\ \/ \E t \in Team \ minted :
            /\ team' = [team EXCEPT ![t] = [owner |-> u, isDefault |-> FALSE]]
            /\ member' = [member EXCEPT ![t][u] = SystemAdmin]
            /\ minted' = minted \cup {t}
            /\ Finish(r) /\ UNCHANGED <<role, invite, admitted>>
       \/ Refuse(r)

\* update: the name alone.
Rename(r) == pc[r] = "rename" /\ Refuse(r)

\* remove: the foreign keys take members, custom roles and invites along, unless
\* a row of another team still refers to one of the roles.
DeleteTeam(r) ==
    LET t == op[r].team
        own == RolesOf(t)
        held == \/ \E s \in Team \ {t}, u \in User : member[s][u] \in own
                \/ \E i \in Invite : invite[i] # NULL /\ invite[i].team # t /\ invite[i].role \in own
    IN
    /\ pc[r] = "deleteTeam"
    /\ \/ held /\ Refuse(r)
       \/ /\ ~held
          /\ team' = [team EXCEPT ![t] = NULL]
          /\ member' = [member EXCEPT ![t] = [u \in User |-> NULL]]
          /\ role' = [c \in Role |-> IF c \in own THEN NULL ELSE role[c]]
          /\ invite' = [i \in Invite |->
                 IF invite[i] # NULL /\ invite[i].team = t THEN NULL ELSE invite[i]]
          /\ Finish(r) /\ UNCHANGED <<minted, admitted>>

\* Mutant: INSERT .. ON CONFLICT DO UPDATE instead of UPDATE.
SetRoleUpserting(r) ==
    LET o == op[r] IN
    /\ pc[r] = "setRole" /\ team[o.team] # NULL /\ o.role \in System \cup CustomRoles
    /\ member' = [member EXCEPT ![o.team][o.whom] = o.role]
    /\ Finish(r) /\ UNCHANGED <<team, role, invite, minted, admitted>>

\* updateMemberRole: 404 for somebody who is not a member.
SetRole(r) ==
    LET o == op[r]
        ok == member[o.team][o.whom] # NULL /\ o.role \in System \cup CustomRoles
    IN
    /\ pc[r] = "setRole"
    /\ \/ ~ok /\ Refuse(r)
       \/ /\ ok /\ member' = [member EXCEPT ![o.team][o.whom] = o.role]
          /\ Finish(r) /\ UNCHANGED <<team, role, invite, minted, admitted>>

\* removeMember: 404 for a row that is not there.
DeleteMember(r) ==
    LET o == op[r] IN
    /\ pc[r] = "deleteMember"
    /\ member' = [member EXCEPT ![o.team][o.whom] = NULL]
    /\ Finish(r) /\ UNCHANGED <<team, role, invite, minted, admitted>>

\* createRole: refused when the team is gone or has a role of that name.
InsertRole(r) ==
    LET t == op[r].team IN
    /\ pc[r] = "insertRole"
    /\ \/ /\ team[t] # NULL
          /\ \E c \in Role \ minted, bag \in Bags :
                /\ role' = [role EXCEPT ![c] = [team |-> t, permissions |-> bag]]
                /\ minted' = minted \cup {c}
          /\ Finish(r) /\ UNCHANGED <<team, member, invite, admitted>>
       \/ Refuse(r)

\* updateRole of a custom role of this team: its permissions, or only its name.
ChangeRole(r) ==
    LET o == op[r] IN
    /\ pc[r] = "changeRole"
    /\ \/ /\ o.role \in RolesOf(o.team)
          /\ \E bag \in Bags : role' = [role EXCEPT ![o.role].permissions = bag]
          /\ Finish(r) /\ UNCHANGED <<team, member, invite, minted, admitted>>
       \/ Refuse(r)

InUse(c) ==
    \/ \E t \in Team, u \in User : member[t][u] = c
    \/ \E i \in Invite : invite[i] # NULL /\ invite[i].role = c

\* deleteRole: ON DELETE RESTRICT keeps a role that members or invites refer to.
DropRole(r) ==
    LET o == op[r] IN
    /\ pc[r] = "dropRole"
    /\ \/ (o.role \notin RolesOf(o.team) \/ InUse(o.role)) /\ Refuse(r)
       \/ /\ o.role \in RolesOf(o.team) /\ ~InUse(o.role)
          /\ role' = [role EXCEPT ![o.role] = NULL]
          /\ Finish(r) /\ UNCHANGED <<team, member, invite, minted, admitted>>

-----------------------------------------------------------------------------
Pending(t, u) == {i \in Invite : invite[i] # NULL /\ invite[i].team = t
                                 /\ invite[i].email = u /\ invite[i].status = "PENDING"}

\* InviteService.create: the partial unique index allows one pending invite per
\* team and email.
InsertInvite(r) ==
    LET o == op[r]
        ok == team[o.team] # NULL /\ o.role \in System \cup CustomRoles /\ Pending(o.team, o.whom) = {}
    IN
    /\ pc[r] = "insertInvite"
    /\ \/ ~ok /\ Refuse(r)
       \/ /\ ok
          /\ \E i \in Invite \ minted :
                /\ invite' = [invite EXCEPT ![i] =
                       [team |-> o.team, email |-> o.whom, role |-> o.role,
                        status |-> "PENDING", live |-> TRUE, acceptedBy |-> NULL]]
                /\ minted' = minted \cup {i}
          /\ Finish(r) /\ UNCHANGED <<team, member, role, admitted>>

\* Handlers that have loaded the invite and are about to write it.
Holding(i) == {r \in Request : pc[r] \in {"join", "decline", "expire"} /\ op[r].invite = i}

SetStatus(i, status) ==
    /\ invite' = [invite EXCEPT ![i] = IF @ = NULL THEN NULL ELSE [@ EXCEPT !.status = status]]
    /\ UNCHANGED <<team, member, role, minted, admitted>>

\* revoke: the UPDATE itself asks for a pending invite of this team.
Revoke(r) ==
    LET i == op[r].invite
        ok == invite[i] # NULL /\ invite[i].team = op[r].team /\ invite[i].status = "PENDING"
    IN
    /\ pc[r] = "revoke"
    /\ calm => Holding(i) = {}
    /\ \/ ~ok /\ Refuse(r)
       \/ ok /\ SetStatus(i, "REVOKED") /\ Finish(r)

\* Mutant: the link works whatever became of the invite.
LoadAnyStatus(r) ==
    LET i == op[r].invite IN
    /\ pc[r] = "load"
    /\ calm => Holding(i) = {}
    /\ invite[i] # NULL /\ invite[i].live /\ invite[i].email = op[r].user
    /\ Goto(r, op[r].do) /\ UNCHANGED tables

\* loadActionableInvite: pending, not past its time, addressed to the caller.
Load(r) ==
    LET i == op[r].invite
        pending == invite[i] # NULL /\ invite[i].status = "PENDING"
    IN
    /\ pc[r] = "load"
    /\ calm => Holding(i) = {}
    /\ \/ ~pending /\ Refuse(r)
       \/ pending /\ ~invite[i].live /\ Goto(r, "expire") /\ UNCHANGED tables
       \/ pending /\ invite[i].live /\ invite[i].email # op[r].user /\ Refuse(r)
       \/ /\ pending /\ invite[i].live /\ invite[i].email = op[r].user
          /\ Goto(r, op[r].do) /\ UNCHANGED tables

\* loadActionableInvite and decline write the status without asking for it again.
Expire(r) == pc[r] = "expire" /\ SetStatus(op[r].invite, "EXPIRED") /\ Finish(r)

Decline(r) == pc[r] = "decline" /\ SetStatus(op[r].invite, "DECLINED") /\ Finish(r)

\* accept: one transaction.  A member keeps the row it has (ON CONFLICT DO
\* NOTHING), and the invite is accepted whatever its status is by now.
Join(r) ==
    LET i == op[r].invite
        v == invite[i]
        u == op[r].user
    IN
    /\ pc[r] = "join"
    /\ \/ v = NULL /\ Refuse(r)
       \/ /\ v # NULL
          /\ \/ /\ member[v.team][u] = NULL
                /\ member' = [member EXCEPT ![v.team][u] = v.role]
                /\ admitted' = [admitted EXCEPT ![i] = @ + 1]
             \/ member[v.team][u] # NULL /\ UNCHANGED <<member, admitted>>
          /\ invite' = [invite EXCEPT ![i].status = "ACCEPTED", ![i].acceptedBy = u]
          /\ Finish(r) /\ UNCHANGED <<team, role, minted>>

\* Seven days pass.
Lapse(i) ==
    /\ invite[i] # NULL /\ invite[i].live
    /\ invite' = [invite EXCEPT ![i].live = FALSE]
    /\ UNCHANGED <<team, member, role, minted, admitted, op, pc, requests, calm>>

Step(r) ==
    \/ \E do \in Do : \E o \in Requests(do) : Start(r, o)
    \/ Access(r) \/ Membership(r) \/ IsDefault(r) \/ Usable(r) \/ OwnerOf(r) \/ Existing(r)
    \/ InsertTeam(r) \/ Rename(r) \/ DeleteTeam(r) \/ SetRole(r) \/ DeleteMember(r)
    \/ InsertRole(r) \/ ChangeRole(r) \/ DropRole(r)
    \/ InsertInvite(r) \/ Revoke(r) \/ Load(r) \/ Expire(r) \/ Decline(r) \/ Join(r)

Next == (\E r \in Request : Step(r)) \/ (\E i \in Invite : Lapse(i))

Spec == Init /\ [][Next]_vars

-----------------------------------------------------------------------------
TypeOK ==
    /\ team \in [Team -> TeamRow \cup {NULL}]
    /\ member \in [Team -> [User -> Role \cup System \cup {NULL}]]
    /\ role \in [Role -> RoleRow \cup {NULL}]
    /\ invite \in [Invite -> InviteRow \cup {NULL}]
    /\ minted \subseteq Team \cup Role \cup Invite
    /\ op \in [Request -> Op \cup {NULL}] /\ pc \in [Request -> Pc]
    /\ requests \in Nat /\ admitted \in [Invite -> Nat] /\ calm \in BOOLEAN
    /\ \A r \in Request : op[r] = NULL <=> pc[r] = "idle"

\* The owner of a team is a member of it and has the role that signUp or create
\* gave it, whatever is removed, changed or accepted meanwhile
\* (team.service.ts line 184: "The team owner's role cannot be changed").
OwnerStaysAdmin ==
    \A t \in Team : team[t] # NULL => member[t][team[t].owner] = SystemAdmin

\* The role of a member, and of an invite, is a system role or an existing role
\* of the same team: what assertRoleUsable checks once, and RESTRICT keeps.
RolesFit ==
    /\ \A t \in Team, u \in User :
           member[t][u] # NULL => member[t][u] \in System \cup RolesOf(t)
    /\ \A i \in Invite :
           invite[i] # NULL => invite[i].role \in System \cup RolesOf(invite[i].team)

\* Every member is the owner or was admitted by an invite of this team that was
\* addressed to it, whatever became of the invite since.
MembersWereInvited ==
    \A t \in Team, u \in User :
        member[t][u] # NULL =>
            \/ team[t] # NULL /\ team[t].owner = u
            \/ \E i \in Invite : /\ invite[i] # NULL /\ invite[i].team = t
                                 /\ invite[i].email = u /\ invite[i].acceptedBy = u

\* When the handlers of one invite do not overlap, it admits once, and it is
\* never both used and revoked, declined or expired (invite.service.ts line 182:
\* the UPDATE of accept does not ask for a pending invite again).
CalmAdmitsOnce ==
    calm => \A i \in Invite :
        /\ admitted[i] <= 1
        /\ admitted[i] = 1 /\ invite[i] # NULL => invite[i].status = "ACCEPTED"

\* Each handler takes effect at once, in a command that finds its conditions
\* true when it writes: the target is a member and not the owner, the role is
\* of the team, the team no default team, the expired invite past its time.
Book == INSTANCE TeamBook
RefinesBook == Book!Spec
=============================================================================
