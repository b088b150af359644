------------------------------- MODULE TeamBook -------------------------------
(***************************************************************************)
(* What the team and invite services promise: the tables change by whole   *)
(* commands, and each finds what it asks for true at the moment it writes, *)
(* although the handler checked it statements earlier and the rows of      *)
(* other requests changed in between.  Who may give a command is not       *)
(* promised: a permission is checked once, and may be gone by the write.   *)
(***************************************************************************)
EXTENDS Naturals

CONSTANTS User, Team, Role, Invite, NULL, SystemAdmin, SystemMember, Home, Bags

VARIABLES
    team, member, role, invite, minted,   \* as in Teams
    admitted,   \* how often an invite made its user a member
    calm        \* whether the handlers of one invite run one after the other

vars == <<team, member, role, invite, minted, admitted, calm>>

Init ==
    /\ team = [t \in Team |-> IF \E u \in User : Home[u] = t
                              THEN [owner |-> CHOOSE u \in User : Home[u] = t, isDefault |-> TRUE]
                              ELSE NULL]
    /\ member = [t \in Team |-> [u \in User |-> IF Home[u] = t THEN SystemAdmin ELSE NULL]]
    /\ role = [c \in Role |-> NULL]
    /\ invite = [i \in Invite |-> NULL]
    /\ minted = {Home[u] : u \in User} \ {NULL}
    /\ admitted = [i \in Invite |-> 0]
    /\ calm \in BOOLEAN

RolesOf(t) == {c \in Role : role[c] # NULL /\ role[c].team = t}
Usable(c, t) == c \in {SystemAdmin, SystemMember} \cup RolesOf(t)

InvitesTo(t) == {i \in Invite : invite[i] # NULL /\ invite[i].team = t}
Pending(i) == invite[i] # NULL /\ invite[i].status = "PENDING"

-----------------------------------------------------------------------------
(* Teams.                                                                  *)

Found(t, u) ==
    /\ t \notin minted
    /\ team' = [team EXCEPT ![t] = [owner |-> u, isDefault |-> FALSE]]
    /\ member' = [member EXCEPT ![t][u] = SystemAdmin]
    /\ minted' = minted \cup {t}
    /\ UNCHANGED <<role, invite, admitted, calm>>

\* The team goes with all that is its own; a user's home team stays.
Disband(t) ==
    /\ team[t] # NULL /\ ~team[t].isDefault
    /\ team' = [team EXCEPT ![t] = NULL]
    /\ member' = [member EXCEPT ![t] = [u \in User |-> NULL]]
    /\ role' = [c \in Role |-> IF c \in RolesOf(t) THEN NULL ELSE role[c]]
    /\ invite' = [i \in Invite |-> IF i \in InvitesTo(t) THEN NULL ELSE invite[i]]
    /\ UNCHANGED <<minted, admitted, calm>>

\* A member, but never the owner, gets another role or none.
Member(t, u) == team[t] # NULL /\ team[t].owner # u /\ member[t][u] # NULL

Assign(t, u, c) ==
    /\ Member(t, u) /\ Usable(c, t)
    /\ member' = [member EXCEPT ![t][u] = c]
    /\ UNCHANGED <<team, role, invite, minted, admitted, calm>>

Remove(t, u) ==
    /\ Member(t, u)
    /\ member' = [member EXCEPT ![t][u] = NULL]
    /\ UNCHANGED <<team, role, invite, minted, admitted, calm>>

-----------------------------------------------------------------------------
(* Roles.                                                                  *)

Define(c, t, bag) ==
    /\ c \notin minted /\ team[t] # NULL
    /\ role' = [role EXCEPT ![c] = [team |-> t, permissions |-> bag]]
    /\ minted' = minted \cup {c}
    /\ UNCHANGED <<team, member, invite, admitted, calm>>

Redefine(c, bag) ==
    /\ role[c] # NULL
    /\ role' = [role EXCEPT ![c].permissions = bag]
    /\ UNCHANGED <<team, member, invite, minted, admitted, calm>>

Retire(c) ==
    /\ role[c] # NULL
    /\ \A t \in Team, u \in User : member[t][u] # c
    /\ \A i \in Invite : invite[i] # NULL => invite[i].role # c
    /\ role' = [role EXCEPT ![c] = NULL]
    /\ UNCHANGED <<team, member, invite, minted, admitted, calm>>

-----------------------------------------------------------------------------
(* Invites.                                                                *)

Offer(i, t, u, c) ==
    /\ i \notin minted /\ team[t] # NULL /\ Usable(c, t)
    /\ \A j \in InvitesTo(t) : invite[j].email = u => ~Pending(j)
    /\ invite' = [invite EXCEPT ![i] = [team |-> t, email |-> u, role |-> c,
                     status |-> "PENDING", live |-> TRUE, acceptedBy |-> NULL]]
    /\ minted' = minted \cup {i}
    /\ UNCHANGED <<team, member, role, admitted, calm>>

\* A revoked invite was pending; a declined or expired one may have been used
\* meanwhile, unless the invite's handlers keep apart.
Close(i, status) ==
    /\ invite[i] # NULL
    /\ calm \/ status = "REVOKED" => Pending(i)
    /\ status = "EXPIRED" => ~invite[i].live
    /\ invite' = [invite EXCEPT ![i].status = status]
    /\ UNCHANGED <<team, member, role, minted, admitted, calm>>

\* Its addressee becomes a member with its role, or keeps the role it has.
Accept(i) ==
    LET v == invite[i] IN
    /\ v # NULL
    /\ calm => Pending(i)
    /\ invite' = [invite EXCEPT ![i].status = "ACCEPTED", ![i].acceptedBy = v.email]
    /\ \/ /\ member[v.team][v.email] = NULL
          /\ member' = [member EXCEPT ![v.team][v.email] = v.role]
          /\ admitted' = [admitted EXCEPT ![i] = @ + 1]
       \/ member[v.team][v.email] # NULL /\ UNCHANGED <<member, admitted>>
    /\ UNCHANGED <<team, role, minted, calm>>

Lapse(i) ==
    /\ invite[i] # NULL
    /\ invite' = [invite EXCEPT ![i].live = FALSE]
    /\ UNCHANGED <<team, member, role, minted, admitted, calm>>

-----------------------------------------------------------------------------
TeamCommand ==
    \E t \in Team :
        \/ Disband(t)
        \/ \E u \in User : \/ Found(t, u) \/ Remove(t, u)
                           \/ \E c \in Role \cup {SystemAdmin, SystemMember} : Assign(t, u, c)

RoleCommand ==
    \E c \in Role :
        \/ Retire(c)
        \/ \E bag \in Bags : Redefine(c, bag) \/ \E t \in Team : Define(c, t, bag)

InviteCommand ==
    \E i \in Invite :
        \/ Accept(i) \/ Lapse(i)
        \/ \E status \in {"REVOKED", "DECLINED", "EXPIRED"} : Close(i, status)
        \/ \E t \in Team, u \in User, c \in Role \cup {SystemAdmin, SystemMember} :
              Offer(i, t, u, c)

Next == TeamCommand \/ RoleCommand \/ InviteCommand

Spec == Init /\ [][Next]_vars
=============================================================================
