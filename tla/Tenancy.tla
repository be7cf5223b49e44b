------------------------------ MODULE Tenancy ------------------------------
(***************************************************************************)
(* The members of one tenant: invitations, memberships with or without the *)
(* Owner role, and groups of members.  A request reads and checks before   *)
(* its transaction; only the transactions that change a membership lock    *)
(* the tenant's row.                                                       *)
(***************************************************************************)
EXTENDS Naturals, FiniteSets

CONSTANTS
    Users,
    Founder,        \* the user who has created the tenant
    TeamGroups,     \* tenant groups
    Callers,        \* requests in progress
    MaxInvitations, \* bound: invitations made
    MaxCalls,       \* bound: requests made
    None

TenancyAssumption ==
    /\ Founder \in Users
    /\ None \notin Callers
    /\ MaxInvitations \in Nat /\ MaxCalls \in Nat

VARIABLES
    member,     \* status ("None" without a row) and whether the roles contain Owner
    inGroup,    \* rows of TenantGroupMember: the members of each group
    groupRole,  \* groups that hold the role Owner
    inv,        \* invitations by id: status, user (the e-mail), owner, token in force
    call,       \* a request between its checks and its transaction
    lock,       \* holder of the row lock on the tenant
    calls

vars == <<member, inGroup, groupRole, inv, call, lock, calls>>

Ids == 1..MaxInvitations
NoMember == [status |-> "None", owner |-> FALSE]
NoInvitation == [status |-> "None", user |-> Founder, owner |-> FALSE, token |-> 0]
NoCall == [pc |-> "Idle", user |-> None, owner |-> FALSE, status |-> "Active", id |-> 0, group |-> None]

\* createTenant: the creator is its first owner.
Init ==
    /\ member = [u \in Users |-> IF u = Founder THEN [status |-> "Active", owner |-> TRUE] ELSE NoMember]
    /\ inGroup = [g \in TeamGroups |-> {}] /\ groupRole = {}
    /\ inv = [i \in Ids |-> NoInvitation]
    /\ call = [c \in Callers |-> NoCall] /\ lock = None /\ calls = 0

Owners == {u \in Users : member[u].status = "Active" /\ member[u].owner}
Members == {u \in Users : member[u].status # "None"}
Pending(i) == inv[i].status = "Pending"

Begin(c, r) ==
    /\ call[c].pc = "Idle" /\ calls < MaxCalls /\ calls' = calls + 1
    /\ call' = [call EXCEPT ![c] = r]
End(c) == call' = [call EXCEPT ![c] = NoCall]

\* assertOwnerRoleChangeAllowed: somebody who is an active owner asks for it.
OwnerMayChange(owner) == owner => Owners # {}

-----------------------------------------------------------------------------
(* Invitations *)

\* createInvitation: no membership, and one invitation of an e-mail (unique key).
Invite(u, owner) ==
    /\ calls < MaxCalls /\ calls' = calls + 1
    /\ u \notin Members /\ OwnerMayChange(owner)
    /\ ~\E i \in Ids : Pending(i) /\ inv[i].user = u
    /\ \E i \in Ids :
          /\ inv[i].status = "None" /\ \A j \in Ids : inv[j].status = "None" => i <= j
          /\ inv' = [inv EXCEPT ![i] = [status |-> "Pending", user |-> u, owner |-> owner, token |-> 1]]
    /\ UNCHANGED <<member, inGroup, groupRole, call, lock>>

\* A new token replaces the one in earlier mails.
Resend(i) ==
    /\ Pending(i) /\ inv[i].token = 1
    /\ inv' = [inv EXCEPT ![i].token = 2]
    /\ UNCHANGED <<member, inGroup, groupRole, call, lock, calls>>

Cancel(i) ==
    /\ Pending(i)
    /\ inv' = [inv EXCEPT ![i].status = "Cancelled"]
    /\ UNCHANGED <<member, inGroup, groupRole, call, lock, calls>>

\* acceptInvitation finds it by its token and checks its expiry and the e-mail.
ReadInvitation(c, i) ==
    /\ Pending(i)
    /\ Begin(c, [NoCall EXCEPT !.pc = "Accept", !.id = i, !.user = inv[i].user, !.owner = inv[i].owner])
    /\ UNCHANGED <<member, inGroup, groupRole, inv, lock>>

\* Mutant: an invitation that is gone is deleted once more.
GoneOrPending(i) == inv[i].status # "None"
\* The delete in the transaction fails without a row, and takes the membership with it.
StillThere(i) == Pending(i)

Accept(c) == LET u == call[c].user
                 i == call[c].id IN
    /\ call[c].pc = "Accept"
    /\ IF u \notin Members /\ StillThere(i)
       THEN /\ member' = [member EXCEPT ![u] = [status |-> "Active", owner |-> call[c].owner]]
            /\ inv' = [inv EXCEPT ![i].status = "Accepted"]
       ELSE UNCHANGED <<member, inv>>
    /\ End(c)
    /\ UNCHANGED <<inGroup, groupRole, lock, calls>>

-----------------------------------------------------------------------------
(* Memberships *)

\* createMembership
AddMember(u, owner) ==
    /\ calls < MaxCalls /\ calls' = calls + 1
    /\ u \notin Members /\ OwnerMayChange(owner)
    /\ member' = [member EXCEPT ![u] = [status |-> "Active", owner |-> owner]]
    /\ UNCHANGED <<inGroup, groupRole, inv, call, lock>>

\* updateMembership and deleteMembership check the caller before they lock.
RequestChange(c, u, owner, status) ==
    /\ u \in Members /\ OwnerMayChange(member[u].owner \/ owner)
    /\ Begin(c, [NoCall EXCEPT !.pc = "Lock", !.user = u, !.owner = owner, !.status = status])
    /\ UNCHANGED <<member, inGroup, groupRole, inv, lock>>

\* Mutant: the row of the tenant is not locked.
NoLock == TRUE
LockFree == lock = None

\* assertLastOwnerIsPreserved, on the membership as it is under the lock
OwnerIsPreserved(u, owner, status) ==
    \/ ~member[u].owner
    \/ owner /\ status = "Active"
    \/ Owners \ {u} # {}

\* The grant is revoked and the last owner checked; then the transaction writes.
LockAndCheck(c) == LET u == call[c].user IN
    /\ call[c].pc = "Lock" /\ LockFree
    /\ IF u \in Members /\ OwnerIsPreserved(u, call[c].owner, call[c].status)
       THEN lock' = c /\ call' = [call EXCEPT ![c].pc = "Change"]
       ELSE End(c) /\ UNCHANGED lock
    /\ UNCHANGED <<member, inGroup, groupRole, inv, calls>>

\* Mutant: the rows of the groups stay.
GroupsKept(u) == inGroup
\* onDelete: Cascade of TenantGroupMember
GroupsWithout(u) == [g \in TeamGroups |-> inGroup[g] \ {u}]

\* The row and its roles are deleted.
Left(u) == NoMember

Change(c) == LET u == call[c].user IN
    /\ call[c].pc = "Change"
    /\ IF call[c].status = "None"
       THEN member' = [member EXCEPT ![u] = Left(u)] /\ inGroup' = GroupsWithout(u)
       ELSE /\ member' = [member EXCEPT ![u] = [status |-> call[c].status, owner |-> call[c].owner]]
            /\ UNCHANGED inGroup
    /\ lock' = IF lock = c THEN None ELSE lock
    /\ End(c)
    /\ UNCHANGED <<groupRole, inv, calls>>

-----------------------------------------------------------------------------
(* Groups *)

\* addGroupMember finds the group and the membership, then inserts the row.
FindForGroup(c, g, u) ==
    /\ u \in Members \ inGroup[g]
    /\ Begin(c, [NoCall EXCEPT !.pc = "Join", !.user = u, !.group = g])
    /\ UNCHANGED <<member, inGroup, groupRole, inv, lock>>

JoinGroup(c) ==
    /\ call[c].pc = "Join"
    /\ inGroup' = [inGroup EXCEPT ![call[c].group] = IF call[c].user \in Members THEN @ \cup {call[c].user} ELSE @]
    /\ End(c)
    /\ UNCHANGED <<member, groupRole, inv, lock, calls>>

LeaveGroup(g, u) ==
    /\ u \in inGroup[g]
    /\ inGroup' = [inGroup EXCEPT ![g] = @ \ {u}]
    /\ UNCHANGED <<member, groupRole, inv, call, lock, calls>>

\* assignGroupRole and removeGroupRole
SetGroupRole(g) ==
    /\ OwnerMayChange(TRUE)
    /\ groupRole' = IF g \in groupRole THEN groupRole \ {g} ELSE groupRole \cup {g}
    /\ UNCHANGED <<member, inGroup, inv, call, lock, calls>>

\* deleteGroup cascades to its members and roles.
DeleteGroup(g) ==
    /\ inGroup[g] # {} \/ g \in groupRole
    /\ inGroup' = [inGroup EXCEPT ![g] = {}] /\ groupRole' = groupRole \ {g}
    /\ UNCHANGED <<member, inv, call, lock, calls>>

-----------------------------------------------------------------------------

Next ==
    \/ \E u \in Users, owner \in BOOLEAN : Invite(u, owner) \/ AddMember(u, owner)
    \/ \E i \in Ids : Resend(i) \/ Cancel(i)
    \/ \E c \in Callers, i \in Ids : ReadInvitation(c, i)
    \/ \E c \in Callers : Accept(c) \/ LockAndCheck(c) \/ Change(c) \/ JoinGroup(c)
    \/ \E c \in Callers, u \in Users, owner \in BOOLEAN, status \in {"None", "Active", "Suspended"} :
          RequestChange(c, u, owner, status)
    \/ \E c \in Callers, g \in TeamGroups, u \in Users : FindForGroup(c, g, u)
    \/ \E g \in TeamGroups, u \in Users : LeaveGroup(g, u)
    \/ \E g \in TeamGroups : SetGroupRole(g) \/ DeleteGroup(g)

Spec == Init /\ [][Next]_vars

-----------------------------------------------------------------------------
(* Properties *)

\* The types of the variables; only members have roles.
TypeOK ==
    /\ member \in [Users -> [status : {"None", "Active", "Suspended"}, owner : BOOLEAN]]
    /\ \A u \in Users \ Members : ~member[u].owner
    /\ inGroup \in [TeamGroups -> SUBSET Users] /\ groupRole \subseteq TeamGroups
    /\ \A i \in Ids : inv[i].status \in {"None", "Pending", "Accepted", "Cancelled"}
    /\ lock \in Callers \cup {None}

\* A tenant always has an active member with the role Owner, however its members are
\* demoted, suspended and removed at the same time (assertLastOwnerIsPreserved).
OwnerRemains == Owners # {}

\* Who is no longer a member is in no group, so who is invited again starts without the
\* permissions of the groups of before (deleteMembership, addGroupMember).
GroupsAreOfMembers == \A g \in TeamGroups : inGroup[g] \subseteq Members

\* An invitation that was accepted or cancelled never makes a member, though the request
\* that accepts it has read it before (acceptInvitation, deleteInvitation).
InvitationsAreSpent ==
    \A i \in Ids : inv[i].status \in {"Accepted", "Cancelled"} =>
       inv'[i] = inv[i] /\ ~\E c \in Callers : call[c].pc = "Accept" /\ call[c].id = i
                               /\ call'[c] = NoCall /\ member' # member

\* A tenant keeps an active owner, its groups have only members, and an invitation is used
\* once or not at all, however its members change at the same time (TenantsService).
MemberSafety ==
    /\ [](TypeOK /\ OwnerRemains /\ GroupsAreOfMembers)
    /\ [][InvitationsAreSpent]_vars
=============================================================================
