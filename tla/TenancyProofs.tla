--------------------------- MODULE TenancyProofs ----------------------------
(***************************************************************************)
(* Proofs about the members of a tenant, for every number of users, groups *)
(* and requests in progress, and about its questions to the bot, for every *)
(* number of requests, executions and other charges.                       *)
(*                                                                         *)
(* Members: only the transactions that change a membership remove an       *)
(* owner, and they hold the lock on the tenant's row from the check of the *)
(* last owner to their commit; what others do meanwhile adds owners only.  *)
(*                                                                         *)
(* The bot: an execution is the only one with the id of its reservation,   *)
(* which has the price that the execution saw, and what a new one adds to  *)
(* the sum of all that are live is what the balance was checked for.       *)
(***************************************************************************)
EXTENDS MCTenants, TLAPS, FiniteSetTheorems, WellFoundedInduction

Statuses == {"None", "Active", "Suspended"}
Rows == [status : Statuses, owner : BOOLEAN]
Invitations ==
    [status : {"None", "Pending", "Accepted", "Cancelled"}, user : Users, owner : BOOLEAN, token : 0..2]
Calls ==
    [pc : {"Idle", "Accept", "Lock", "Change", "Join"}, user : Users \cup {None}, owner : BOOLEAN,
     status : Statuses, id : {0} \cup Ids, group : TeamGroups \cup {None}]

Types ==
    /\ member \in [Users -> Rows]
    /\ inGroup \in [TeamGroups -> SUBSET Users]
    /\ groupRole \in SUBSET TeamGroups
    /\ inv \in [Ids -> Invitations]
    /\ call \in [Callers -> Calls]
    /\ lock \in Callers \cup {None}
    /\ calls \in Nat

\* A request names what it is about.
Named(c) ==
    /\ call[c].pc # "Idle" => call[c].user \in Users
    /\ call[c].pc = "Accept" => call[c].id \in Ids
    /\ call[c].pc = "Join" => call[c].group \in TeamGroups

\* Who is about to change a membership has locked the tenant, and what it has checked of
\* the last owner still holds.
Checked(c) ==
    call[c].pc = "Change" =>
        /\ lock = c
        /\ call[c].user \in Members
        /\ OwnerIsPreserved(call[c].user, call[c].owner, call[c].status)

IInv ==
    /\ Types
    /\ \A c \in Callers : Named(c) /\ Checked(c)
    /\ \A u \in Users \ Members : ~member[u].owner
    /\ OwnerRemains
    /\ GroupsAreOfMembers

-----------------------------------------------------------------------------
(* The initial states and the steps *)

LEMMA InitIInv == ASSUME TenancyAssumption, Init PROVE IInv
<1>1. Types
  BY DEF TenancyAssumption, Init, Types, Rows, Statuses, Invitations, Calls, NoMember,
         NoInvitation, NoCall, Ids
<1>2. \A c \in Callers : Named(c) /\ Checked(c)
  BY DEF Init, Named, Checked, NoCall
<1>3. (\A u \in Users \ Members : ~member[u].owner) /\ OwnerRemains /\ GroupsAreOfMembers
  BY DEF TenancyAssumption, Init, Members, OwnerRemains, Owners, NoMember, GroupsAreOfMembers
<1> QED
  BY <1>1, <1>2, <1>3 DEF IInv

\* A request that begins or ends disturbs no other.
LEMMA CallStep ==
    ASSUME TenancyAssumption, IInv, NEW c \in Callers, NEW r \in Calls,
           call' = [call EXCEPT ![c] = r], r.pc # "Change",
           r.pc # "Idle" => r.user \in Users,
           r.pc = "Accept" => r.id \in Ids,
           r.pc = "Join" => r.group \in TeamGroups,
           UNCHANGED <<member, lock>>
    PROVE  call' \in [Callers -> Calls] /\ \A d \in Callers : Named(d)' /\ Checked(d)'
  BY DEF IInv, Types, Named, Checked, Members, OwnerIsPreserved, Owners

\* A new member leaves what was checked true.
LEMMA AddingStep ==
    ASSUME TenancyAssumption, IInv, NEW u \in Users \ Members, NEW o \in BOOLEAN,
           member' = [member EXCEPT ![u] = [status |-> "Active", owner |-> o]],
           UNCHANGED <<inGroup, lock>>,
           \A c \in Callers : call'[c].pc = "Change" => call'[c] = call[c]
    PROVE  /\ member' \in [Users -> Rows]
           /\ \A c \in Callers : Checked(c)'
           /\ \A v \in Users \ Members' : ~member'[v].owner
           /\ OwnerRemains' /\ GroupsAreOfMembers'
<1>1. member' \in [Users -> Rows] /\ \A v \in Users \ {u} : member'[v] = member[v]
  BY DEF IInv, Types, Rows, Statuses
<1>2. member'[u].status = "Active" /\ member'[u] \in Rows
  BY <1>1 DEF IInv, Types
<1>3. Members' = Members \cup {u} /\ Owners \subseteq Owners'
  BY <1>1, <1>2 DEF Members, Owners
<1>4. \A c \in Callers : Checked(c)'
  <2> SUFFICES ASSUME NEW c \in Callers, call'[c].pc = "Change" PROVE Checked(c)'
    BY DEF Checked
  <2>1. call'[c] = call[c] /\ Checked(c) /\ call[c].user \in Members \ {u}
    BY DEF IInv, Checked
  <2> QED
    BY <2>1, <1>1, <1>3 DEF Checked, OwnerIsPreserved, Members
<1> QED
  BY <1>1, <1>2, <1>3, <1>4 DEF IInv, OwnerRemains, GroupsAreOfMembers, Members

LEMMA NextIInv == ASSUME TenancyAssumption, IInv, [Next]_vars PROVE IInv'
<1> USE DEF Statuses
<1>1. ASSUME NEW u \in Users, NEW o \in BOOLEAN, Invite(u, o) PROVE IInv'
  <2>1. inv' \in [Ids -> Invitations] /\ calls' \in Nat
    BY <1>1 DEF Invite, IInv, Types, Invitations
  <2> QED
    BY <2>1, <1>1 DEF Invite, IInv, Types, Named, Checked, OwnerIsPreserved, Owners, Members,
                      OwnerRemains, GroupsAreOfMembers
<1>2. ASSUME NEW u \in Users, NEW o \in BOOLEAN, AddMember(u, o) PROVE IInv'
  <2>1. u \in Users \ Members /\ calls' \in Nat
    BY <1>2 DEF AddMember, IInv, Types
  <2>2. /\ member' \in [Users -> Rows] /\ \A c \in Callers : Checked(c)'
        /\ \A v \in Users \ Members' : ~member'[v].owner
        /\ OwnerRemains' /\ GroupsAreOfMembers'
    BY <1>2, <2>1, AddingStep DEF AddMember
  <2> QED
    BY <1>2, <2>1, <2>2 DEF AddMember, IInv, Types, Named
<1>3. ASSUME NEW i \in Ids, Resend(i) \/ Cancel(i) PROVE IInv'
  <2>1. inv' \in [Ids -> Invitations]
    BY <1>3 DEF Resend, Cancel, IInv, Types, Invitations
  <2> QED
    BY <2>1, <1>3 DEF Resend, Cancel, IInv, Types, Named, Checked, OwnerIsPreserved, Owners,
       Members,
                      OwnerRemains, GroupsAreOfMembers
<1>4. ASSUME NEW c \in Callers, NEW i \in Ids, ReadInvitation(c, i) PROVE IInv'
  <2> DEFINE r == [NoCall EXCEPT !.pc = "Accept", !.id = i, !.user = inv[i].user, !.owner = inv[i].owner]
  <2>1. r \in Calls /\ r.pc = "Accept" /\ r.user \in Users /\ r.id = i
    BY DEF IInv, Types, Calls, NoCall, Invitations
  <2>2. call' \in [Callers -> Calls] /\ \A d \in Callers : Named(d)' /\ Checked(d)'
    BY <1>4, <2>1, CallStep DEF ReadInvitation, Begin
  <2> QED
    BY <1>4, <2>2 DEF ReadInvitation, Begin, IInv, Types, Members, OwnerRemains, Owners,
       GroupsAreOfMembers
<1>5. ASSUME NEW c \in Callers, Accept(c) PROVE IInv'
  <2> DEFINE u == call[c].user
  <2> DEFINE i == call[c].id
  <2>1. u \in Users /\ i \in Ids /\ NoCall \in Calls /\ NoCall.pc = "Idle" /\ call[c].owner \in BOOLEAN
    BY <1>5 DEF Accept, IInv, Types, Named, Calls, NoCall
  <2>2. call' = [call EXCEPT ![c] = NoCall]
    BY <1>5 DEF Accept, End
  <2>3. CASE u \notin Members /\ StillThere(i)
    <3>1. inv' \in [Ids -> Invitations]
      BY <1>5, <2>1, <2>3 DEF Accept, IInv, Types, Invitations
    <3>2. call' \in [Callers -> Calls] /\ \A d \in Callers : Named(d)'
      BY <2>1, <2>2 DEF IInv, Types, Named
    <3>3. \A d \in Callers : call'[d].pc = "Change" => call'[d] = call[d]
      BY <2>1, <2>2 DEF IInv, Types
    <3>4. member' = [member EXCEPT ![u] = [status |-> "Active", owner |-> call[c].owner]]
      BY <1>5, <2>3 DEF Accept
    <3>5. /\ member' \in [Users -> Rows] /\ \A d \in Callers : Checked(d)'
          /\ \A v \in Users \ Members' : ~member'[v].owner
          /\ OwnerRemains' /\ GroupsAreOfMembers'
      BY <1>5, <2>1, <2>3, <3>3, <3>4, AddingStep DEF Accept
    <3> QED
      BY <1>5, <3>1, <3>2, <3>5 DEF Accept, IInv, Types
  <2>4. CASE ~(u \notin Members /\ StillThere(i))
    <3>1. call' \in [Callers -> Calls] /\ \A d \in Callers : Named(d)' /\ Checked(d)'
      BY <1>5, <2>1, <2>2, <2>4, CallStep DEF Accept
    <3> QED
      BY <1>5, <2>4, <3>1 DEF Accept, IInv, Types, Members, OwnerRemains, Owners,
         GroupsAreOfMembers
  <2> QED
    BY <2>3, <2>4
<1>6. ASSUME NEW c \in Callers, LockAndCheck(c) PROVE IInv'
  <2> DEFINE u == call[c].user
  <2>1. u \in Users /\ NoCall \in Calls /\ NoCall.pc = "Idle"
    BY <1>6 DEF LockAndCheck, IInv, Types, Named, Calls, NoCall
  <2>2. CASE u \in Members /\ OwnerIsPreserved(u, call[c].owner, call[c].status)
    <3>1. lock = None /\ lock' = c /\ call' = [call EXCEPT ![c].pc = "Change"]
      BY <1>6, <2>2 DEF LockAndCheck, LockFree
    <3>2. call' \in [Callers -> Calls] /\ \A d \in Callers \ {c} : call'[d] = call[d]
      BY <3>1 DEF IInv, Types, Calls
    <3>3. /\ call'[c].pc = "Change" /\ call'[c].user = u /\ call'[c].owner = call[c].owner
          /\ call'[c].status = call[c].status
      BY <3>1 DEF IInv, Types, Calls
    <3>4. \A d \in Callers \ {c} : call[d].pc # "Change"
      BY <3>1 DEF IInv, Checked, TenancyAssumption
    <3>5. \A d \in Callers : Named(d)' /\ Checked(d)'
      BY <1>6, <2>1, <2>2, <3>1, <3>2, <3>3, <3>4 DEF LockAndCheck, IInv, Named, Checked, Members,
                                                    OwnerIsPreserved, Owners
    <3> QED
      BY <1>6, <3>1, <3>2, <3>5 DEF LockAndCheck, IInv, Types, Members, OwnerRemains, Owners,
                                    GroupsAreOfMembers
  <2>3. CASE ~(u \in Members /\ OwnerIsPreserved(u, call[c].owner, call[c].status))
    <3>1. call' \in [Callers -> Calls] /\ \A d \in Callers : Named(d)' /\ Checked(d)'
      BY <1>6, <2>1, <2>3, CallStep DEF LockAndCheck, End
    <3> QED
      BY <1>6, <2>3, <3>1 DEF LockAndCheck, IInv, Types, Members, OwnerRemains, Owners,
         GroupsAreOfMembers
  <2> QED
    BY <2>2, <2>3
<1>7. ASSUME NEW c \in Callers, Change(c) PROVE IInv'
  <2> DEFINE u == call[c].user
  <2>1. /\ u \in Members /\ u \in Users /\ lock = c /\ lock' = None
        /\ OwnerIsPreserved(u, call[c].owner, call[c].status)
        /\ call[c].owner \in BOOLEAN /\ call[c].status \in Statuses
    BY <1>7 DEF Change, IInv, Types, Named, Checked, Calls
  <2>2. call' \in [Callers -> Calls] /\ \A d \in Callers : Named(d)' /\ call'[d].pc # "Change"
    BY <1>7, <2>1 DEF Change, End, IInv, Types, Named, Checked, Calls, NoCall
  <2>3. /\ member' \in [Users -> Rows] /\ \A v \in Users \ {u} : member'[v] = member[v]
        /\ member'[u] = IF call[c].status = "None" THEN NoMember
                        ELSE [status |-> call[c].status, owner |-> call[c].owner]
    <3>1. NoMember \in Rows /\ [status |-> call[c].status, owner |-> call[c].owner] \in Rows
      BY <2>1 DEF Rows, NoMember
    <3>2. CASE call[c].status = "None"
      BY <1>7, <2>1, <3>1, <3>2 DEF Change, Left, IInv, Types
    <3>3. CASE call[c].status # "None"
      BY <1>7, <2>1, <3>1, <3>3 DEF Change, IInv, Types
    <3> QED
      BY <3>2, <3>3
  <2>4. inGroup' \in [TeamGroups -> SUBSET Users] /\ GroupsAreOfMembers'
    BY <1>7, <2>1, <2>3 DEF Change, GroupsWithout, IInv, Types, GroupsAreOfMembers, Members
  <2>5. \A v \in Users \ Members' : ~member'[v].owner
    BY <2>3 DEF IInv, Members, NoMember
  <2>6. OwnerRemains'
    <3>1. CASE ~member[u].owner
      BY <2>3, <3>1 DEF IInv, OwnerRemains, Owners
    <3>2. CASE call[c].owner /\ call[c].status = "Active"
      BY <2>1, <2>3, <3>2 DEF OwnerRemains, Owners
    <3>3. CASE Owners \ {u} # {}
      BY <2>3, <3>3 DEF OwnerRemains, Owners
    <3> QED
      BY <2>1, <3>1, <3>2, <3>3 DEF OwnerIsPreserved
  <2> QED
    BY <1>7, <2>1, <2>2, <2>3, <2>4, <2>5, <2>6 DEF Change, IInv, Types, Checked
<1>8. ASSUME NEW c \in Callers, JoinGroup(c) PROVE IInv'
  <2>1. NoCall \in Calls /\ NoCall.pc = "Idle"
    BY DEF Calls, NoCall
  <2>2. call' \in [Callers -> Calls] /\ \A d \in Callers : Named(d)' /\ Checked(d)'
    BY <1>8, <2>1, CallStep DEF JoinGroup, End
  <2>3. inGroup' \in [TeamGroups -> SUBSET Users] /\ GroupsAreOfMembers'
    BY <1>8 DEF JoinGroup, IInv, Types, GroupsAreOfMembers, Members
  <2> QED
    BY <1>8, <2>2, <2>3 DEF JoinGroup, IInv, Types, Members, OwnerRemains, Owners
<1>9. ASSUME NEW c \in Callers, NEW u \in Users, NEW o \in BOOLEAN, NEW s \in Statuses,
             RequestChange(c, u, o, s)
      PROVE  IInv'
  <2> DEFINE r == [NoCall EXCEPT !.pc = "Lock", !.user = u, !.owner = o, !.status = s]
  <2>1. r \in Calls /\ r.pc = "Lock" /\ r.user = u
    BY DEF Calls, NoCall
  <2>2. call' \in [Callers -> Calls] /\ \A d \in Callers : Named(d)' /\ Checked(d)'
    BY <1>9, <2>1, CallStep DEF RequestChange, Begin
  <2> QED
    BY <1>9, <2>2 DEF RequestChange, Begin, IInv, Types, Members, OwnerRemains, Owners,
       GroupsAreOfMembers
<1>10. ASSUME NEW c \in Callers, NEW g \in TeamGroups, NEW u \in Users, FindForGroup(c, g, u)
       PROVE  IInv'
  <2> DEFINE r == [NoCall EXCEPT !.pc = "Join", !.user = u, !.group = g]
  <2>1. r \in Calls /\ r.pc = "Join" /\ r.user = u /\ r.group = g
    BY DEF Calls, NoCall
  <2>2. call' \in [Callers -> Calls] /\ \A d \in Callers : Named(d)' /\ Checked(d)'
    BY <1>10, <2>1, CallStep DEF FindForGroup, Begin
  <2> QED
    BY <1>10, <2>2 DEF FindForGroup, Begin, IInv, Types, Members, OwnerRemains, Owners,
       GroupsAreOfMembers
<1>11. ASSUME NEW g \in TeamGroups, NEW u \in Users, LeaveGroup(g, u) PROVE IInv'
  BY <1>11 DEF LeaveGroup, IInv, Types, Named, Checked, OwnerIsPreserved, Owners, Members,
               OwnerRemains, GroupsAreOfMembers
<1>12. ASSUME NEW g \in TeamGroups, SetGroupRole(g) PROVE IInv'
  <2>1. groupRole' \in SUBSET TeamGroups
    BY <1>12 DEF SetGroupRole, IInv, Types
  <2> QED
    BY <1>12, <2>1 DEF SetGroupRole, IInv, Types, Named, Checked, OwnerIsPreserved, Owners,
       Members,
                       OwnerRemains, GroupsAreOfMembers
<1>13. ASSUME NEW g \in TeamGroups, DeleteGroup(g) PROVE IInv'
  <2>1. groupRole' \in SUBSET TeamGroups
    BY <1>13 DEF DeleteGroup, IInv, Types
  <2> QED
    BY <1>13, <2>1 DEF DeleteGroup, IInv, Types, Named, Checked, OwnerIsPreserved, Owners,
       Members,
                       OwnerRemains, GroupsAreOfMembers
<1>14. CASE UNCHANGED vars
  BY <1>14 DEF vars, IInv, Types, Named, Checked, OwnerIsPreserved, Owners, Members,
               OwnerRemains, GroupsAreOfMembers
<1> QED
  BY <1>1, <1>2, <1>3, <1>4, <1>5, <1>6, <1>7, <1>8, <1>9, <1>10, <1>11, <1>12, <1>13, <1>14
  DEF Next

\* What is spent stays so, and makes no member.
LEMMA SpentStep == ASSUME TenancyAssumption, IInv, [Next]_vars PROVE InvitationsAreSpent
<1> SUFFICES ASSUME NEW i \in Ids, inv[i].status \in {"Accepted", "Cancelled"}
             PROVE  /\ inv'[i] = inv[i]
                    /\ \A c \in Callers : call[c].pc = "Accept" /\ call[c].id = i /\ call'[c] = NoCall
                                             => member' = member
  BY DEF InvitationsAreSpent
<1>1. inv'[i] = inv[i]
  <2>1. ASSUME NEW c \in Callers, Accept(c) PROVE inv'[i] = inv[i]
    BY <2>1 DEF Accept, IInv, Types, Named, StillThere, Pending
  <2>2. ASSUME NEW j \in Ids, Resend(j) \/ Cancel(j) PROVE inv'[i] = inv[i]
    BY <2>2 DEF Resend, Cancel, Pending, IInv, Types
  <2>3. ASSUME NEW u \in Users, NEW o \in BOOLEAN, Invite(u, o) PROVE inv'[i] = inv[i]
    BY <2>3 DEF Invite, IInv, Types
  <2> QED
    BY <2>1, <2>2, <2>3 DEF Next, vars, AddMember, ReadInvitation, LockAndCheck, Change,
       JoinGroup,
                            RequestChange, FindForGroup, LeaveGroup, SetGroupRole, DeleteGroup
<1>2. ASSUME NEW c \in Callers, call[c].pc = "Accept", call[c].id = i, call'[c] = NoCall
      PROVE  member' = member
  <2>1. call'[c] # call[c]
    BY <1>2 DEF NoCall
  <2>2. ASSUME NEW d \in Callers, Accept(d) PROVE member' = member
    BY <1>2, <2>1, <2>2 DEF Accept, End, IInv, Types, StillThere, Pending
  <2>3. ASSUME NEW d \in Callers, Change(d) PROVE member' = member
    BY <1>2, <2>1, <2>3 DEF Change, End, IInv, Types
  <2>4. ASSUME NEW u \in Users, NEW o \in BOOLEAN, AddMember(u, o) PROVE member' = member
    BY <2>1, <2>4 DEF AddMember
  <2> QED
    BY <2>2, <2>3, <2>4 DEF Next, vars, Invite, Resend, Cancel, ReadInvitation, LockAndCheck,
       JoinGroup,
                            RequestChange, FindForGroup, LeaveGroup, SetGroupRole, DeleteGroup
<1> QED
  BY <1>1, <1>2

-----------------------------------------------------------------------------
(* Theorems *)

\* What was checked under the lock on the tenant's row holds until the change is written
\* (updateMembership, deleteMembership).
THEOREM Inductive ==
    ASSUME TenancyAssumption
    PROVE  Spec => []IInv
<1>1. Init => IInv
  BY InitIInv
<1>2. IInv /\ [Next]_vars => IInv'
  BY NextIInv
<1> QED
  BY <1>1, <1>2, PTL DEF Spec

\* A tenant keeps an active owner, its groups have only members, and an invitation is used
\* once or not at all, however its members change at the same time (TenantsService).
THEOREM MembersAreSafe ==
    ASSUME TenancyAssumption
    PROVE  Spec => MemberSafety
<1>1. IInv => TypeOK /\ OwnerRemains /\ GroupsAreOfMembers
  BY DEF IInv, Types, TypeOK, Rows, Statuses, Invitations
<1>2. IInv /\ [Next]_vars => [InvitationsAreSpent]_vars
  BY SpentStep
<1> QED
  BY <1>1, <1>2, Inductive, PTL DEF Spec, MemberSafety

-----------------------------------------------------------------------------
(* Sums over finite sets.  The iteration of a fold exists and has the value  *)
(* its equation gives it, by induction on the size of the set: among the     *)
(* sets for which a claim fails there would be a smallest one.               *)

\* The member that a fold takes next, and its iteration
Some(s) == CHOOSE x \in s : TRUE
Adds(g, w, S) == g = [s \in SUBSET S |-> IF s = {} THEN 0 ELSE g[s \ {Some(s)}] + w[Some(s)]]

LEMMA LeastNumber ==
    ASSUME NEW T \in SUBSET Nat, T # {}
    PROVE  \E n \in T : \A m \in T : n <= m
<1> DEFINE Less == OpToRel(<, Nat)
<1>1. \A m, n \in Nat : m < n => <<m, n>> \in Less
  BY DEF OpToRel
<1>2. IsWellFoundedOn(Less, Nat)
  BY NatLessThanWellFounded
<1> HIDE DEF Less
<1>3. \E n \in T : \A m \in T : ~ (<<m, n>> \in Less)
  BY <1>2, WFMin
<1>4. PICK n \in T : \A m \in T : ~ (<<m, n>> \in Less)
  BY <1>3
<1>5. \A m \in T : ~(m < n)
  BY <1>1, <1>4
<1>6. \A m \in T : n <= m
  BY <1>5
<1> QED
  BY <1>6

LEMMA SmallestSet ==
    ASSUME NEW S, IsFiniteSet(S), NEW B \in SUBSET (SUBSET S), B # {}
    PROVE  \E s \in B : \A t \in B : Cardinality(s) <= Cardinality(t)
<1> DEFINE T == {Cardinality(s) : s \in B}
<1>1. \A s \in B : Cardinality(s) \in Nat
  BY FS_Subset, FS_CardinalityType
<1>2. T \in SUBSET Nat /\ T # {}
  BY <1>1
<1>3. PICK n \in T : \A m \in T : n <= m
  BY <1>2, LeastNumber
<1> QED
  BY <1>3

LEMMA Smaller ==
    ASSUME NEW S, IsFiniteSet(S), NEW v \in S
    PROVE  IsFiniteSet(S \ {v}) /\ Cardinality(S \ {v}) + 1 = Cardinality(S) /\ Cardinality(S \ {v}) \in Nat
<1>1. IsFiniteSet(S \ {v}) /\ Cardinality(S \ {v}) = Cardinality(S) - 1
  BY FS_RemoveElement
<1>2. Cardinality(S \ {v}) \in Nat /\ Cardinality(S) \in Nat
  BY <1>1, FS_CardinalityType
<1> QED
  BY <1>1, <1>2

LEMMA SmallerIsLess ==
    ASSUME NEW S, IsFiniteSet(S), NEW v \in S
    PROVE  ~(Cardinality(S) <= Cardinality(S \ {v}))
<1>1. Cardinality(S \ {v}) + 1 = Cardinality(S) /\ Cardinality(S \ {v}) \in Nat
  BY Smaller
<1> QED
  BY <1>1

LEMMA SomeIsIn == ASSUME NEW S, S # {} PROVE Some(S) \in S
  BY DEF Some

Bounded(S, n) == {s \in SUBSET S : Cardinality(s) <= n}
AddsTo(g, w, S, n) ==
    g = [s \in Bounded(S, n) |-> IF s = {} THEN 0 ELSE g[s \ {Some(s)}] + w[Some(s)]]

LEMMA AddsExists ==
    ASSUME NEW S, IsFiniteSet(S), NEW w
    PROVE  \E g : Adds(g, w, S)
<1> DEFINE B == {n \in Nat : ~ \E g : AddsTo(g, w, S, n)}
<1>0. \A s \in SUBSET S : IsFiniteSet(s) /\ Cardinality(s) \in Nat /\ Cardinality(s) <= Cardinality(S)
  BY FS_Subset, FS_CardinalityType
<1>1. B = {}
  <2> SUFFICES ASSUME B # {} PROVE FALSE
    OBVIOUS
  <2>1. PICK n \in B : \A m \in B : n <= m
    BY LeastNumber
  <2>2. CASE n = 0
    <3> DEFINE g == [s \in Bounded(S, 0) |-> 0]
    <3>1. \A s \in Bounded(S, 0) : s = {}
      BY <1>0, FS_EmptySet DEF Bounded
    <3>2. g = [s \in Bounded(S, 0) |-> IF s = {} THEN 0 ELSE g[s \ {Some(s)}] + w[Some(s)]]
      BY <3>1
    <3> QED
      BY <2>1, <2>2, <3>2 DEF AddsTo
  <2>3. CASE n # 0
    <3>1. n - 1 \in Nat /\ n - 1 \notin B
      BY <2>1, <2>3
    <3>2. PICK g : AddsTo(g, w, S, n - 1)
      BY <3>1
    <3> DEFINE h == [s \in Bounded(S, n) |-> IF s = {} THEN 0 ELSE g[s \ {Some(s)}] + w[Some(s)]]
    <3>3. \A s \in Bounded(S, n) : s # {} => s \ {Some(s)} \in Bounded(S, n - 1)
      <4> TAKE s \in Bounded(S, n)
      <4> HAVE s # {}
      <4>1. Some(s) \in s /\ IsFiniteSet(s) /\ s \in SUBSET S /\ Cardinality(s) <= n
        BY <1>0, SomeIsIn DEF Bounded
      <4>2. Cardinality(s \ {Some(s)}) + 1 = Cardinality(s) /\ Cardinality(s \ {Some(s)}) \in Nat
        BY <4>1, Smaller
      <4> QED
        BY <2>1, <4>1, <4>2 DEF Bounded
    <3>4. \A s \in Bounded(S, n - 1) : s \in Bounded(S, n) /\ g[s] = IF s = {} THEN 0 ELSE g[s \ {Some(s)}] + w[Some(s)]
      <4>1. \A s \in Bounded(S, n - 1) : s \in Bounded(S, n)
        BY <1>0, <2>1 DEF Bounded
      <4> QED
        BY <3>2, <4>1 DEF AddsTo
    <3>5. \A s \in Bounded(S, n - 1) : h[s] = g[s]
      BY <3>4
    <3>6. h = [s \in Bounded(S, n) |-> IF s = {} THEN 0 ELSE h[s \ {Some(s)}] + w[Some(s)]]
      <4>1. \A s \in Bounded(S, n) : h[s] = IF s = {} THEN 0 ELSE h[s \ {Some(s)}] + w[Some(s)]
        BY <3>3, <3>5
      <4> QED
        BY <4>1
    <3>7. AddsTo(h, w, S, n)
      BY <3>6 DEF AddsTo
    <3> QED
      BY <2>1, <3>7
  <2> QED
    BY <2>2, <2>3
<1>2. PICK g : AddsTo(g, w, S, Cardinality(S))
  BY <1>0, <1>1
<1>3. Bounded(S, Cardinality(S)) = SUBSET S
  BY <1>0 DEF Bounded
<1> QED
  BY <1>2, <1>3 DEF AddsTo, Adds

LEMMA AddsTyped ==
    ASSUME NEW S, IsFiniteSet(S), NEW w, \A v \in S : w[v] \in Nat, NEW g, Adds(g, w, S)
    PROVE  \A s \in SUBSET S : g[s] \in Nat
<1> DEFINE B == {s \in SUBSET S : g[s] \notin Nat}
<1> SUFFICES ASSUME B # {} PROVE FALSE
  OBVIOUS
<1>1. PICK s \in B : \A t \in B : Cardinality(s) <= Cardinality(t)
  BY SmallestSet
<1>2. s # {}
  BY <1>1 DEF Adds
<1>3. g[s] = g[s \ {Some(s)}] + w[Some(s)] /\ Some(s) \in s
  BY <1>2, SomeIsIn DEF Adds
<1>4. g[s \ {Some(s)}] \in Nat
  <2>1. IsFiniteSet(s)
    BY FS_Subset
  <2> QED
    BY <1>1, <1>3, <2>1, Smaller
<1> QED
  BY <1>1, <1>3, <1>4

\* The order in which the members are added does not matter.
LEMMA AddsAny ==
    ASSUME NEW S, IsFiniteSet(S), NEW w, \A v \in S : w[v] \in Nat, NEW g, Adds(g, w, S)
    PROVE  \A s \in SUBSET S : \A v \in s : g[s] = g[s \ {v}] + w[v]
<1> DEFINE B == {s \in SUBSET S : ~ \A v \in s : g[s] = g[s \ {v}] + w[v]}
<1> SUFFICES ASSUME B # {} PROVE FALSE
  OBVIOUS
<1>1. PICK s \in B : \A t \in B : Cardinality(s) <= Cardinality(t)
  BY SmallestSet
<1>2. PICK v \in s : g[s] # g[s \ {v}] + w[v]
  BY <1>1
<1> DEFINE x == Some(s)
<1>3. g[s] = g[s \ {x}] + w[x] /\ x \in s
  BY <1>2, SomeIsIn DEF Adds
<1> HIDE DEF x
<1>4. x # v
  BY <1>2, <1>3
<1>5. IsFiniteSet(s) /\ IsFiniteSet(s \ {v})
  BY FS_Subset
<1>6. \A y \in s : s \ {y} \in SUBSET S /\ s \ {y} \notin B
  BY <1>1, <1>5, SmallerIsLess
<1>7. g[s \ {x}] = g[s \ {x, v}] + w[v] /\ g[s \ {v}] = g[s \ {x, v}] + w[x]
  <2>1. (s \ {x}) \ {v} = s \ {x, v} /\ (s \ {v}) \ {x} = s \ {x, v}
    OBVIOUS
  <2> QED
    BY <1>2, <1>3, <1>4, <1>6, <2>1
<1>8. g[s \ {x, v}] \in Nat /\ w[x] \in Nat /\ w[v] \in Nat
  BY <1>3, AddsTyped
<1> QED
  BY <1>2, <1>3, <1>7, <1>8

LEMMA AddsMonotone ==
    ASSUME NEW S, IsFiniteSet(S), NEW T, IsFiniteSet(T), NEW w, NEW u,
           \A v \in S : w[v] \in Nat, \A v \in T : u[v] \in Nat, NEW g, Adds(g, w, S), NEW h, Adds(h, u, T)
    PROVE  \A s \in (SUBSET S) \cap (SUBSET T) : (\A v \in s : w[v] <= u[v]) => g[s] <= h[s]
<1> DEFINE B == {s \in SUBSET S : s \in SUBSET T /\ (\A v \in s : w[v] <= u[v]) /\ ~(g[s] <= h[s])}
<1> SUFFICES ASSUME B # {} PROVE FALSE
  OBVIOUS
<1>1. PICK s \in B : \A t \in B : Cardinality(s) <= Cardinality(t)
  BY SmallestSet
<1>2. s # {}
  BY <1>1 DEF Adds
<1> DEFINE x == Some(s)
<1>3. x \in s /\ g[s] = g[s \ {x}] + w[x] /\ h[s] = h[s \ {x}] + u[x]
  BY <1>2, SomeIsIn DEF Adds
<1> HIDE DEF x
<1>4. IsFiniteSet(s)
  BY FS_Subset
<1>5. s \ {x} \notin B
  BY <1>1, <1>3, <1>4, SmallerIsLess
<1>6. g[s \ {x}] \in Nat /\ h[s \ {x}] \in Nat /\ w[x] \in Nat /\ u[x] \in Nat /\ w[x] <= u[x]
  BY <1>3, AddsTyped
<1> QED
  BY <1>1, <1>3, <1>5, <1>6


\* What is promised for a set of requests is the sum of what their reservations may cost.
Prices(q, S) == [r \in S |-> ResourceBot!ReservedCredits(q[r].price)]
Sum(q, S) == ResourceBot!FoldSet(LAMBDA r, sum : ResourceBot!ReservedCredits(q[r].price) + sum, 0, S)

LEMMA SumAdds ==
    ASSUME NEW S, IsFiniteSet(S), NEW q, \A r \in S : ResourceBot!ReservedCredits(q[r].price) \in Nat
    PROVE  \E g : Adds(g, Prices(q, S), S) /\ Sum(q, S) = g[S]
<1> DEFINE g == CHOOSE f : f = [s \in SUBSET S |->
                  IF s = {} THEN 0 ELSE ResourceBot!ReservedCredits(q[Some(s)].price) + f[s \ {Some(s)}]]
<1>1. \E f : f = [s \in SUBSET S |->
                  IF s = {} THEN 0 ELSE ResourceBot!ReservedCredits(q[Some(s)].price) + f[s \ {Some(s)}]]
  <2>1. PICK f : Adds(f, Prices(q, S), S)
    BY AddsExists
  <2>2. \A r \in S : Prices(q, S)[r] = ResourceBot!ReservedCredits(q[r].price) /\ Prices(q, S)[r] \in Nat
    BY DEF Prices
  <2>3. \A s \in SUBSET S : f[s] \in Nat
    BY <2>1, <2>2, AddsTyped
  <2>4. \A s \in SUBSET S :
           f[s] = IF s = {} THEN 0 ELSE ResourceBot!ReservedCredits(q[Some(s)].price) + f[s \ {Some(s)}]
    <3> TAKE s \in SUBSET S
    <3>1. CASE s = {}
      BY <2>1, <3>1 DEF Adds
    <3>2. CASE s # {}
      <4>1. Some(s) \in s /\ f[s] = f[s \ {Some(s)}] + Prices(q, S)[Some(s)]
        BY <2>1, <3>2, SomeIsIn DEF Adds
      <4>2. f[s \ {Some(s)}] \in Nat /\ Prices(q, S)[Some(s)] \in Nat
        BY <2>2, <2>3, <4>1
      <4> QED
        BY <2>2, <3>2, <4>1, <4>2
    <3> QED
      BY <3>1, <3>2
  <2>5. f = [s \in SUBSET S |-> f[s]]
    BY <2>1 DEF Adds
  <2> QED
    BY <2>4, <2>5
<1>2. g = [s \in SUBSET S |->
                  IF s = {} THEN 0 ELSE ResourceBot!ReservedCredits(q[Some(s)].price) + g[s \ {Some(s)}]]
  <2> HIDE DEF Some
  <2> QED
    BY <1>1
<1>3. Sum(q, S) = g[S]
  BY DEF Sum, ResourceBot!FoldSet, ResourceBot!MapThenFoldSet, Some
<1> HIDE DEF g
<1>4. Adds(g, Prices(q, S), S)
  <2>1. PICK f : Adds(f, Prices(q, S), S)
    BY AddsExists
  <2>2. \A r \in S : Prices(q, S)[r] = ResourceBot!ReservedCredits(q[r].price) /\ Prices(q, S)[r] \in Nat
    BY DEF Prices
  <2>3. \A s \in SUBSET S : f[s] \in Nat
    BY <2>1, <2>2, AddsTyped
  <2> DEFINE B == {s \in SUBSET S : g[s] # f[s]}
  <2>4. B = {}
    <3> SUFFICES ASSUME B # {} PROVE FALSE
      OBVIOUS
    <3>1. PICK s \in B : \A t \in B : Cardinality(s) <= Cardinality(t)
      BY SmallestSet
    <3>2. s # {}
      BY <1>2, <2>1, <3>1 DEF Adds
    <3>3. /\ Some(s) \in s
          /\ f[s] = f[s \ {Some(s)}] + Prices(q, S)[Some(s)]
          /\ g[s] = ResourceBot!ReservedCredits(q[Some(s)].price) + g[s \ {Some(s)}]
      BY <1>2, <2>1, <3>2, SomeIsIn DEF Adds
    <3>4. s \ {Some(s)} \notin B
      <4>1. IsFiniteSet(s)
        BY FS_Subset
      <4> QED
        BY <3>1, <3>3, <4>1, SmallerIsLess
    <3>5. f[s \ {Some(s)}] \in Nat /\ Prices(q, S)[Some(s)] \in Nat
      BY <2>2, <2>3, <3>3
    <3> QED
      BY <2>2, <3>1, <3>3, <3>4, <3>5
  <2>5. g = [s \in SUBSET S |-> g[s]] /\ f = [s \in SUBSET S |-> f[s]]
    BY <1>2, <2>1 DEF Adds
  <2>6. g = f
    BY <2>4, <2>5
  <2> QED
    BY <2>1, <2>6
<1> QED
  BY <1>3, <1>4

\* One more reservation adds its price to what is promised.
LEMMA SumWithout ==
    ASSUME NEW T, IsFiniteSet(T), NEW r \in T, NEW q, NEW p,
           \A x \in T \ {r} : ResourceBot!ReservedCredits(q[x].price) \in Nat /\ p[x].price = q[x].price,
           ResourceBot!ReservedCredits(p[r].price) \in Nat
    PROVE  Sum(p, T) = Sum(q, T \ {r}) + ResourceBot!ReservedCredits(p[r].price)
<1> DEFINE S == T \ {r}
<1>1. IsFiniteSet(S) /\ S \in SUBSET T
  BY FS_Subset
<1>2. \A x \in T : Prices(p, T)[x] \in Nat /\ Prices(p, T)[x] = ResourceBot!ReservedCredits(p[x].price)
  BY DEF Prices
<1>3. \A x \in S : Prices(q, S)[x] \in Nat /\ Prices(p, T)[x] = Prices(q, S)[x]
  BY <1>2 DEF Prices
<1>4. PICK g : Adds(g, Prices(p, T), T) /\ Sum(p, T) = g[T]
  <2>1. \A x \in T : ResourceBot!ReservedCredits(p[x].price) \in Nat
    BY <1>2
  <2> QED
    BY <2>1, SumAdds
<1>5. PICK h : Adds(h, Prices(q, S), S) /\ Sum(q, S) = h[S]
  BY <1>1, SumAdds
<1>6. g[T] = g[S] + Prices(p, T)[r]
  BY <1>2, <1>4, AddsAny
<1> HIDE DEF S
<1>7. g[S] <= h[S]
  BY <1>1, <1>2, <1>3, <1>4, <1>5, AddsMonotone
<1>8. h[S] <= g[S]
  BY <1>1, <1>2, <1>3, <1>4, <1>5, AddsMonotone
<1>9. g[S] \in Nat /\ h[S] \in Nat
  BY <1>1, <1>2, <1>3, <1>4, <1>5, AddsTyped
<1>10. g[T] = h[S] + ResourceBot!ReservedCredits(p[r].price)
  BY <1>2, <1>6, <1>7, <1>8, <1>9
<1> QED
  BY <1>4, <1>5, <1>10 DEF S

-----------------------------------------------------------------------------
(* Questions to the bot of a tenant, for any number of requests, executions and other charges *)
(* and whatever they cost.  An execution is the only one with the id of its reservation. *)

Reservations == [id : 1..MaxReserves, price : {1, 2}, ttl : 0..Ttl]
Records == [charged : Nat, price : {1, 2}, by : Nat, asked : {1, 2}, before : Int]
Execs == [request : RequestIds \cup {None}, price : {0, 1, 2}, id : 0..MaxReserves]

BotTypes ==
    /\ balance \in Int /\ price \in {1, 2} /\ enabled \in BOOLEAN
    /\ resv \in [RequestIds -> Reservations \cup {None}]
    /\ usage \in [RequestIds -> Records \cup {None}]
    /\ pc \in [Executions -> ResourceBot!Steps] /\ exec \in [Executions -> Execs]
    /\ ids \in 0..MaxReserves /\ events \in 0..MaxEvents

\* An execution knows its request and the price it saw, and has an id once it has reserved.
Knows(e) ==
    /\ pc[e] # "Idle" => exec[e].request \in RequestIds /\ exec[e].price \in {1, 2}
    /\ pc[e] \in {"Idle", "Reserve"} => exec[e].id = 0
    /\ pc[e] \notin {"Idle", "Reserve"} => exec[e].id # 0
    /\ exec[e].id <= ids

\* A reservation is of the execution that was given its id, at the price that one saw.
IsOf(r, e) == resv[r] # None /\ exec[e].id # 0 /\ resv[r].id = exec[e].id
Made(r) ==
    /\ resv[r] # None => resv[r].id <= ids
    /\ \A e \in Executions : IsOf(r, e) => resv[r].price = exec[e].price

Reserved == {r \in RequestIds : resv[r] # None}

BotInv ==
    /\ BotTypes
    /\ \A e \in Executions : Knows(e)
    /\ \A r \in RequestIds : Made(r)
    /\ ResourceBot!OneOwner /\ ResourceBot!ChargeWasAuthorized
    /\ IsFiniteSet(Reserved)

BotKnown == ResourceBot!ResourceBotAssumption /\ BotInv

LEMMA CreditsAre ==
    ASSUME ResourceBot!ResourceBotAssumption
    PROVE  \A p : ResourceBot!ReservedCredits(p) \in Nat
BY DEF ResourceBot!ResourceBotAssumption, ResourceBot!ReservedCredits

LEMMA ChargeIs ==
    ASSUME BotKnown, NEW r \in RequestIds, NEW cost \in Costs
    PROVE  /\ ResourceBot!ChargedCredits(r, cost) \in Nat
           /\ ResourceBot!ChargedCredits(r, cost) <= ResourceBot!ReservedCredits(resv[r].price)
           /\ ResourceBot!ChargedCredits(r, cost) > 0 => ResourceBot!ChargedCredits(r, cost) <= balance
<1> DEFINE spare == IF balance > 0 THEN balance ELSE 0
           limit == ResourceBot!ReservedCredits(resv[r].price)
           A == {cost, limit, spare}
<1>1. cost \in Nat /\ limit \in Nat /\ spare \in Nat /\ balance \in Int
  BY CreditsAre DEF BotKnown, BotInv, BotTypes, ResourceBot!ResourceBotAssumption
<1>2. \E x \in A : \A y \in A : x <= y
  <2>1. A \in SUBSET Nat /\ A # {}
    BY <1>1
  <2> HIDE DEF A
  <2> QED
    BY <2>1, LeastNumber
<1>3. ResourceBot!Min(A) \in A /\ \A y \in A : ResourceBot!Min(A) <= y
  <2> HIDE DEF A
  <2> QED
    BY <1>2 DEF ResourceBot!Min
<1>4. ResourceBot!ChargedCredits(r, cost) = ResourceBot!Min(A)
  BY DEF ResourceBot!ChargedCredits
<1> HIDE DEF limit
<1>5. ResourceBot!Min(A) \in Nat /\ ResourceBot!Min(A) <= limit /\ ResourceBot!Min(A) <= spare
  BY <1>1, <1>3
<1> QED
  BY <1>1, <1>4, <1>5 DEF limit


\* What a step leaves of the reservations, and of who is in a call.
Loses ==
    \A r \in RequestIds : resv'[r] # None =>
        resv[r] # None /\ resv'[r].id = resv[r].id /\ resv'[r].price = resv[r].price
Busy(step) == step \notin {"Idle", "Reserve"}
GoesOn(e) ==
    \/ /\ exec'[e] = exec[e]
       /\ pc'[e] = pc[e] \/ (Busy(pc[e]) /\ Busy(pc'[e]))
    \/ exec'[e] = ResourceBot!NoExec /\ pc'[e] = "Idle"

LEMMA CallsGoOn ==
    ASSUME BotKnown, BotTypes', Loses, ids' = ids, \A e \in Executions : GoesOn(e)
    PROVE  /\ \A e \in Executions : Knows(e)'
           /\ \A r \in RequestIds : Made(r)'
           /\ ResourceBot!OneOwner' /\ IsFiniteSet(Reserved)'
<1>1. \A e \in Executions : exec'[e].id = 0 \/ exec'[e] = exec[e]
  BY DEF GoesOn, ResourceBot!NoExec
<1>2. ASSUME NEW e \in Executions PROVE Knows(e)'
  <2>1. Knows(e) /\ GoesOn(e) /\ ids' = ids /\ ids \in Nat
    BY DEF BotKnown, BotInv, BotTypes
  <2> QED
    BY <2>1 DEF Knows, GoesOn, ResourceBot!NoExec, Busy
<1>3. ASSUME NEW r \in RequestIds PROVE Made(r)'
  <2>1. Made(r) /\ (resv'[r] # None => resv[r] # None /\ resv'[r].id = resv[r].id /\ resv'[r].price = resv[r].price)
    BY DEF BotKnown, BotInv, Loses
  <2> QED
    BY <1>1, <2>1 DEF Made, IsOf
<1>4. ResourceBot!OneOwner'
  <2>1. ResourceBot!OneOwner
    BY DEF BotKnown, BotInv
  <2> QED
    BY <1>1, <2>1 DEF ResourceBot!OneOwner
<1>5. IsFiniteSet(Reserved)'
  <2>1. IsFiniteSet(Reserved) /\ Reserved' \subseteq Reserved
    BY DEF BotKnown, BotInv, Reserved, Loses
  <2> QED
    BY <2>1, FS_Subset
<1> QED
  BY <1>2, <1>3, <1>4, <1>5

LEMMA NoneIsNoRow == ASSUME ResourceBot!ResourceBotAssumption PROVE None \notin Reservations
BY DEF ResourceBot!ResourceBotAssumption, Reservations

LEMMA GotoIs ==
    ASSUME BotKnown, NEW e \in Executions, NEW step \in ResourceBot!Steps, ResourceBot!Goto(e, step)
    PROVE  /\ pc' \in [Executions -> ResourceBot!Steps] /\ exec' \in [Executions -> Execs]
           /\ \A f \in Executions \ {e} : GoesOn(f)
           /\ pc'[e] = step /\ exec'[e] = IF step = "Idle" THEN ResourceBot!NoExec ELSE exec[e]
<1>1. /\ pc \in [Executions -> ResourceBot!Steps]
      /\ exec \in [Executions -> Execs]
      /\ ResourceBot!NoExec \in Execs
  BY DEF BotKnown, BotInv, BotTypes, ResourceBot!ResourceBotAssumption, Execs, ResourceBot!NoExec
<1> QED
  BY <1>1 DEF ResourceBot!Goto, GoesOn

LEMMA RetrieveMoves == ASSUME BotKnown, NEW e \in Executions, ResourceBot!Retrieve(e) PROVE BotInv'
<1>1. PICK step \in ResourceBot!Steps :
         /\ ResourceBot!Goto(e, step)
         /\ step = "Idle" \/ (Busy(pc[e]) /\ Busy(step))
  BY DEF ResourceBot!Retrieve, ResourceBot!Steps, Busy
<1>2. BotTypes' /\ (\A f \in Executions : GoesOn(f)) /\ Loses
  <2>1. \A f \in Executions : GoesOn(f)
    BY <1>1, GotoIs DEF GoesOn
  <2>2. BotTypes'
    BY <1>1, GotoIs
       DEF BotKnown, BotInv, BotTypes, ResourceBot!ResourceBotAssumption, ResourceBot!Retrieve
  <2> QED
    BY <2>1, <2>2 DEF Loses, ResourceBot!Retrieve
<1>3. ids' = ids /\ ResourceBot!ChargeWasAuthorized'
  BY DEF ResourceBot!Retrieve, BotKnown, BotInv, ResourceBot!ChargeWasAuthorized,
         ResourceBot!ReservedCredits
<1> QED
  BY <1>2, <1>3, CallsGoOn DEF BotInv

LEMMA GenerateMoves == ASSUME BotKnown, NEW e \in Executions, ResourceBot!Generate(e) PROVE BotInv'
<1>1. PICK step \in ResourceBot!Steps :
         /\ ResourceBot!Goto(e, step)
         /\ step = "Idle" \/ (Busy(pc[e]) /\ Busy(step))
  BY DEF ResourceBot!Generate, ResourceBot!Steps, Busy
<1>2. BotTypes' /\ (\A f \in Executions : GoesOn(f)) /\ Loses
  <2>1. \A f \in Executions : GoesOn(f)
    BY <1>1, GotoIs DEF GoesOn
  <2>2. BotTypes'
    BY <1>1, GotoIs
       DEF BotKnown, BotInv, BotTypes, ResourceBot!ResourceBotAssumption, ResourceBot!Generate
  <2> QED
    BY <2>1, <2>2 DEF Loses, ResourceBot!Generate
<1>3. ids' = ids /\ ResourceBot!ChargeWasAuthorized'
  BY DEF ResourceBot!Generate, BotKnown, BotInv, ResourceBot!ChargeWasAuthorized,
         ResourceBot!ReservedCredits
<1> QED
  BY <1>2, <1>3, CallsGoOn DEF BotInv

LEMMA SettleRefusedMoves ==
    ASSUME BotKnown, NEW e \in Executions, ResourceBot!SettleRefused(e)
    PROVE  BotInv'
<1>1. PICK step \in ResourceBot!Steps :
         /\ ResourceBot!Goto(e, step)
         /\ step = "Idle" \/ (Busy(pc[e]) /\ Busy(step))
  BY DEF ResourceBot!SettleRefused, ResourceBot!Steps, Busy
<1>2. BotTypes' /\ (\A f \in Executions : GoesOn(f)) /\ Loses
  <2>1. \A f \in Executions : GoesOn(f)
    BY <1>1, GotoIs DEF GoesOn
  <2>2. BotTypes'
    BY <1>1, GotoIs
       DEF BotKnown, BotInv, BotTypes, ResourceBot!ResourceBotAssumption,
           ResourceBot!SettleRefused
  <2> QED
    BY <2>1, <2>2 DEF Loses, ResourceBot!SettleRefused
<1>3. ids' = ids /\ ResourceBot!ChargeWasAuthorized'
  BY DEF ResourceBot!SettleRefused, BotKnown, BotInv, ResourceBot!ChargeWasAuthorized,
         ResourceBot!ReservedCredits
<1> QED
  BY <1>2, <1>3, CallsGoOn DEF BotInv

LEMMA RefuseMoves == ASSUME BotKnown, NEW e \in Executions, ResourceBot!Refuse(e) PROVE BotInv'
<1>1. PICK step \in ResourceBot!Steps :
         /\ ResourceBot!Goto(e, step)
         /\ step = "Idle" \/ (Busy(pc[e]) /\ Busy(step))
  BY DEF ResourceBot!Refuse, ResourceBot!Steps, Busy
<1>2. BotTypes' /\ (\A f \in Executions : GoesOn(f)) /\ Loses
  <2>1. \A f \in Executions : GoesOn(f)
    BY <1>1, GotoIs DEF GoesOn
  <2>2. BotTypes'
    BY <1>1, GotoIs
       DEF BotKnown, BotInv, BotTypes, ResourceBot!ResourceBotAssumption, ResourceBot!Refuse
  <2> QED
    BY <2>1, <2>2 DEF Loses, ResourceBot!Refuse
<1>3. ids' = ids /\ ResourceBot!ChargeWasAuthorized'
  BY DEF ResourceBot!Refuse, BotKnown, BotInv, ResourceBot!ChargeWasAuthorized,
         ResourceBot!ReservedCredits
<1> QED
  BY <1>2, <1>3, CallsGoOn DEF BotInv

LEMMA LostMoves == ASSUME BotKnown, NEW e \in Executions, ResourceBot!Lost(e) PROVE BotInv'
<1>1. PICK step \in ResourceBot!Steps :
         /\ ResourceBot!Goto(e, step)
         /\ step = "Idle" \/ (Busy(pc[e]) /\ Busy(step))
  BY DEF ResourceBot!Lost, ResourceBot!Steps, Busy
<1>2. BotTypes' /\ (\A f \in Executions : GoesOn(f)) /\ Loses
  <2>1. \A f \in Executions : GoesOn(f)
    BY <1>1, GotoIs DEF GoesOn
  <2>2. BotTypes'
    BY <1>1, GotoIs
       DEF BotKnown, BotInv, BotTypes, ResourceBot!ResourceBotAssumption, ResourceBot!Lost
  <2> QED
    BY <2>1, <2>2 DEF Loses, ResourceBot!Lost
<1>3. ids' = ids /\ ResourceBot!ChargeWasAuthorized'
  BY DEF ResourceBot!Lost, BotKnown, BotInv, ResourceBot!ChargeWasAuthorized,
         ResourceBot!ReservedCredits
<1> QED
  BY <1>2, <1>3, CallsGoOn DEF BotInv

LEMMA OtherChargeMoves == ASSUME BotKnown, ResourceBot!OtherCharge PROVE BotInv'
<1>1. \A f \in Executions : GoesOn(f)
  BY DEF ResourceBot!OtherCharge, GoesOn
<1>2. BotTypes' /\ Loses
  BY DEF ResourceBot!OtherCharge, BotKnown, BotInv, BotTypes, ResourceBot!ResourceBotAssumption,
         Loses
<1>3. ids' = ids /\ ResourceBot!ChargeWasAuthorized'
  BY DEF ResourceBot!OtherCharge, BotKnown, BotInv, ResourceBot!ChargeWasAuthorized,
         ResourceBot!ReservedCredits
<1> QED
  BY <1>1, <1>2, <1>3, CallsGoOn DEF BotInv

LEMMA TickMoves == ASSUME BotKnown, ResourceBot!Tick PROVE BotInv'
<1>1. \A f \in Executions : GoesOn(f)
  BY DEF ResourceBot!Tick, GoesOn
<1>2. BotTypes' /\ Loses
  <2>1. resv' \in [RequestIds -> Reservations \cup {None}] /\ Loses
    BY NoneIsNoRow
       DEF ResourceBot!Tick, ResourceBot!Active, ResourceBot!Owns, Knows, BotKnown, BotInv,
           BotTypes,
           ResourceBot!ResourceBotAssumption, Reservations, Loses
  <2> QED
    BY <2>1 DEF ResourceBot!Tick, BotKnown, BotInv, BotTypes
<1>3. ids' = ids /\ ResourceBot!ChargeWasAuthorized'
  BY DEF ResourceBot!Tick, BotKnown, BotInv, ResourceBot!ChargeWasAuthorized,
         ResourceBot!ReservedCredits
<1> QED
  BY <1>1, <1>2, <1>3, CallsGoOn DEF BotInv

LEMMA CreatePriceMoves == ASSUME BotKnown, ResourceBot!CreatePrice PROVE BotInv'
<1>1. \A f \in Executions : GoesOn(f)
  BY DEF ResourceBot!CreatePrice, GoesOn
<1>2. BotTypes' /\ Loses
  BY DEF ResourceBot!CreatePrice, BotKnown, BotInv, BotTypes, ResourceBot!ResourceBotAssumption,
         Loses
<1>3. ids' = ids /\ ResourceBot!ChargeWasAuthorized'
  BY DEF ResourceBot!CreatePrice, BotKnown, BotInv, ResourceBot!ChargeWasAuthorized,
         ResourceBot!ReservedCredits
<1> QED
  BY <1>1, <1>2, <1>3, CallsGoOn DEF BotInv

LEMMA UpdateSettingsMoves == ASSUME BotKnown, ResourceBot!UpdateSettings PROVE BotInv'
<1>1. \A f \in Executions : GoesOn(f)
  BY DEF ResourceBot!UpdateSettings, GoesOn
<1>2. BotTypes' /\ Loses
  BY DEF ResourceBot!UpdateSettings, BotKnown, BotInv, BotTypes,
         ResourceBot!ResourceBotAssumption, Loses
<1>3. ids' = ids /\ ResourceBot!ChargeWasAuthorized'
  BY DEF ResourceBot!UpdateSettings, BotKnown, BotInv, ResourceBot!ChargeWasAuthorized,
         ResourceBot!ReservedCredits
<1> QED
  BY <1>1, <1>2, <1>3, CallsGoOn DEF BotInv

LEMMA RenewMoves == ASSUME BotKnown, NEW e \in Executions, ResourceBot!Renew(e) PROVE BotInv'
<1>1. \A f \in Executions : GoesOn(f)
  BY DEF ResourceBot!Renew, GoesOn
<1>2. BotTypes' /\ Loses
  <2>1. resv' \in [RequestIds -> Reservations \cup {None}] /\ Loses
    BY NoneIsNoRow
       DEF ResourceBot!Renew, ResourceBot!Active, ResourceBot!Owns, Knows, BotKnown, BotInv,
           BotTypes,
           ResourceBot!ResourceBotAssumption, Reservations, Loses
  <2> QED
    BY <2>1 DEF ResourceBot!Renew, BotKnown, BotInv, BotTypes
<1>3. ids' = ids /\ ResourceBot!ChargeWasAuthorized'
  BY DEF ResourceBot!Renew, BotKnown, BotInv, ResourceBot!ChargeWasAuthorized,
         ResourceBot!ReservedCredits
<1> QED
  BY <1>1, <1>2, <1>3, CallsGoOn DEF BotInv

LEMMA ReleaseMoves == ASSUME BotKnown, NEW e \in Executions, ResourceBot!Release(e) PROVE BotInv'
<1>1. ResourceBot!Goto(e, "Idle") /\ "Idle" \in ResourceBot!Steps
  BY DEF ResourceBot!Release, ResourceBot!Steps
<1>2. BotTypes' /\ (\A f \in Executions : GoesOn(f)) /\ Loses
  <2>1. \A f \in Executions : GoesOn(f)
    BY <1>1, GotoIs DEF GoesOn
  <2>2. BotTypes'
    BY <1>1, GotoIs DEF BotKnown, BotInv, BotTypes, ResourceBot!Release
  <2> QED
    BY <2>1, <2>2 DEF Loses, ResourceBot!Release, BotKnown, BotInv, BotTypes
<1>3. ids' = ids /\ ResourceBot!ChargeWasAuthorized'
  BY DEF ResourceBot!Release, BotKnown, BotInv, ResourceBot!ChargeWasAuthorized,
         ResourceBot!ReservedCredits
<1> QED
  BY <1>2, <1>3, CallsGoOn DEF BotInv

LEMMA SettleMoves == ASSUME BotKnown, NEW e \in Executions, ResourceBot!Settle(e) PROVE BotInv'
<1> DEFINE r == exec[e].request
<1>1. ResourceBot!Goto(e, "Idle") /\ "Idle" \in ResourceBot!Steps
  BY DEF ResourceBot!Settle, ResourceBot!Steps
<1>2. /\ r \in RequestIds /\ usage[r] = None /\ resv[r] \in Reservations
      /\ resv[r].id = exec[e].id /\ resv[r].price = exec[e].price /\ exec[e].id \in Nat
      /\ resv[r].price \in {1, 2}
  <2>1. /\ pc[e] = "Settle" /\ usage[r] = None /\ resv[r] # None /\ resv[r].id = exec[e].id
    BY DEF ResourceBot!Settle, ResourceBot!Settleable, ResourceBot!Owns
  <2>2. Knows(e) /\ exec[e].id \in Nat /\ exec[e].id # 0 /\ r \in RequestIds
    <3>1. Knows(e) /\ exec[e].id \in Nat
      BY DEF BotKnown, BotInv, BotTypes, Execs
    <3> QED
      BY <2>1, <3>1 DEF Knows
  <2>3. Made(r) /\ resv[r] \in Reservations
    BY <2>1, <2>2 DEF BotKnown, BotInv, BotTypes
  <2> QED
    BY <2>1, <2>2, <2>3 DEF Made, IsOf, Reservations
<1>3. PICK cost \in Costs :
         /\ usage' = [usage EXCEPT ![r] = [charged |-> ResourceBot!ChargedCredits(r, cost),
                                           price |-> resv[r].price,
                                           by |-> exec[e].id, asked |-> exec[e].price, before |-> balance]]
         /\ balance' = balance - ResourceBot!ChargedCredits(r, cost)
  BY DEF ResourceBot!Settle
<1> DEFINE charge == ResourceBot!ChargedCredits(r, cost)
<1>4. /\ charge \in Nat /\ charge <= ResourceBot!ReservedCredits(resv[r].price)
      /\ charge > 0 => charge <= balance
  BY <1>2, ChargeIs
<1> HIDE DEF charge
<1> DEFINE record == [charged |-> charge, price |-> resv[r].price, by |-> exec[e].id,
                      asked |-> exec[e].price, before |-> balance]
<1>5. record \in Records
  BY <1>2, <1>4 DEF Records, BotKnown, BotInv, BotTypes
<1>6. usage' = [usage EXCEPT ![r] = record] /\ balance' = balance - charge
  BY <1>3 DEF charge
<1>7. BotTypes' /\ (\A f \in Executions : GoesOn(f)) /\ Loses
  <2>1. \A f \in Executions : GoesOn(f)
    BY <1>1, GotoIs DEF GoesOn
  <2>2. usage' \in [RequestIds -> Records \cup {None}] /\ balance' \in Int
    BY <1>2, <1>4, <1>5, <1>6 DEF BotKnown, BotInv, BotTypes
  <2>3. resv' = [resv EXCEPT ![r] = None]
    BY DEF ResourceBot!Settle
  <2>4. BotTypes'
    BY <1>1, <2>2, <2>3, GotoIs DEF BotKnown, BotInv, BotTypes, ResourceBot!Settle
  <2> QED
    BY <2>1, <2>3, <2>4 DEF Loses, BotKnown, BotInv, BotTypes
<1>8. ResourceBot!ChargeWasAuthorized'
  <2>1. ASSUME NEW x \in RequestIds, x # r PROVE usage'[x] = usage[x]
    BY <1>2, <1>6, <2>1 DEF BotKnown, BotInv, BotTypes
  <2>2. usage'[r] = record
    BY <1>2, <1>6 DEF BotKnown, BotInv, BotTypes
  <2> QED
    BY <1>2, <1>4, <2>1, <2>2
       DEF BotKnown, BotInv, ResourceBot!ChargeWasAuthorized, ResourceBot!ReservedCredits
<1>9. ids' = ids
  BY DEF ResourceBot!Settle
<1> QED
  BY <1>7, <1>8, <1>9, CallsGoOn DEF BotInv

LEMMA AskMoves ==
    ASSUME BotKnown, NEW e \in Executions, NEW r \in RequestIds, ResourceBot!Ask(e, r)
    PROVE  BotInv'
<1> DEFINE asked == [request |-> r, price |-> price, id |-> 0]
<1>1. asked \in Execs /\ price \in {1, 2}
  BY DEF Execs, BotKnown, BotInv, BotTypes, ResourceBot!ResourceBotAssumption
<1>2. /\ pc' = [pc EXCEPT ![e] = "Reserve"] /\ exec' = [exec EXCEPT ![e] = asked]
      /\ pc[e] = "Idle" /\ resv' = resv /\ usage' = usage /\ ids' = ids
  BY DEF ResourceBot!Ask
<1>3. BotTypes'
  BY <1>1, <1>2 DEF ResourceBot!Ask, ResourceBot!Steps, BotKnown, BotInv, BotTypes
<1>4. /\ exec'[e] = asked /\ pc'[e] = "Reserve"
      /\ \A f \in Executions \ {e} : exec'[f] = exec[f] /\ pc'[f] = pc[f]
  BY <1>1, <1>2 DEF BotKnown, BotInv, BotTypes
<1>5. ASSUME NEW f \in Executions PROVE Knows(f)'
  BY <1>1, <1>2, <1>4 DEF Knows, BotKnown, BotInv, BotTypes
<1>6. \A f \in Executions : exec'[f].id = 0 \/ exec'[f] = exec[f]
  BY <1>4
<1>7. ASSUME NEW x \in RequestIds PROVE Made(x)'
  BY <1>2, <1>6 DEF Made, IsOf, BotKnown, BotInv
<1>8. ResourceBot!OneOwner' /\ ResourceBot!ChargeWasAuthorized' /\ IsFiniteSet(Reserved)'
  BY <1>2, <1>6
     DEF ResourceBot!OneOwner, ResourceBot!ChargeWasAuthorized, ResourceBot!ReservedCredits,
         Reserved, BotKnown, BotInv
<1> QED
  BY <1>3, <1>5, <1>7, <1>8 DEF BotInv

LEMMA ReserveMoves == ASSUME BotKnown, NEW e \in Executions, ResourceBot!Reserve(e) PROVE BotInv'
<1> DEFINE r == exec[e].request
           entry == [id |-> ids + 1, price |-> exec[e].price, ttl |-> Ttl]
<1>1. /\ pc[e] = "Reserve" /\ r \in RequestIds /\ exec[e].price \in {1, 2} /\ ids + 1 \in 1..MaxReserves
      /\ r \notin ResourceBot!Active /\ ids \in Nat
  BY DEF ResourceBot!Reserve, Knows, BotKnown, BotInv, BotTypes, ResourceBot!ResourceBotAssumption
<1>2. entry \in Reservations
  BY <1>1 DEF Reservations, BotKnown, ResourceBot!ResourceBotAssumption
<1>3. /\ ids' = ids + 1 /\ exec' = [exec EXCEPT ![e].id = ids + 1]
      /\ pc' = [pc EXCEPT ![e] = "Retrieve"] /\ usage' = usage
      /\ resv' = [x \in RequestIds |-> IF x = r THEN entry ELSE IF x \in ResourceBot!Active THEN resv[x] ELSE None]
  BY DEF ResourceBot!Reserve
<1>4. resv'[r] = entry /\ \A x \in RequestIds \ {r} : resv'[x] = None \/ resv'[x] = resv[x]
  BY <1>1, <1>3
<1>5. /\ exec'[e].request = r /\ exec'[e].price = exec[e].price /\ exec'[e].id = ids + 1
      /\ pc'[e] = "Retrieve" /\ exec'[e] \in Execs
      /\ \A f \in Executions \ {e} : exec'[f] = exec[f] /\ pc'[f] = pc[f]
  BY <1>1, <1>3 DEF BotKnown, BotInv, BotTypes, Execs
<1> HIDE DEF r
<1>6. BotTypes'
  <2>1. resv' \in [RequestIds -> Reservations \cup {None}]
    BY <1>2, <1>3 DEF BotKnown, BotInv, BotTypes
  <2>2. exec' \in [Executions -> Execs] /\ pc' \in [Executions -> ResourceBot!Steps]
    BY <1>3, <1>5 DEF BotKnown, BotInv, BotTypes, ResourceBot!Steps
  <2> QED
    BY <1>1, <1>3, <2>1, <2>2 DEF ResourceBot!Reserve, BotKnown, BotInv, BotTypes
<1>7. ASSUME NEW f \in Executions PROVE Knows(f)'
  <2>1. CASE f = e
    BY <1>1, <1>3, <1>5, <2>1 DEF Knows
  <2>2. CASE f # e
    <3>1. Knows(f) /\ exec[f].id \in Nat
      BY DEF BotKnown, BotInv, BotTypes, Execs
    <3> QED
      BY <1>1, <1>3, <1>5, <2>2, <3>1 DEF Knows
  <2> QED
    BY <2>1, <2>2
<1>8. \A f \in Executions : Knows(f) /\ exec[f].id \in Nat
  BY DEF BotKnown, BotInv, BotTypes, Execs
<1>9. \A f \in Executions : exec[f].id <= ids
  BY <1>8 DEF Knows
<1>10. ASSUME NEW x \in RequestIds PROVE Made(x)'
  <2>1. Made(x) /\ (resv[x] # None => resv[x].id \in Nat)
    BY DEF BotKnown, BotInv, BotTypes, Reservations
  <2>2. CASE x = r
    <3>1. ASSUME NEW f \in Executions, exec'[f].id = ids + 1 PROVE f = e
      <4> SUFFICES ASSUME f # e PROVE FALSE
        OBVIOUS
      <4>1. exec'[f] = exec[f] /\ exec[f].id <= ids /\ exec[f].id \in Nat
        BY <1>5, <1>8, <1>9
      <4> QED
        BY <1>1, <3>1, <4>1
    <3>2. resv'[x].id = ids + 1 /\ resv'[x].price = exec[e].price
      BY <1>4, <2>2
    <3> QED
      BY <1>1, <1>3, <1>5, <3>1, <3>2 DEF Made, IsOf
  <2>3. CASE x # r
    <3>1. SUFFICES ASSUME resv'[x] # None PROVE Made(x)'
      BY DEF Made, IsOf
    <3>2. resv'[x] = resv[x] /\ resv[x].id <= ids /\ resv[x].id \in Nat
      BY <1>4, <2>1, <2>3, <3>1 DEF Made
    <3>3. \A f \in Executions : exec'[f].id = resv[x].id => f # e
      BY <1>1, <1>5, <3>2
    <3> QED
      BY <1>1, <1>3, <1>5, <2>1, <3>2, <3>3 DEF Made, IsOf
  <2> QED
    BY <2>2, <2>3
<1>11. ResourceBot!OneOwner'
  <2>1. ResourceBot!OneOwner
    BY DEF BotKnown, BotInv
  <2>2. \A f \in Executions \ {e} : exec'[f].id # ids + 1 /\ exec'[f] = exec[f]
    BY <1>1, <1>5, <1>8, <1>9
  <2> QED
    BY <1>5, <2>1, <2>2 DEF ResourceBot!OneOwner
<1>12. ResourceBot!ChargeWasAuthorized'
  BY <1>3 DEF BotKnown, BotInv, ResourceBot!ChargeWasAuthorized, ResourceBot!ReservedCredits
<1>13. IsFiniteSet(Reserved)'
  <2>1. Reserved' \subseteq Reserved \cup {r} /\ IsFiniteSet(Reserved \cup {r})
    BY <1>1, <1>4, FS_AddElement DEF BotKnown, BotInv, Reserved
  <2> QED
    BY <2>1, FS_Subset
<1> QED
  BY <1>6, <1>7, <1>10, <1>11, <1>12, <1>13 DEF BotInv

LEMMA BotStutters == ASSUME BotKnown, UNCHANGED ResourceBot!vars PROVE BotInv'
<1>1. Loses /\ \A f \in Executions : GoesOn(f)
  BY DEF ResourceBot!vars, Loses, GoesOn
<1>2. BotTypes' /\ ResourceBot!ChargeWasAuthorized'
  BY DEF ResourceBot!vars, BotKnown, BotInv, BotTypes, ResourceBot!ChargeWasAuthorized,
         ResourceBot!ReservedCredits
<1> QED
  BY <1>1, <1>2, CallsGoOn DEF BotInv, ResourceBot!vars

LEMMA BotMoves == ASSUME BotKnown, ResourceBot!Next PROVE BotInv'
BY AskMoves, ReserveMoves, RefuseMoves, RetrieveMoves, GenerateMoves, SettleMoves,
    SettleRefusedMoves,
    ReleaseMoves, RenewMoves, LostMoves, OtherChargeMoves, TickMoves, CreatePriceMoves,
    UpdateSettingsMoves
   DEF ResourceBot!Next, ResourceBot!Step

LEMMA BotInit == ASSUME ResourceBot!ResourceBotAssumption, ResourceBot!Init PROVE BotInv
<1>1. BotTypes
  BY DEF ResourceBot!ResourceBotAssumption, ResourceBot!Init, BotTypes, Execs, ResourceBot!NoExec,
         ResourceBot!Steps
<1>2. (\A e \in Executions : Knows(e)) /\ (\A r \in RequestIds : Made(r))
  BY DEF ResourceBot!ResourceBotAssumption, ResourceBot!Init, Knows, Made, IsOf, ResourceBot!NoExec
<1>3. ResourceBot!OneOwner /\ ResourceBot!ChargeWasAuthorized
  BY DEF ResourceBot!Init, ResourceBot!OneOwner, ResourceBot!ChargeWasAuthorized, ResourceBot!NoExec
<1>4. Reserved = {}
  BY DEF ResourceBot!Init, Reserved
<1> QED
  BY <1>1, <1>2, <1>3, <1>4, FS_EmptySet DEF BotInv

LEMMA BotTyped == ASSUME BotKnown PROVE ResourceBot!TypeOK
BY DEF BotKnown, BotInv, BotTypes, ResourceBot!TypeOK, Reservations, Records, Execs

\* What a new reservation leaves of the balance covers every live one.
LEMMA Covered == ASSUME BotKnown, ResourceBot!Next PROVE ResourceBot!ReservationIsCovered
<1> SUFFICES ASSUME ids' > ids PROVE ResourceBot!Promised(ResourceBot!Active)' <= balance'
  BY DEF ResourceBot!ReservationIsCovered
<1>0. ids \in Nat
  BY DEF BotKnown, BotInv, BotTypes
<1>1. PICK e \in Executions : ResourceBot!Reserve(e)
  <2>1. \A e \in Executions : ResourceBot!Refuse(e) \/ ResourceBot!Retrieve(e) \/ ResourceBot!Generate(e) \/ ResourceBot!SettleRefused(e)
                              => ids' = ids
    BY DEF ResourceBot!Refuse, ResourceBot!Retrieve, ResourceBot!Generate, ResourceBot!SettleRefused
  <2>2. \A e \in Executions : ResourceBot!Settle(e) \/ ResourceBot!Release(e) \/ ResourceBot!Renew(e) \/ ResourceBot!Lost(e)
                              => ids' = ids
    BY DEF ResourceBot!Settle, ResourceBot!Release, ResourceBot!Renew, ResourceBot!Lost
  <2>3. \A e \in Executions, r \in RequestIds : ResourceBot!Ask(e, r) => ids' = ids
    BY DEF ResourceBot!Ask
  <2>4. ResourceBot!OtherCharge \/ ResourceBot!Tick \/ ResourceBot!CreatePrice \/ ResourceBot!UpdateSettings
  => ids' = ids
    BY DEF ResourceBot!OtherCharge, ResourceBot!Tick, ResourceBot!CreatePrice,
           ResourceBot!UpdateSettings
  <2>5. ~(ids' = ids)
    BY <1>0
  <2> QED
    BY <2>1, <2>2, <2>3, <2>4, <2>5 DEF ResourceBot!Next, ResourceBot!Step
<1> DEFINE r == exec[e].request
<1>2. r \in RequestIds /\ r \notin ResourceBot!Active /\ Ttl > 0
  BY <1>1 DEF ResourceBot!Reserve, Knows, BotKnown, BotInv, ResourceBot!ResourceBotAssumption
<1>3. /\ resv' = [x \in RequestIds |->
                     IF x = r THEN [id |-> ids + 1, price |-> exec[e].price, ttl |-> Ttl]
                     ELSE IF x \in ResourceBot!Active THEN resv[x] ELSE None]
      /\ balance' = balance
      /\ balance - ResourceBot!Promised(ResourceBot!Active) >= ResourceBot!ReservedCredits(exec[e].price)
  BY <1>1 DEF ResourceBot!Reserve, ResourceBot!Admitted
<1>4. resv'[r].price = exec[e].price /\ resv'[r].ttl = Ttl /\ resv'[r] \in Reservations
  BY <1>1, <1>2, <1>3, ReserveMoves
     DEF Reservations, ResourceBot!Reserve, BotInv, BotTypes, Knows, BotKnown,
         ResourceBot!ResourceBotAssumption
<1>5. resv'[r] # None
  BY <1>4, NoneIsNoRow DEF BotKnown
<1>6. \A x \in RequestIds \ {r} : resv'[x] = IF x \in ResourceBot!Active THEN resv[x] ELSE None
  BY <1>3
<1>7. ResourceBot!Active' = ResourceBot!Active \cup {r}
  BY <1>2, <1>4, <1>5, <1>6 DEF ResourceBot!Active
<1>8. IsFiniteSet(ResourceBot!Active) /\ ResourceBot!Active \subseteq RequestIds
  <2>1. /\ IsFiniteSet(Reserved)
        /\ ResourceBot!Active \subseteq Reserved
        /\ ResourceBot!Active \subseteq RequestIds
    BY DEF BotKnown, BotInv, ResourceBot!Active, Reserved
  <2> QED
    BY <2>1, FS_Subset
<1>9. /\ ResourceBot!Promised(ResourceBot!Active) = Sum(resv, ResourceBot!Active)
      /\ ResourceBot!Promised(ResourceBot!Active)' = Sum(resv', ResourceBot!Active')
  <2>1. ResourceBot!Promised(ResourceBot!Active) = Sum(resv, ResourceBot!Active)
    BY Zenon DEF ResourceBot!Promised, Sum, ResourceBot!FoldSet, ResourceBot!MapThenFoldSet
  <2>2. ResourceBot!Promised(ResourceBot!Active)' = Sum(resv', ResourceBot!Active')
    BY Zenon DEF ResourceBot!Promised, Sum, ResourceBot!FoldSet, ResourceBot!MapThenFoldSet
  <2> QED
    BY <2>1, <2>2
<1> HIDE DEF r
<1>10. Sum(resv', ResourceBot!Active') = Sum(resv, ResourceBot!Active) + ResourceBot!ReservedCredits(resv'[r].price)
  <2>1. \A x \in ResourceBot!Active : ResourceBot!ReservedCredits(resv[x].price) \in Nat /\ resv'[x].price = resv[x].price
    BY <1>2, <1>6, <1>8, CreditsAre DEF BotKnown
  <2>2. ResourceBot!ReservedCredits(resv'[r].price) \in Nat
    BY CreditsAre DEF BotKnown
  <2>3. /\ IsFiniteSet(ResourceBot!Active')
        /\ r \in ResourceBot!Active'
        /\ ResourceBot!Active = ResourceBot!Active' \ {r}
    BY <1>2, <1>7, <1>8, FS_AddElement
  <2> QED
    BY <2>1, <2>2, <2>3, SumWithout
<1>11. Sum(resv, ResourceBot!Active) \in Nat
  <2>1. \A x \in ResourceBot!Active : ResourceBot!ReservedCredits(resv[x].price) \in Nat
                                      /\ Prices(resv, ResourceBot!Active)[x] = ResourceBot!ReservedCredits(resv[x].price)
    BY CreditsAre DEF BotKnown, Prices
  <2> QED
    BY <1>8, <2>1, SumAdds, AddsTyped
<1>12. balance \in Int /\ ResourceBot!ReservedCredits(exec[e].price) \in Nat
  BY CreditsAre DEF BotKnown, BotInv, BotTypes
<1> QED
  BY <1>3, <1>4, <1>7, <1>9, <1>10, <1>11, <1>12

LEMMA Ended == ASSUME BotKnown, ResourceBot!Next PROVE ResourceBot!OwnerEndsReservation
<1> SUFFICES ASSUME NEW r \in RequestIds
             PROVE  /\ usage[r] # None => usage'[r] = usage[r]
                    /\ r \in ResourceBot!Active /\ resv'[r] = None =>
                          \E e \in Executions : pc[e] \in {"Settle", "Release"} /\ exec[e].id = resv[r].id
                                                 /\ pc'[e] = "Idle"
  BY DEF ResourceBot!OwnerEndsReservation
<1>1. ASSUME NEW e \in Executions, ResourceBot!Settle(e) \/ ResourceBot!Release(e)
      PROVE  /\ usage[r] # None => usage'[r] = usage[r]
             /\ r \in ResourceBot!Active /\ resv'[r] = None =>
                   pc[e] \in {"Settle", "Release"} /\ exec[e].id = resv[r].id /\ pc'[e] = "Idle"
  <2>1. pc[e] \in {"Settle", "Release"} /\ ResourceBot!Goto(e, "Idle")
    BY <1>1 DEF ResourceBot!Settle, ResourceBot!Release
  <2>2. pc'[e] = "Idle"
    BY <2>1, GotoIs DEF ResourceBot!Steps
  <2>3. \/ resv' = resv
        \/ ResourceBot!Owns(e) /\ resv' = [resv EXCEPT ![exec[e].request] = None]
    BY <1>1 DEF ResourceBot!Settle, ResourceBot!Settleable, ResourceBot!Release
  <2>4. \/ usage' = usage
        \/ usage[exec[e].request] = None /\ \E u : usage' = [usage EXCEPT ![exec[e].request] = u]
    BY <1>1 DEF ResourceBot!Settle, ResourceBot!Settleable, ResourceBot!Release
  <2>5. /\ resv \in [RequestIds -> Reservations \cup {None}]
        /\ usage \in [RequestIds -> Records \cup {None}]
    BY DEF BotKnown, BotInv, BotTypes
  <2>6. usage[r] # None => usage'[r] = usage[r]
    BY <2>4, <2>5
  <2>7. r \in ResourceBot!Active /\ resv'[r] = None => exec[e].id = resv[r].id
    BY <2>3, <2>5 DEF ResourceBot!Active, ResourceBot!Owns
  <2> QED
    BY <2>1, <2>2, <2>6, <2>7
<1>2. ASSUME NEW e \in Executions, ResourceBot!Reserve(e)
      PROVE  usage' = usage /\ (r \in ResourceBot!Active => resv'[r] # None)
  BY <1>2 DEF ResourceBot!Reserve, ResourceBot!Active
<1>3. ASSUME ResourceBot!Tick \/ \E e \in Executions : ResourceBot!Renew(e)
      PROVE  usage' = usage /\ (r \in ResourceBot!Active => resv'[r] # None)
  <2>1. resv \in [RequestIds -> Reservations \cup {None}] /\ Ttl \in Nat
    BY DEF BotKnown, BotInv, BotTypes, ResourceBot!ResourceBotAssumption
  <2>2. \A q \in Reservations : \A t \in 0..Ttl : [q EXCEPT !.ttl = t] # None
    BY NoneIsNoRow DEF BotKnown, Reservations
  <2>3. \A x \in ResourceBot!Active : x \in RequestIds /\ resv[x] \in Reservations /\ resv[x].ttl - 1 \in 0..Ttl
    BY <2>1 DEF ResourceBot!Active, Reservations
  <2>4. CASE ResourceBot!Tick
    BY <2>2, <2>3, <2>4 DEF ResourceBot!Tick
  <2>5. CASE \E e \in Executions : ResourceBot!Renew(e)
    <3>1. PICK e \in Executions : ResourceBot!Renew(e)
      BY <2>5
    <3>2. r \in ResourceBot!Active => resv'[r] = resv[r] \/ resv'[r] = [resv[r] EXCEPT !.ttl = Ttl]
      BY <2>1, <3>1 DEF ResourceBot!Renew, ResourceBot!Active
    <3>3. usage' = usage /\ Ttl \in 0..Ttl
      BY <2>1, <3>1 DEF ResourceBot!Renew
    <3> QED
      BY <2>2, <2>3, <3>2, <3>3 DEF ResourceBot!Active
  <2> QED
    BY <1>3, <2>4, <2>5
<1> QED
  BY <1>1, <1>2, <1>3
     DEF ResourceBot!Next, ResourceBot!Step, ResourceBot!Refuse, ResourceBot!Retrieve,
         ResourceBot!Generate, ResourceBot!SettleRefused, ResourceBot!Lost, ResourceBot!Ask,
         ResourceBot!OtherCharge, ResourceBot!CreatePrice,
         ResourceBot!UpdateSettings, ResourceBot!Active

LEMMA NothingEnds ==
    ASSUME BotKnown, UNCHANGED ResourceBot!vars
    PROVE  ResourceBot!ReservationIsCovered /\ ResourceBot!OwnerEndsReservation
<1>1. ~(ids' > ids)
  BY DEF ResourceBot!vars, BotKnown, BotInv, BotTypes
<1>2. \A r \in RequestIds : usage'[r] = usage[r] /\ ~(r \in ResourceBot!Active /\ resv'[r] = None)
  BY DEF ResourceBot!vars, ResourceBot!Active
<1> QED
  BY <1>1, <1>2 DEF ResourceBot!ReservationIsCovered, ResourceBot!OwnerEndsReservation

-----------------------------------------------------------------------------
(* The settings of the bot: a request that was not crossed writes the key and the model *)
(* that were validated.                                                                 *)

Patches == [key : Keys \cup {None, "blank"}, model : Models \cup {None}]
SettingsTypes ==
    /\ state \in [enabled : BOOLEAN, key : Keys \cup {None, "blank"}, model : Models,
                  validated : BOOLEAN, error : BOOLEAN]
    /\ botSettingsPc \in [BotAdmins -> {"Idle", "Validate", "Write", "WriteValidated", "Check"}]
    /\ req \in [BotAdmins -> [patch : Patches, key : Keys \cup {None},
                              model : Models \cup {None}, enabled : BOOLEAN]]
    /\ mixed \in BOOLEAN

\* What a request asks for, and what it has resolved.
Resolved(a) ==
    /\ botSettingsPc[a] \in {"Validate", "WriteValidated"} => req[a].key \in Keys
    /\ botSettingsPc[a] \in {"Validate", "Write", "WriteValidated", "Check"} =>
          /\ req[a].model \in Models
          /\ req[a].patch.key \in Keys => req[a].key = req[a].patch.key
    /\ botSettingsPc[a] = "WriteValidated" => <<req[a].key, req[a].model>> \in valid
    /\ botSettingsPc[a] \in {"Write", "Check"} => req[a].patch = BotSettings!NoPatch

StoredWasValidated ==
    state.key \in Keys /\ state.validated /\ ~mixed => <<state.key, state.model>> \in valid

SettingsInv == SettingsTypes /\ (\A a \in BotAdmins : Resolved(a)) /\ StoredWasValidated

LEMMA SettingsMove ==
    ASSUME BotSettings!BotSettingsAssumption, SettingsInv, BotSettings!Next
    PROVE  SettingsInv'
<1> USE DEF BotSettings!Or, BotSettings!KeyOf, BotSettings!NoPatch
<1>1. ASSUME NEW a \in BotAdmins, BotSettings!Update(a) PROVE SettingsInv'
  <2>1. PICK k \in Keys \cup {None, "blank"}, m \in Models \cup {None}, on \in BOOLEAN :
           LET patch == [key |-> k, model |-> m] IN
           /\ on \/ BotSettings!NeedsValidation(patch, on) => BotSettings!KeyOf(k) # None
           /\ req' = [req EXCEPT ![a] = [patch |-> patch, key |-> BotSettings!KeyOf(k),
                                         model |-> BotSettings!Or(m, state.model), enabled |-> on]]
           /\ botSettingsPc' = [botSettingsPc EXCEPT ![a] = IF BotSettings!NeedsValidation(patch, on)
                                                            THEN "Validate" ELSE "Write"]
    BY <1>1, Zenon DEF BotSettings!Update
  <2> DEFINE patch == [key |-> k, model |-> m]
             r == [patch |-> patch, key |-> BotSettings!KeyOf(k), model |-> BotSettings!Or(m, state.model),
                   enabled |-> on]
  <2>2. patch \in Patches /\ patch.key = k /\ patch.model = m
    BY DEF Patches
  <2> HIDE DEF patch
  <2>3. /\ r \in [patch : Patches, key : Keys \cup {None}, model : Models \cup {None}, enabled : BOOLEAN]
        /\ r.model \in Models
        /\ k \in Keys => r.key = k
    BY <2>2 DEF SettingsInv, SettingsTypes, BotSettings!BotSettingsAssumption
  <2>4. /\ req' = [req EXCEPT ![a] = r]
        /\ BotSettings!NeedsValidation(patch, on) => BotSettings!KeyOf(k) # None
        /\ botSettingsPc' = [botSettingsPc EXCEPT ![a] = IF BotSettings!NeedsValidation(patch, on)
                                                         THEN "Validate" ELSE "Write"]
    BY <2>1 DEF patch
  <2>5. botSettingsPc'[a] \in {"Validate", "Write"} /\ req'[a] = r
    BY <2>4 DEF SettingsInv, SettingsTypes
  <2>6. botSettingsPc'[a] = "Write" => patch = BotSettings!NoPatch
    BY <2>2, <2>4 DEF SettingsInv, SettingsTypes, BotSettings!NeedsValidation, patch
  <2>7. botSettingsPc'[a] = "Validate" => r.key \in Keys
    BY <2>3, <2>4 DEF SettingsInv, SettingsTypes
  <2>8. Resolved(a)'
    BY <2>2, <2>3, <2>5, <2>6, <2>7 DEF Resolved
  <2>9. SettingsTypes'
    BY <1>1, <2>3, <2>4 DEF SettingsInv, SettingsTypes, BotSettings!Update
  <2>10. \A b \in BotAdmins \ {a} : Resolved(b)'
    BY <1>1, <2>4 DEF SettingsInv, SettingsTypes, Resolved, BotSettings!Update
  <2> QED
    BY <1>1, <2>8, <2>9, <2>10 DEF SettingsInv, StoredWasValidated, BotSettings!Update
<1>2. ASSUME NEW a \in BotAdmins, BotSettings!Accepted(a) PROVE SettingsInv'
  <2>1. Resolved(a) /\ botSettingsPc[a] = "Validate" /\ botSettingsPc'[a] = "WriteValidated"
    BY <1>2 DEF SettingsInv, SettingsTypes, BotSettings!Accepted
  <2>2. SettingsTypes'
    BY <1>2 DEF SettingsInv, SettingsTypes, BotSettings!Accepted
  <2>3. Resolved(a)'
    BY <1>2, <2>1 DEF Resolved, BotSettings!Accepted
  <2>4. \A b \in BotAdmins \ {a} : Resolved(b)'
    BY <1>2 DEF SettingsInv, SettingsTypes, Resolved, BotSettings!Accepted
  <2> QED
    BY <1>2, <2>2, <2>3, <2>4 DEF SettingsInv, StoredWasValidated, BotSettings!Accepted
<1>3. ASSUME NEW a \in BotAdmins, BotSettings!Done(a), valid \subseteq valid'
      PROVE  \A b \in BotAdmins : Resolved(b)'
  BY <1>3 DEF SettingsInv, SettingsTypes, Resolved, BotSettings!Done, BotSettings!NoReq
<1>4. ASSUME NEW a \in BotAdmins, BotSettings!Rejected(a) PROVE SettingsInv'
  <2>1. SettingsTypes'
    BY <1>4
       DEF SettingsInv, SettingsTypes, Patches, BotSettings!Rejected, BotSettings!Done, BotSettings!NoReq
  <2>2. StoredWasValidated'
    BY <1>4 DEF SettingsInv, SettingsTypes, StoredWasValidated, BotSettings!Rejected
  <2> QED
    BY <1>3, <1>4, <2>1, <2>2 DEF SettingsInv, BotSettings!Rejected
<1>5. ASSUME NEW a \in BotAdmins, BotSettings!Save(a) PROVE SettingsInv'
  <2>1. Resolved(a) /\ botSettingsPc[a] \in {"Write", "WriteValidated"} /\ req[a].patch \in Patches
    BY <1>5 DEF SettingsInv, SettingsTypes, BotSettings!Save
  <2>2. /\ state'.key = BotSettings!Or(req[a].patch.key, state.key)
        /\ state'.model = req[a].model
        /\ state'.validated = (state.validated \/ botSettingsPc[a] = "WriteValidated")
        /\ mixed' = (BotSettings!Crossed(a) \/ (mixed /\ botSettingsPc[a] = "Write"))
        /\ valid' = valid
    BY <1>5 DEF BotSettings!Save
  <2>3. SettingsTypes'
    BY <1>5, <2>1
       DEF SettingsInv, SettingsTypes, BotSettings!Save, BotSettings!Done, BotSettings!NoReq,
           Resolved, Patches, BotSettings!Crossed
  <2>4. ASSUME state'.key \in Keys, state'.validated, ~mixed'
        PROVE  <<state'.key, state'.model>> \in valid'
    <3>1. ~BotSettings!Crossed(a)
      BY <2>2, <2>4
    <3>2. CASE botSettingsPc[a] = "WriteValidated"
      <4>1. state'.key = req[a].key
        BY <2>1, <2>2, <2>4, <3>1, <3>2
           DEF Resolved, BotSettings!Crossed, BotSettings!BotSettingsAssumption
      <4> QED
        BY <2>1, <2>2, <3>2, <4>1 DEF Resolved
    <3>3. CASE botSettingsPc[a] = "Write"
      <4>1. state'.key = state.key /\ state'.model = state.model /\ state.validated /\ ~mixed
        <5>1. req[a].patch.key = None /\ req[a].patch.model = None /\ None \notin Keys
          BY <2>1, <3>3 DEF Resolved, BotSettings!BotSettingsAssumption
        <5>2. state'.key = state.key /\ state'.model = state.model
          BY <2>2, <3>1, <5>1 DEF BotSettings!Crossed
        <5>3. state.validated /\ ~mixed
          BY <2>2, <2>4, <3>3
        <5> QED
          BY <5>2, <5>3
      <4> QED
        BY <2>2, <2>4, <4>1 DEF SettingsInv, StoredWasValidated
    <3> QED
      BY <2>1, <3>2, <3>3
  <2>5. StoredWasValidated'
    BY <2>4 DEF StoredWasValidated
  <2> QED
    BY <1>3, <1>5, <2>3, <2>5 DEF SettingsInv, BotSettings!Save
<1>6. ASSUME NEW a \in BotAdmins, BotSettings!Check(a) PROVE SettingsInv'
  <2>1. /\ botSettingsPc'[a] = "Check"
        /\ req'[a].patch = BotSettings!NoPatch
        /\ req'[a].model \in Models
    BY <1>6 DEF SettingsInv, SettingsTypes, BotSettings!Check
  <2>2. SettingsTypes'
    BY <1>6 DEF SettingsInv, SettingsTypes, Patches, BotSettings!Check
  <2>3. Resolved(a)'
    BY <2>1 DEF Resolved, BotSettings!BotSettingsAssumption
  <2>4. \A b \in BotAdmins \ {a} : Resolved(b)'
    BY <1>6 DEF SettingsInv, SettingsTypes, Resolved, BotSettings!Check
  <2> QED
    BY <1>6, <2>2, <2>3, <2>4 DEF SettingsInv, StoredWasValidated, BotSettings!Check
<1>7. ASSUME NEW a \in BotAdmins, BotSettings!Checked(a) PROVE SettingsInv'
  <2>1. Resolved(a) /\ botSettingsPc[a] = "Check" /\ req[a].key # None
    BY <1>7 DEF SettingsInv, SettingsTypes, BotSettings!Checked
  <2>2. SettingsTypes'
    BY <1>7
       DEF SettingsInv, SettingsTypes, Patches, BotSettings!Checked, BotSettings!Done, BotSettings!NoReq,
           BotSettings!Crossed
  <2>3. StoredWasValidated'
    BY <1>7, <2>1
       DEF SettingsInv, SettingsTypes, StoredWasValidated, Resolved, BotSettings!Checked,
           BotSettings!Crossed, BotSettings!BotSettingsAssumption
  <2> QED
    BY <1>3, <1>7, <2>2, <2>3 DEF SettingsInv, BotSettings!Checked
<1> QED
  BY <1>1, <1>2, <1>4, <1>5, <1>6, <1>7 DEF BotSettings!Next

LEMMA SettingsInit == ASSUME BotSettings!BotSettingsAssumption, BotSettings!Init PROVE SettingsInv
<1>1. PICK m \in Models : state = [enabled |-> TRUE, key |-> None, model |-> m, validated |-> FALSE,
                                  error |-> FALSE]
  BY DEF BotSettings!Init
<1>2. state.key = None /\ None \notin Keys
  BY <1>1 DEF BotSettings!BotSettingsAssumption
<1>3. SettingsTypes
  BY <1>1 DEF BotSettings!Init, SettingsTypes, Patches, BotSettings!NoReq, BotSettings!NoPatch
<1>4. \A a \in BotAdmins : Resolved(a)
  BY DEF BotSettings!Init, Resolved
<1> QED
  BY <1>2, <1>3, <1>4 DEF SettingsInv, StoredWasValidated

LEMMA SettingsStutter == ASSUME SettingsInv, UNCHANGED BotSettings!vars PROVE SettingsInv'
BY DEF BotSettings!vars, SettingsInv, SettingsTypes, Resolved, StoredWasValidated

LEMMA SettingsSafe == ASSUME SettingsInv PROVE BotSettings!AvailableWasValidated
BY DEF SettingsInv, SettingsTypes, StoredWasValidated, BotSettings!AvailableWasValidated,
       BotSettings!IsAvailable

-----------------------------------------------------------------------------
(* Tenants: in a behaviour one of the components moves. *)

BotAsserts ==
    /\ ResourceBot!TypeOK /\ ResourceBot!OneOwner /\ ResourceBot!ChargeWasAuthorized
    /\ BotSettings!AvailableWasValidated

LEMMA BotRuns ==
    ASSUME BotInv, SystemNext
    PROVE  BotInv' /\ ResourceBot!ReservationIsCovered /\ ResourceBot!OwnerEndsReservation
<1>1. BotKnown
  BY ResourceBotConstants DEF BotKnown
<1>2. CASE focus = "ResourceBot"
  <2>1. ResourceBot!Next
    BY <1>2 DEF SystemNext
  <2> QED
    BY <1>1, <2>1, BotMoves, Covered, Ended
<1>3. CASE focus # "ResourceBot"
  <2>1. UNCHANGED resourceBotVars
    BY <1>3 DEF SystemNext
  <2>2. UNCHANGED ResourceBot!vars
    BY <2>1 DEF resourceBotVars, ResourceBot!vars
  <2> QED
    BY <1>1, <2>2, BotStutters, NothingEnds
<1> QED
  BY <1>2, <1>3

LEMMA SettingsRun == ASSUME SettingsInv, SystemNext PROVE SettingsInv'
<1>1. CASE focus = "BotSettings"
  <2>1. BotSettings!Next
    BY <1>1 DEF SystemNext
  <2> QED
    BY <2>1, BotSettingsConstants, SettingsMove
<1>2. CASE focus # "BotSettings"
  <2>1. UNCHANGED botSettingsVars
    BY <1>2 DEF SystemNext
  <2>2. UNCHANGED BotSettings!vars
    BY <2>1 DEF botSettingsVars, BotSettings!vars
  <2> QED
    BY <2>2, SettingsStutter
<1> QED
  BY <1>1, <1>2

\* One execution owns a request and ends its reservation, what is reserved is covered by the
\* balance, a charge is the one that was reserved, and the bot is available only with settings
\* that were validated (ResourceBotBillingService, PlatformResourceBotService).
THEOREM BotIsSafe == SystemSpec => BotSafety
<1>1. SystemInit => BotInv /\ SettingsInv
  BY BotInit, SettingsInit, ResourceBotConstants, BotSettingsConstants DEF SystemInit
<1>2. ASSUME BotInv, SettingsInv, [SystemNext]_systemVars
      PROVE  (BotInv /\ SettingsInv)'
  <2>1. CASE SystemNext
    BY <1>2, <2>1, BotRuns, SettingsRun
  <2>2. CASE UNCHANGED systemVars
    <3>1. UNCHANGED ResourceBot!vars /\ UNCHANGED BotSettings!vars
      BY <2>2 DEF systemVars, resourceBotVars, ResourceBot!vars, botSettingsVars, BotSettings!vars
    <3> QED
      BY <1>2, <3>1, BotStutters, SettingsStutter, ResourceBotConstants DEF BotKnown
  <2> QED
    BY <1>2, <2>1, <2>2
<1>3. BotInv /\ SettingsInv => BotAsserts
  BY BotTyped, SettingsSafe, ResourceBotConstants DEF BotKnown, BotInv, BotAsserts
<1>4. BotInv /\ SettingsInv /\ [SystemNext]_systemVars /\ BotAsserts' =>
        [/\ ResourceBot!TypeOK' /\ ResourceBot!OneOwner' /\ ResourceBot!ChargeWasAuthorized'
         /\ ResourceBot!ReservationIsCovered /\ ResourceBot!OwnerEndsReservation
         /\ BotSettings!AvailableWasValidated']_systemVars
  BY BotRuns DEF BotAsserts
<1> QED
  BY <1>1, <1>2, <1>3, <1>4, PTL DEF SystemSpec, BotSafety
=============================================================================
