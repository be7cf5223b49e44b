----------------------------- MODULE TenantOidc -----------------------------
(***************************************************************************)
(* The identity provider of a tenant: a project in ZITADEL, one role grant *)
(* per active member there, a row of each grant here, and a provider row   *)
(* that may only be enabled while the grants are those of the members.     *)
(* Membership changes, the administrator's calls and the automatic rollout *)
(* of the API run next to each other; ZITADEL is called inside             *)
(* transactions that hold the lock of the Tenant row.                      *)
(***************************************************************************)
EXTENDS Naturals, FiniteSets

CONSTANTS
    Users,
    Owners,         \* users with the Owner role; the last active one cannot be removed
    Project,        \* whether the project exists at the start
    Calls,          \* calls an administrator makes: "reconcile", "disable", "provision", "delete"
    Cohort,         \* whether the activation of another tenant may fail
    MaxChanges,     \* bound: membership changes
    MaxCalls,       \* bound: calls of the administrator
    MaxFailures,    \* bound: failed requests to ZITADEL and crashes
    Rejected,       \* whether the removal of the last owner is asked for
    None

Procs == {"auto", "admin"}
\* Values of grantsReconciledAt; 0 is null.  A new one differs from those in use.
Stamps == 0..3
OptOut == {"Disabling", "Disabled", "Deleted"}

TenantOidcAssumption ==
    /\ Owners \subseteq Users /\ Owners # {}
    /\ Project \in BOOLEAN /\ Cohort \in BOOLEAN /\ Rejected \in BOOLEAN
    /\ Calls \subseteq {"reconcile", "disable", "provision", "delete"}
    /\ MaxChanges \in Nat /\ MaxCalls \in Nat /\ MaxFailures \in Nat

VARIABLES
    member,     \* status of each membership: Active, Suspended or None
    prov,       \* the provider row: status, enabled, the certified snapshot and the project;
                \* and, which the code does not keep, overlapped: whether another reconciliation
                \* was claimed while the one that certified the snapshot ran
    grant,      \* row of each grant: None, Pending (no id yet) or Active
    remote,     \* users that hold a grant in ZITADEL
    role,       \* whether the project has the role of members, without which ZITADEL grants none
    lock,       \* holder of the Tenant row lock, or None
    proc,       \* what each process is doing
    changes, calls, failures

vars == <<member, prov, grant, remote, role, lock, proc, changes, calls, failures>>
bounds == <<changes, calls, failures>>

IdleProc == [pc |-> "Idle", next |-> "stop", todo |-> {}, drop |-> {}, rows |-> [u \in Users |-> None],
             at |-> 0, reclaimed |-> FALSE]
ActiveMembers == {u \in Users : member[u] = "Active"}
Invalid == [prov EXCEPT !.status = "NeedsReconciliation", !.enabled = FALSE, !.at = 0, !.overlapped = FALSE]
Invalidate == prov' = IF prov.status \in OptOut THEN prov ELSE Invalid

Init ==
    /\ member = [u \in Users |-> IF u \in Owners THEN "Active" ELSE None]
    /\ prov = [status |-> "Pending", enabled |-> FALSE, at |-> 0, project |-> Project,
                overlapped |-> FALSE]
    /\ grant = [u \in Users |-> None] /\ remote = {} /\ role = Project /\ lock = None
    /\ proc = [p \in Procs |-> IdleProc]
    /\ changes = 0 /\ calls = 0 /\ failures = 0

FreshStamp == CHOOSE s \in Stamps : s \notin {0, prov.at} \cup {proc[p].at : p \in Procs}
Goto(p, pc) == proc' = [proc EXCEPT ![p].pc = pc]
Change == changes < MaxChanges /\ changes' = changes + 1 /\ UNCHANGED <<calls, failures>>
Failure == failures < MaxFailures /\ failures' = failures + 1 /\ UNCHANGED <<changes, calls>>

-----------------------------------------------------------------------------
(* TenantsService *)

\* createMembership and acceptInvitation: no lock, but the provider in the transaction.
AddMember(u) ==
    /\ Change /\ member[u] = None
    /\ member' = [member EXCEPT ![u] = "Active"]
    /\ Invalidate
    /\ UNCHANGED <<grant, remote, role, lock, proc>>

\* assertLastOwnerIsPreserved
LastOwner(u) == u \in Owners /\ Owners \cap ActiveMembers = {u}

\* Mutant: the row of the revoked grant stays.
RowKept(u) == grant
\* revokeGrantBeforeMembershipRemoval deletes the row with the grant.
RevokedRow(u) == IF prov.project THEN [grant EXCEPT ![u] = None] ELSE grant

\* updateMembership to Suspended and deleteMembership: under the lock the grant is
\* revoked upstream, then the last owner is looked for; the rows change if both succeed.
RemoveMember(u) ==
    /\ lock = None /\ member[u] = "Active"
    /\ prov.project /\ prov.enabled => grant[u] # None
    /\ Rejected \/ ~LastOwner(u)
    /\ Change
    /\ remote' = IF grant[u] # None /\ prov.project THEN remote \ {u} ELSE remote
    /\ IF LastOwner(u)
       THEN UNCHANGED <<member, grant, prov>>
       ELSE /\ member' \in {[member EXCEPT ![u] = s] : s \in {"Suspended", None}}
            /\ grant' = RevokedRow(u)
            /\ Invalidate
    /\ UNCHANGED <<role, lock, proc>>

\* updateMembership back to Active
Resume(u) ==
    /\ lock = None /\ member[u] = "Suspended" /\ Change
    /\ member' = [member EXCEPT ![u] = "Active"]
    /\ Invalidate
    /\ UNCHANGED <<grant, remote, role, lock, proc>>

-----------------------------------------------------------------------------
(* reconcileGrants *)

\* Mutant: an opted-out provider is claimed too.
ClaimAnything == TRUE
Claimable == prov.status \notin OptOut

\* The fail-closed state is committed first, whatever another reconciliation is doing.
Claim(p) ==
    /\ proc[p].pc = "Claim"
    /\ IF Claimable
       THEN /\ prov' = [Invalid EXCEPT !.status = "Reconciling"]
            /\ proc' = [q \in Procs |-> IF q = p THEN [proc[q] EXCEPT !.pc = "Lock"] ELSE
                           [proc[q] EXCEPT !.reclaimed = proc[q].pc = "Grants" \/ @]]
       ELSE /\ UNCHANGED prov
            /\ proc' = [proc EXCEPT ![p] = IdleProc]
    /\ UNCHANGED <<member, grant, remote, role, lock, bounds>>

LockFree(p) == lock = None

\* SELECT ... FOR UPDATE, then members and rows are read.
Lock(p) ==
    /\ proc[p].pc = "Lock" /\ LockFree(p)
    /\ IF prov.project /\ prov.status \notin OptOut
       THEN /\ lock' = p
            /\ proc' = [proc EXCEPT ![p] = [@ EXCEPT !.pc = "Grants", !.todo = ActiveMembers,
                           !.drop = {u \in Users : grant[u] # None} \ ActiveMembers, !.rows = grant]]
            /\ UNCHANGED prov
       ELSE /\ prov' = IF prov.status = "Reconciling"
                       THEN [prov EXCEPT !.status = "ReconciliationFailed"] ELSE prov
            /\ proc' = [proc EXCEPT ![p] = IdleProc]
            /\ UNCHANGED lock
    /\ UNCHANGED <<member, grant, remote, role, bounds>>

\* Revocation first: grants of users who are no longer members.
RevokeStale(p, u) ==
    /\ proc[p].pc = "Grants" /\ u \in proc[p].drop
    /\ remote' = remote \ {u}
    /\ proc' = [proc EXCEPT ![p].drop = @ \ {u}, ![p].rows[u] = None]
    /\ UNCHANGED <<member, prov, grant, role, lock, bounds>>

\* The transaction rolls back; the failed state is written after it.
Abort(p) ==
    /\ lock' = IF lock = p THEN None ELSE lock
    /\ prov' = IF prov.status = "Reconciling"
               THEN [prov EXCEPT !.status = "ReconciliationFailed"] ELSE prov
    /\ proc' = [proc EXCEPT ![p] = IdleProc]

\* Mutant: no intent is written before the grant is created.
NoIntent(u) == UNCHANGED grant
\* The intent of a new grant is committed outside the transaction.
Intent(u) == grant' = [grant EXCEPT ![u] = IF @ = None THEN "Pending" ELSE @]

\* A member: a grant with an id is verified, one without is looked for or created.  ZITADEL
\* refuses both in a project that is gone, and a new one in a project without the role.
GrantMember(p, u) ==
    /\ proc[p].pc = "Grants" /\ proc[p].drop = {} /\ u \in proc[p].todo
    /\ LET active == proc[p].rows[u] = "Active"
           granted == prov.project /\ (u \in remote \/ (role /\ ~active)) IN
       /\ IF prov.project /\ ~active THEN Intent(u) ELSE UNCHANGED grant
       /\ IF granted
          THEN /\ remote' = remote \cup {u}
               /\ proc' = [proc EXCEPT ![p].todo = @ \ {u}, ![p].rows[u] = "Active"]
               /\ UNCHANGED <<prov, lock>>
          ELSE Abort(p) /\ UNCHANGED remote
    /\ UNCHANGED <<member, role, bounds>>

\* Mutant: the result is written whatever happened since.
StillAnything == TRUE
StillReconciling == ~prov.enabled /\ prov.status = "Reconciling" /\ prov.at = 0

\* The certified snapshot is committed only if nothing invalidated it meanwhile.
Certify(p) ==
    /\ proc[p].pc = "Grants" /\ proc[p].drop = {} /\ proc[p].todo = {}
    /\ IF StillReconciling
       THEN /\ grant' = proc[p].rows
            /\ prov' = [prov EXCEPT !.status = "GrantsReconciled", !.enabled = FALSE, !.at = FreshStamp,
                                    !.overlapped = proc[p].reclaimed]
            /\ lock' = None
            /\ proc' = [proc EXCEPT ![p] = [IdleProc EXCEPT
                   !.pc = IF proc[p].next = "activate" THEN "Read" ELSE
                          IF proc[p].next = "prepare" THEN "Claim" ELSE "Idle",
                   !.next = IF proc[p].next = "prepare" THEN "activate" ELSE "stop"]]
       ELSE Abort(p) /\ UNCHANGED grant
    /\ UNCHANGED <<member, remote, role, bounds>>

\* A request to ZITADEL fails, with or without effect, or the process dies; then the
\* row keeps its status.  The intent is committed before the request, also when ZITADEL
\* has no role to grant.
Fail(p) ==
    /\ proc[p].pc = "Grants" /\ Failure
    /\ \/ Abort(p) /\ UNCHANGED <<grant, remote>>
       \/ /\ lock' = None /\ UNCHANGED prov
          /\ proc' = [proc EXCEPT ![p] = IdleProc]
          /\ \/ UNCHANGED <<grant, remote>>
             \/ \E u \in proc[p].todo :
                   /\ prov.project /\ proc[p].drop = {} /\ proc[p].rows[u] # "Active"
                   /\ Intent(u) /\ remote' \in {remote, IF role THEN remote \cup {u} ELSE remote}
             \/ \E u \in proc[p].drop : remote' = remote \ {u} /\ UNCHANGED grant
    /\ UNCHANGED <<member, role>>

-----------------------------------------------------------------------------
(* activate, provision and disable *)

Snapshot(p) == ~prov.enabled /\ prov.status = "GrantsReconciled" /\ prov.at = proc[p].at

\* activate reads which snapshot is certified, its own or that of a later reconciliation.
Read(p) ==
    /\ proc[p].pc = "Read"
    /\ proc' = [proc EXCEPT ![p] = IF prov.status = "GrantsReconciled" /\ prov.at # 0 /\ prov.project
                                  THEN [@ EXCEPT !.pc = "Activate", !.at = prov.at] ELSE IdleProc]
    /\ UNCHANGED <<member, prov, grant, remote, role, lock, bounds>>

\* The compare-and-swap with that snapshot.
Activate(p) ==
    /\ proc[p].pc = "Activate"
    /\ prov' = IF Snapshot(p) THEN [prov EXCEPT !.enabled = TRUE, !.status = "Active"] ELSE prov
    /\ proc' = [proc EXCEPT ![p] =
           IF Cohort /\ Snapshot(p) THEN [IdleProc EXCEPT !.pc = "Cohort"] ELSE IdleProc]
    /\ UNCHANGED <<member, grant, remote, role, lock, bounds>>

\* reconcile of the rollout: the rows it passes over, its claim, and a project if there
\* is none.  Its lease only keeps other replicas away.
AutoRollout ==
    /\ proc["auto"].pc = "Idle"
    /\ ~(prov.enabled /\ prov.status = "Active") /\ prov.status \notin OptOut
    /\ proc' = [proc EXCEPT !["auto"] = [IdleProc EXCEPT
                   !.pc = IF prov.project THEN "Claim" ELSE "Provision", !.next = "prepare"]]
    /\ UNCHANGED <<member, prov, grant, remote, role, lock, bounds>>

\* The rest of the cohort was activated, or one failed and this one is disabled again.
CohortDone ==
    /\ proc["auto"].pc = "Cohort"
    /\ \/ proc' = [proc EXCEPT !["auto"] = IdleProc]
       \/ proc' = [proc EXCEPT !["auto"] = [IdleProc EXCEPT !.pc = "Disable"]]
    /\ UNCHANGED <<member, prov, grant, remote, role, lock, bounds>>

\* provision: an enabled provider and, for the rollout, one that was opted out are refused;
\* an administrator takes the latter back.  A row that has a project keeps it.
Provision(p) ==
    /\ proc[p].pc = "Provision"
    /\ IF prov.enabled \/ (p = "auto" /\ prov.status \in OptOut)
       THEN proc' = [proc EXCEPT ![p] = IdleProc] /\ UNCHANGED prov
       ELSE /\ prov' = IF prov.status \in OptOut THEN [prov EXCEPT !.status = "Pending"] ELSE prov
            /\ Goto(p, IF prov.project THEN "EnsureRole" ELSE "CreateProject")
    /\ UNCHANGED <<member, grant, remote, role, lock, bounds>>

\* The project is found or created, and its id written at once, whatever the row is by then.
CreateProject(p) ==
    /\ proc[p].pc = "CreateProject"
    /\ prov' = [prov EXCEPT !.project = TRUE, !.status = "Provisioning"]
    /\ Goto(p, "EnsureRole")
    /\ UNCHANGED <<member, grant, remote, role, lock, bounds>>

\* readProject and ensureMemberRole
EnsureRole(p) ==
    /\ proc[p].pc = "EnsureRole"
    /\ role' = TRUE
    /\ Goto(p, "Provisioned")
    /\ UNCHANGED <<member, prov, grant, remote, lock, bounds>>

\* The end of provision, written whatever the row is by then.
Provisioned(p) ==
    /\ proc[p].pc = "Provisioned"
    /\ prov' = [prov EXCEPT !.status = "PendingGrants", !.enabled = FALSE]
    /\ proc' = [proc EXCEPT ![p] = IF @.next = "stop" THEN IdleProc ELSE [@ EXCEPT !.pc = "Claim"]]
    /\ UNCHANGED <<member, grant, remote, role, lock, bounds>>

\* A request of provision fails and its error is written, whatever the row is by then, or
\* the process dies.
ProvisionFails(p) ==
    /\ proc[p].pc \in {"CreateProject", "EnsureRole", "Provisioned"} /\ Failure
    /\ prov' \in {prov, [prov EXCEPT !.status = "ProvisioningFailed", !.enabled = FALSE]}
    /\ proc' = [proc EXCEPT ![p] = IdleProc]
    /\ UNCHANGED <<member, grant, remote, role, lock>>

\* disable: the state first, the grants under the lock.
Disable(p) ==
    /\ proc[p].pc = "Disable"
    /\ prov' = [prov EXCEPT !.enabled = FALSE, !.status = "Disabling", !.at = 0]
    /\ Goto(p, "Revoke")
    /\ UNCHANGED <<member, grant, remote, role, lock, bounds>>

Revoke(p) ==
    /\ proc[p].pc = "Revoke" /\ LockFree(p)
    /\ remote' = remote \ {u \in Users : grant[u] # None}
    /\ grant' = [u \in Users |-> None]
    /\ prov' = [prov EXCEPT !.enabled = FALSE,
                            !.status = IF p = "admin" THEN "Disabled" ELSE "ActivationFailed"]
    /\ proc' = [proc EXCEPT ![p] = IF @.next # "stop" THEN [@ EXCEPT !.pc = "Delete"] ELSE IdleProc]
    /\ UNCHANGED <<member, role, lock, bounds>>

\* The end of delete: the project it saw at the start goes with its grants, and a
\* tombstone keeps the rollout away.
Delete ==
    /\ proc["admin"].pc = "Delete"
    /\ prov' = [prov EXCEPT !.project = FALSE, !.enabled = FALSE, !.status = "Deleted", !.at = 0]
    /\ IF proc["admin"].next = "delete" THEN remote' = {} /\ role' = FALSE ELSE UNCHANGED <<remote, role>>
    /\ proc' = [proc EXCEPT !["admin"] = IdleProc]
    /\ UNCHANGED <<member, grant, lock, bounds>>

\* The calls of the administrator
Call(c) ==
    /\ c \in Calls /\ calls < MaxCalls /\ proc["admin"].pc = "Idle"
    /\ calls' = calls + 1 /\ UNCHANGED <<changes, failures>>
    /\ \/ c = "reconcile" /\ Goto("admin", "Claim") /\ UNCHANGED prov
       \/ c = "disable" /\ Goto("admin", "Disable") /\ UNCHANGED prov
       \/ /\ c = "delete" /\ UNCHANGED prov
          /\ proc' = [proc EXCEPT !["admin"] = [@ EXCEPT !.pc = "Disable",
                            !.next = IF prov.project THEN "delete" ELSE "tombstone"]]
       \/ c = "provision" /\ Goto("admin", "Provision") /\ UNCHANGED prov
    /\ UNCHANGED <<member, grant, remote, role, lock>>

-----------------------------------------------------------------------------

Step(p) ==
    \/ Claim(p) \/ Lock(p) \/ Certify(p) \/ Read(p) \/ Activate(p) \/ Disable(p) \/ Revoke(p)
    \/ Provision(p) \/ CreateProject(p) \/ EnsureRole(p) \/ Provisioned(p)
    \/ \E u \in Users : RevokeStale(p, u) \/ GrantMember(p, u)

Next ==
    \/ \E u \in Users : AddMember(u) \/ RemoveMember(u) \/ Resume(u)
    \/ \E p \in Procs : Step(p) \/ Fail(p) \/ ProvisionFails(p)
    \/ AutoRollout \/ CohortDone \/ Delete
    \/ \E c \in Calls : Call(c)

Spec == Init /\ [][Next]_vars

\* Requests end, and the rollout runs every minute.
FairSpec ==
    /\ Spec
    /\ \A p \in Procs : WF_vars(Step(p))
    /\ WF_vars(AutoRollout) /\ WF_vars(CohortDone) /\ WF_vars(Delete)

-----------------------------------------------------------------------------
(* Properties *)

\* The types of the variables; only an Active provider is enabled, and the lock is held by
\* the process that works on the grants.
TypeOK ==
    /\ member \in [Users -> {"Active", "Suspended", None}]
    /\ prov.status \in {"Pending", "Provisioning", "ProvisioningFailed", "PendingGrants", "Reconciling", "ReconciliationFailed",
                        "GrantsReconciled", "Active", "NeedsReconciliation",
                        "ActivationFailed"} \cup OptOut
    /\ prov.enabled => prov.status = "Active" /\ prov.project /\ role
    /\ prov.at \in Stamps
    /\ grant \in [Users -> {"Pending", "Active", None}]
    /\ remote \subseteq Users /\ (remote # {} => role)
    /\ lock \in Procs \cup {None}
    /\ \A p \in Procs : lock = p <=> proc[p].pc = "Grants"

\* ZITADEL authorizes active members only: a user who was suspended or removed has no
\* grant left, whatever was reconciled or crashed meanwhile (reconcileGrants, "stale
\* grants must not survive removal/suspension of membership").
NoStaleGrant == remote \subseteq ActiveMembers

\* A provider is enabled only while every active member's grant is certified
\* (activate, "a late activation must never resurrect the stale grant snapshot"), unless a
\* second reconciliation was claimed while the one that certified the snapshot ran: its
\* claim writes over the mark of a member who came in between.
EnabledIsCertified ==
    prov.enabled /\ ~prov.overlapped => \A u \in ActiveMembers : grant[u] = "Active" /\ u \in remote

\* What an administrator disabled is taken up again only by provisioning it
\* (TenantOidcAutoRolloutService, "Never undo an administrator's decision"), or by a
\* provisioning of the rollout that was under way, whose writes do not look at the status.
OptOutIsDurable ==
    prov.status \in {"Disabled", "Deleted"} =>
       \/ prov'.status \in OptOut
       \/ \E p \in Procs : /\ proc[p].pc \in {"CreateProject", "EnsureRole", "Provisioned"}
                                \cup (IF p = "admin" THEN {"Provision"} ELSE {})
                          /\ proc'[p] # proc[p]

\* A project whose provisioning was cut off before its role: the rollout provisions no
\* provider that has a project.
CutOff == prov.project /\ ~role

\* The rollout enables the provider in the end, after crashes, failed requests and
\* membership changes, unless a provisioning was cut off between the project and its role.
EventuallyEnabled == <>[]prov.enabled \/ <>[]CutOff
=============================================================================
