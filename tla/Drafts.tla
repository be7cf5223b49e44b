------------------------------- MODULE Drafts -------------------------------
(***************************************************************************)
(* The apps of a tenant: drafts that share one quota, the snapshots that    *)
(* deployments take of them, and discarding a draft.  Creating, updating    *)
(* and importing check the quota and write under the tenant's advisory      *)
(* lock; marking for deletion, discarding and changing the quota do not.    *)
(***************************************************************************)
EXTENDS Naturals, FiniteSetsExt

CONSTANTS
    Groups, Apps,   \* an app id belongs to the group GroupOf(a)
    GroupOf(_),
    Callers,        \* requests in progress
    MaxSize,        \* bound: sizes (cpu times replicas) and the quota are at most MaxSize
    Cases,          \* windows that are open: "restore", "stale"
    MaxWrites,      \* bound: committed changes of a draft
    None

DraftsAssumption ==
    /\ \A a \in Apps : GroupOf(a) \in Groups
    /\ MaxSize \in Nat \ {0} /\ MaxWrites \in Nat /\ Cases \subseteq {"restore", "stale"}

VARIABLES
    quota,
    app,        \* rows: the size, 0 without a row, and pendingDeletion
    dirty,      \* hasPendingChanges of each group
    rev,        \* runtimeDraftRevision
    current,    \* snapshot of the current deployment
    active,     \* the deployment in progress: its snapshot and sourceDraftRevision, and what its
                \* completing transaction has read
    missed,     \* ghost: the draft was edited while the last deployment was being completed
    call,       \* what each request has read
    lock,       \* holder of the tenant's quota lock
    writes

vars == <<quota, app, dirty, rev, current, active, missed, call, lock, writes>>

NoApp == [size |-> 0, pending |-> FALSE]
NoCall == [pc |-> "Idle", targets |-> {}, new |-> FALSE, size |-> 0, quota |-> 0, group |-> None, snapshot |-> None]

Init ==
    /\ quota \in 1..MaxSize
    /\ app = [a \in Apps |-> NoApp]
    /\ dirty = [g \in Groups |-> FALSE] /\ rev = [g \in Groups |-> 0]
    /\ current = [g \in Groups |-> None] /\ active = [g \in Groups |-> None]
    /\ missed = [g \in Groups |-> FALSE]
    /\ call = [c \in Callers |-> NoCall] /\ lock = None
    /\ writes = 0

AppsOf(g) == {a \in Apps : GroupOf(a) = g}
Sum(size(_), S) == FoldSet(LAMBDA a, n : n + size(a), 0, S)

\* What the quota check counts: an app that is marked for deletion is not.
SizeOf(a) == IF app[a].pending THEN 0 ELSE app[a].size
Used == Sum(SizeOf, Apps)

Draft(g) == [a \in AppsOf(g) |-> SizeOf(a)]

\* Every write of a draft sets hasPendingChanges and a new revision.
Touch(g) ==
    /\ writes < MaxWrites /\ writes' = writes + 1
    /\ dirty' = [dirty EXCEPT ![g] = TRUE]
    /\ rev' = [rev EXCEPT ![g] = @ + 1]

-----------------------------------------------------------------------------
(* Writes that are checked against the quota *)

\* Mutant: the check does not take the lock.
NoLock == TRUE
\* lockTenantQuota
LockFree == lock = None

\* What the tenant would use; an update replaces what the app uses now.
Requested(targets, n) == Sum(LAMBDA a : IF a \in targets THEN n ELSE SizeOf(a), Apps)
IsUpdate(targets) == \A a \in targets : app[a].size > 0

\* A lowered quota blocks increases, never reductions.
Fits(targets, n) ==
    Requested(targets, n) <= quota \/ (IsUpdate(targets) /\ Requested(targets, n) <= Used)

Check(c, targets, n) ==
    /\ call[c].pc = "Idle" /\ LockFree /\ Fits(targets, n)
    /\ lock' = c
    /\ call' = [call EXCEPT ![c] = [NoCall EXCEPT !.pc = "Write", !.targets = targets,
                                !.new = ~IsUpdate(targets), !.size = n, !.quota = quota]]
    /\ UNCHANGED <<quota, app, dirty, rev, current, active, missed, writes>>

CreateApp(c, a, n) == app[a].size = 0 /\ Check(c, {a}, n)
UpdateApp(c, a, n) == app[a].size \notin {0, n} /\ ~app[a].pending /\ Check(c, {a}, n)
\* applyManifest creates a group with all its apps.
Import(c, g, n) == (\A a \in AppsOf(g) : app[a] = NoApp) /\ Check(c, AppsOf(g), n)

\* An update of a row that is gone by now fails.
Write(c) == LET targets == call[c].targets IN
    /\ call[c].pc = "Write"
    /\ IF call[c].new \/ IsUpdate(targets)
       THEN /\ app' = [a \in Apps |-> IF a \in targets THEN [app[a] EXCEPT !.size = call[c].size] ELSE app[a]]
            /\ \E g \in Groups : targets \subseteq AppsOf(g) /\ Touch(g)
       ELSE UNCHANGED <<app, dirty, rev, writes>>
    /\ lock' = IF lock = c THEN None ELSE lock
    /\ call' = [call EXCEPT ![c] = NoCall]
    /\ UNCHANGED <<quota, current, active, missed>>

-----------------------------------------------------------------------------
(* Writes that are not *)

\* markSingleAppPendingDeletion
MarkForDeletion(a) ==
    /\ app[a].size > 0 /\ ~app[a].pending
    /\ app' = [app EXCEPT ![a].pending = TRUE]
    /\ Touch(GroupOf(a))
    /\ UNCHANGED <<quota, current, active, missed, call, lock>>

UpdateQuota(n) ==
    /\ n # quota /\ writes < MaxWrites /\ writes' = writes + 1
    /\ quota' = n
    /\ UNCHANGED <<app, dirty, rev, current, active, missed, call, lock>>

\* discardDraftChanges reads the current version and its snapshot before its transaction.
ReadSnapshot(c, g) ==
    /\ call[c].pc = "Idle" /\ dirty[g] /\ current[g] # None
    /\ call' = [call EXCEPT ![c] = [NoCall EXCEPT !.pc = "Restore", !.group = g, !.snapshot = current[g]]]
    /\ UNCHANGED <<quota, app, dirty, rev, current, active, missed, lock, writes>>

Restored(c, a) ==
    IF GroupOf(a) # call[c].group THEN app[a] ELSE [NoApp EXCEPT !.size = call[c].snapshot[a]]

\* The transaction; it fails while a deployment is active or when a row of the snapshot is gone.
Restore(c) == LET g == call[c].group IN
    /\ call[c].pc = "Restore"
    /\ call' = [call EXCEPT ![c] = NoCall]
    /\ "stale" \notin Cases => current[g] = call[c].snapshot
    /\ "restore" \notin Cases => Sum(LAMBDA a : Restored(c, a).size, AppsOf(g)) <= Sum(SizeOf, AppsOf(g))
    /\ IF active[g] = None /\ \A a \in AppsOf(g) : call[c].snapshot[a] > 0 => app[a].size > 0
       THEN /\ app' = [a \in Apps |-> Restored(c, a)]
            /\ writes < MaxWrites /\ writes' = writes + 1
            /\ dirty' = [dirty EXCEPT ![g] = FALSE]
            /\ rev' = [rev EXCEPT ![g] = @ + 1]
            /\ missed' = [missed EXCEPT ![g] = FALSE]
       ELSE UNCHANGED <<app, dirty, rev, missed, writes>>
    /\ UNCHANGED <<quota, current, active, lock>>

-----------------------------------------------------------------------------
(* Deployments *)

Deploy(g) ==
    /\ active[g] = None /\ dirty[g]
    /\ active' = [active EXCEPT ![g] = [snapshot |-> Draft(g), rev |-> rev[g], read |-> None]]
    /\ UNCHANGED <<quota, app, dirty, rev, current, missed, call, lock, writes>>

\* validateQuota of the worker looks at the snapshot alone.
WithinQuota(g) == Sum(LAMBDA a : active[g].snapshot[a], AppsOf(g)) <= quota

\* The completing transaction reads the apps to delete and the revision without locking them ...
ReadDraft(g) ==
    /\ active[g] # None /\ WithinQuota(g) /\ active[g].read = None
    /\ active' = [active EXCEPT ![g].read = [doomed |-> {a \in AppsOf(g) : app[a].pending}, rev |-> rev[g]]]
    /\ UNCHANGED <<quota, app, dirty, rev, current, missed, call, lock, writes>>

\* Mutant: a deployment that succeeds leaves nothing pending.
NothingPending(g) == FALSE
\* The draft had been edited since the snapshot was taken when the revision was read.
EditedSince(g) == active[g].read.rev # active[g].rev

\* ... and writes what follows from them.
Succeed(g) ==
    /\ active[g] # None /\ active[g].read # None
    /\ current' = [current EXCEPT ![g] = active[g].snapshot]
    /\ active' = [active EXCEPT ![g] = None]
    /\ dirty' = [dirty EXCEPT ![g] = EditedSince(g)]
    /\ missed' = [missed EXCEPT ![g] = rev[g] # active[g].read.rev]
    /\ app' = [a \in Apps |-> IF a \in active[g].read.doomed THEN NoApp ELSE app[a]]
    /\ UNCHANGED <<quota, rev, call, lock, writes>>

Fail(g) ==
    /\ active[g] # None
    /\ active' = [active EXCEPT ![g] = None]
    /\ UNCHANGED <<quota, app, dirty, rev, current, missed, call, lock, writes>>

-----------------------------------------------------------------------------

Next ==
    \/ \E c \in Callers, a \in Apps, n \in 1..MaxSize : CreateApp(c, a, n) \/ UpdateApp(c, a, n)
    \/ \E c \in Callers, g \in Groups, n \in 1..MaxSize : Import(c, g, n)
    \/ \E c \in Callers, g \in Groups : ReadSnapshot(c, g)
    \/ \E c \in Callers : Write(c) \/ Restore(c)
    \/ \E a \in Apps : MarkForDeletion(a)
    \/ \E n \in 0..MaxSize : UpdateQuota(n)
    \/ \E g \in Groups : Deploy(g) \/ ReadDraft(g) \/ Succeed(g) \/ Fail(g)

Spec == Init /\ [][Next]_vars

-----------------------------------------------------------------------------
(* Properties *)

\* The types of the variables; only a row can be marked for deletion.
TypeOK ==
    /\ quota \in 0..MaxSize
    /\ app \in [Apps -> [size : 0..MaxSize, pending : BOOLEAN]]
    /\ \A a \in Apps : app[a].pending => app[a].size > 0
    /\ dirty \in [Groups -> BOOLEAN] /\ rev \in [Groups -> 0..MaxWrites]
    /\ lock \in Callers \cup {None} /\ missed \in [Groups -> BOOLEAN]

\* What makes the tenant's apps larger leaves them within the quota, or within the one it
\* has read, though other requests, a lowered quota and discards run between (lockTenantQuota,
\* assertStage11QuotaAllowsSingleAppChange, validateQuota of the manifest).
GrowthIsWithinQuota ==
    Used' > Used => \/ Used' <= quota
                    \/ \E c \in Callers : call[c].pc = "Write" /\ Used' <= call[c].quota

\* A group that shows no pending changes has exactly the apps of its current deployment, unless the last
\* edit fell between the reading of the revision and the writing of hasPendingChanges in the transaction that
\* completes a deployment, which loses it (runtimeDraftRevision, discardDraftChanges).
CleanMeansDeployed ==
    \A g \in Groups : ~dirty[g] /\ ~missed[g] /\ current[g] # None => Draft(g) = current[g]
=============================================================================
