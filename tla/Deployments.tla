---------------------------- MODULE Deployments -----------------------------
(***************************************************************************)
(* Deployments of one AppGroup: the draft users edit, the deployments and  *)
(* rollbacks they request (AppGroupsService), the execution of each one by *)
(* a worker (DeploymentOperationExecutor, DeploymentExecutionService), its *)
(* recovery after a crash (DeploymentRecoveryService) and the Swarm stack. *)
(*                                                                         *)
(* Every deployment has one Operation; the queue is FencedQueue, which     *)
(* Operations is proved to implement.  A database transaction is one step, *)
(* except where it decides on a value that another transaction may change  *)
(* under READ COMMITTED; a call to Docker is a step of its own.  A live    *)
(* worker is the only one that executes its deployment: with one attempt   *)
(* an Operation is claimed once, with more a lease is taken over only from *)
(* a process that died.                                                    *)
(***************************************************************************)
EXTENDS Naturals

CONSTANTS
    Apps,           \* ids of the SingleApps that may be created
    Workers,        \* worker processes; a process is its WORKER_ID
    MaxVersion,     \* bound: deployments of the group
    MaxRevision,    \* bound: changes of the draft
    MaxAborts,      \* bound: crashes and database errors, over all processes
    Attempts,       \* the values that maxAttempts of the Operations may have
    NoOwner,        \* NULL in leaseOwner
    NoJob,          \* a process that holds no Operation
    NoRequest,      \* no API request of this kind is in flight
    Mixed           \* the content of a stack that a failed apply left behind

Versions == 1 .. MaxVersion

Snaps == [apps : SUBSET Apps, content : Nat, source : Nat]

DeploymentsAssumption ==
    /\ MaxVersion \in Nat /\ MaxRevision \in Nat /\ MaxAborts \in Nat
    /\ Attempts \subseteq Nat \ {0}
    /\ NoOwner \notin Workers
    /\ NoJob \notin Versions \X Nat
    /\ NoRequest \notin Versions \cup Snaps
    /\ Mixed \notin Nat

VARIABLES
    \* --- AppGroup and its SingleApp rows
    rows,           \* per app: "None" before its INSERT, "Gone" after its DELETE
    content,        \* what the draft says; the revision that introduced it
    revision,       \* runtimeDraftRevision
    pending,        \* hasPendingChanges
    current,        \* currentDeploymentVersion, 0 for NULL
    groupStatus,
    \* --- AppGroupDeployment, per version
    status,         \* "Absent" before the INSERT
    phase,
    snap,           \* stackConfig and sourceDraftRevision
    target,         \* rollbackTargetVersion, 0 for NULL
    owner,          \* leaseOwner
    lease,          \* leaseExpiresAt: "None" (NULL), "Held" or "Expired"
    \* --- API requests between their reads and their transaction
    deployReq, discardReq,
    \* --- the Operation queue
    opStatus, opToken, job,
    maxAttempts,    \* of every deployment's Operation
    \* --- worker processes
    pc,             \* the next step of the executor
    read,           \* what the completing transaction has read
    \* --- Docker Swarm
    stack,          \* the services that run, and the content they run
    aborts

draftVars == <<rows, content, revision>>
groupVars == <<draftVars, pending, current, groupStatus>>
depVars == <<status, phase, snap, target, owner, lease>>
reqVars == <<deployReq, discardReq>>
queueVars == <<opStatus, opToken, job, maxAttempts>>
vars == <<groupVars, depVars, reqVars, queueVars, pc, read, stack, aborts>>

Statuses == {"Absent", "Pending", "Deploying", "RollingBack",
             "Succeeded", "Failed", "RolledBack", "RollbackFailed"}
Terminal == {"Succeeded", "Failed", "RolledBack", "RollbackFailed"}
Phases == {"Validating", "PreparingArtifacts", "GeneratingStack", "ApplyingStack",
           "WaitingForRollout", "RollingBack", "Completed"}
Steps == {"Idle", "Claimed", "Reconcile", "Validate", "Provision", "Generate",
          "BeginApply", "Apply", "ApplyFailed", "BeginRollout", "Rollout",
          "ReadDraft", "Complete", "BeginRollback", "RollbackApply",
          "RollbackRollout", "RollbackFailed", "RollbackDone", "Result", "Transient"}

NoSnap == [apps |-> {}, content |-> 0, source |-> 0]
NothingRead == [doomed |-> {}, revision |-> 0]

Queue == INSTANCE FencedQueue
           WITH Ops <- Versions, None <- NoJob,
                state <- opStatus, token <- opToken, job <- job

Init ==
    /\ rows = [a \in Apps |-> "None"]
    /\ content = 0 /\ revision = 0 /\ pending = FALSE
    /\ current = 0 /\ groupStatus = "Ready"
    /\ status = [v \in Versions |-> "Absent"]
    /\ phase = [v \in Versions |-> "Validating"]
    /\ snap = [v \in Versions |-> NoSnap]
    /\ target = [v \in Versions |-> 0]
    /\ owner = [v \in Versions |-> NoOwner]
    /\ lease = [v \in Versions |-> "None"]
    /\ deployReq = NoRequest /\ discardReq = NoRequest
    /\ Queue!Init
    /\ maxAttempts \in Attempts
    /\ pc = [w \in Workers |-> "Idle"]
    /\ read = [w \in Workers |-> NothingRead]
    /\ stack = [apps |-> {}, content |-> 0]
    /\ aborts = 0

-----------------------------------------------------------------------------
(* The draft.  None of these operations asks for an active deployment. *)

\* markAppGroupDraftChanged, at the end of every transaction that edits.
MarkAppGroupDraftChanged ==
    /\ revision < MaxRevision
    /\ revision' = revision + 1
    /\ content' = revision + 1
    /\ pending' = TRUE
    /\ UNCHANGED <<current, groupStatus, depVars, reqVars, queueVars, pc, read,
                   stack, aborts>>

CreateSingleApp(a) ==
    /\ rows[a] = "None"
    /\ rows' = [rows EXCEPT ![a] = "Active"]
    /\ MarkAppGroupDraftChanged

\* Any edit of an app or of something attached to one.
UpdateSingleApp ==
    /\ \E a \in Apps : rows[a] = "Active"
    /\ UNCHANGED rows
    /\ MarkAppGroupDraftChanged

MarkSingleAppPendingDeletion(a) ==
    /\ rows[a] = "Active"
    /\ rows' = [rows EXCEPT ![a] = "PendingDeletion"]
    /\ MarkAppGroupDraftChanged

-----------------------------------------------------------------------------
(* Requests of the API *)

ActiveApps == {a \in Apps : rows[a] = "Active"}

\* Mutant: a deployment that is being executed is not looked for.
ActiveUnlessDeploying ==
    \E v \in Versions : status[v] \in {"Pending", "RollingBack"}

\* findActiveDeployment, and the unique index on active deployments.
ActiveDeployment ==
    \E v \in Versions : status[v] \in {"Pending", "Deploying", "RollingBack"}

\* nextDeploymentVersion.
NextVersion(v) ==
    /\ status[v] = "Absent"
    /\ \A u \in Versions : u < v => status[u] # "Absent"

\* The INSERT of a deployment and, by the trigger, of its Operation.
CreateDeployment(v, s, t) ==
    /\ NextVersion(v)
    /\ status' = [status EXCEPT ![v] = "Pending"]
    /\ snap' = [snap EXCEPT ![v] = s]
    /\ target' = [target EXCEPT ![v] = t]
    /\ Queue!Enqueue(v)
    /\ UNCHANGED <<phase, owner, lease, maxAttempts>>

\* buildStackConfigSnapshot.
Snapshot == [apps |-> ActiveApps, content |-> content, source |-> revision]

\* deployAppGroup reads the draft and builds the snapshot before its transaction.
ReadDeployableDraft ==
    /\ deployReq = NoRequest
    /\ \E force \in BOOLEAN : force \/ pending
    /\ ActiveApps # {}
    /\ deployReq' = Snapshot
    /\ UNCHANGED <<groupVars, depVars, discardReq, queueVars, pc, read, stack, aborts>>

DeployAppGroup ==
    /\ deployReq # NoRequest
    /\ deployReq' = NoRequest
    /\ \/ /\ ActiveDeployment       \* 409
          /\ UNCHANGED <<depVars, queueVars>>
       \/ /\ ~ActiveDeployment
          /\ \E v \in Versions : CreateDeployment(v, deployReq, 0)
    /\ UNCHANGED <<groupVars, discardReq, pc, read, stack, aborts>>

\* rollbackDeployment to version t, all in one transaction.
RollbackDeployment(t) ==
    /\ status[t] = "Succeeded"
    /\ ~ActiveDeployment
    /\ \E v \in Versions :
           CreateDeployment(v, [snap[t] EXCEPT !.source = revision], t)
    /\ UNCHANGED <<groupVars, reqVars, pc, read, stack, aborts>>

\* Mutant: a group that was never deployed is not refused.
ReadRestorableSnapshotUnchecked ==
    /\ discardReq = NoRequest
    /\ pending
    /\ discardReq' = current
    /\ UNCHANGED <<groupVars, depVars, deployReq, queueVars, pc, read, stack, aborts>>

\* discardDraftChanges reads the group and the snapshot of its current
\* version before its transaction.
ReadRestorableSnapshot ==
    /\ discardReq = NoRequest
    /\ pending
    /\ current # 0 /\ status[current] = "Succeeded"
    /\ discardReq' = current
    /\ UNCHANGED <<groupVars, depVars, deployReq, queueVars, pc, read, stack, aborts>>

Exists(a) == rows[a] \in {"Active", "PendingDeletion"}

\* The transaction is rolled back when a deployment is active or when an app
\* of the snapshot has no row any more.
Restorable(s) == ~ActiveDeployment /\ \A a \in s.apps : Exists(a)

DiscardDraftChanges ==
    /\ discardReq # NoRequest
    /\ discardReq' = NoRequest
    /\ LET s == snap[discardReq] IN
       \/ /\ ~Restorable(s)
          /\ UNCHANGED <<draftVars, pending>>
       \/ /\ Restorable(s)
          /\ revision < MaxRevision
          /\ rows' = [a \in Apps |-> IF a \in s.apps THEN "Active"
                                     ELSE IF Exists(a) THEN "Gone" ELSE rows[a]]
          /\ content' = s.content
          /\ revision' = revision + 1
          /\ pending' \in BOOLEAN     \* a secret has a newer version
    /\ UNCHANGED <<current, groupStatus, depVars, deployReq, queueVars, pc, read,
                   stack, aborts>>

-----------------------------------------------------------------------------
(* The Operation of a deployment *)

\* The deployment a process executes.
Dep(w) == job[w][1]

Executed(v) == \E w \in Workers : job[w] # NoJob /\ Dep(w) = v

ClaimOperation(w, v) ==
    /\ pc[w] = "Idle"
    /\ opToken[v] < maxAttempts
    /\ ~Executed(v)
    /\ Queue!Claim(w, v)
    /\ pc' = [pc EXCEPT ![w] = "Claimed"]
    /\ UNCHANGED <<groupVars, depVars, reqVars, maxAttempts, read, stack, aborts>>

\* failExhaustedOperations: the lease of the last attempt expired.  Whoever
\* executes it is not told.
FailExhaustedOperation(v) ==
    /\ opStatus[v] = "Running"
    /\ opToken[v] = maxAttempts
    /\ Queue!GiveUp({v})
    /\ UNCHANGED <<groupVars, depVars, reqVars, maxAttempts, pc, read, stack, aborts>>

\* The executor of w ends and processNext closes the Operation with s, unless
\* the lease was lost.
CloseOperation(w, s) ==
    /\ \/ Queue!Close(w, Dep(w), s)
       \/ opStatus[Dep(w)] # "Running" /\ Queue!Drop(w)
    /\ pc' = [pc EXCEPT ![w] = "Idle"]
    /\ read' = [read EXCEPT ![w] = NothingRead]
    /\ UNCHANGED <<groupVars, depVars, reqVars, maxAttempts, stack, aborts>>

\* Mutant: failures are reported as results.
OutcomeIgnoresFailure(v) ==
    IF status[v] = "RolledBack" \/ target[v] # 0 THEN "RolledBack" ELSE "Succeeded"

\* terminalResult.
OutcomeOf(v) ==
    IF status[v] \in {"Failed", "RollbackFailed"} THEN "Failed"
    ELSE IF status[v] = "RolledBack" \/ target[v] # 0 THEN "RolledBack"
    ELSE "Succeeded"

TerminalResult(w) ==
    /\ pc[w] = "Result"
    /\ CloseOperation(w, OutcomeOf(Dep(w)))

\* DeploymentLeaseActive and DeploymentRecoveryDeferred are retryable.
RetryOperation(w) ==
    /\ pc[w] = "Transient"
    /\ CloseOperation(w, IF opToken[Dep(w)] < maxAttempts THEN "Pending" ELSE "Failed")

\* The process dies and starts anew, or a statement of the executor throws:
\* then handleExecutionError fails the Operation, and not the deployment.
Abort(w) ==
    /\ pc[w] # "Idle"
    /\ aborts < MaxAborts
    /\ aborts' = aborts + 1
    /\ pc' = [pc EXCEPT ![w] = "Idle"]
    /\ read' = [read EXCEPT ![w] = NothingRead]
    /\ Queue!Drop(w) \/ Queue!Close(w, Dep(w), "Failed")
    /\ UNCHANGED <<groupVars, depVars, reqVars, maxAttempts, stack>>

DeploymentLeaseExpires(v) ==
    /\ lease[v] = "Held"
    /\ lease' = [lease EXCEPT ![v] = "Expired"]
    /\ UNCHANGED <<groupVars, status, phase, snap, target, owner, reqVars, queueVars,
                   pc, read, stack, aborts>>

-----------------------------------------------------------------------------
(* The executor.  A step names the deployment it works on, v = Dep(w). *)

Goto(w, step) == pc' = [pc EXCEPT ![w] = step]

\* A step that writes the deployment row only, or nothing.
RowStep == UNCHANGED <<groupVars, reqVars, queueVars, read, stack, aborts>>

\* A row of which only status s, phase p and the lease change.
SetRow(v, s, p) ==
    /\ status' = [status EXCEPT ![v] = s]
    /\ phase' = [phase EXCEPT ![v] = p]
    /\ UNCHANGED <<snap, target>>

KeepLease == UNCHANGED <<owner, lease>>

RenewLease(v) ==
    /\ lease' = [lease EXCEPT ![v] = "Held"]
    /\ UNCHANGED owner

ClearLease(v) ==
    /\ owner' = [owner EXCEPT ![v] = NoOwner]
    /\ lease' = [lease EXCEPT ![v] = "None"]

\* The deployment ends as Failed in the phase it is in.
FailDeployment(w, v) ==
    /\ SetRow(v, "Failed", phase[v])
    /\ ClearLease(v)
    /\ Goto(w, "Result")

LeasedByOther(w, v) == owner[v] \notin {NoOwner, w} /\ lease[v] = "Held"

\* Mutant: the early return for deployments that ended is missing.
ClaimDeploymentAgain(w, v) ==
    /\ pc[w] = "Claimed"
    /\ Goto(w, "Reconcile")
    /\ SetRow(v, "Deploying", phase[v])
    /\ owner' = [owner EXCEPT ![v] = w]
    /\ lease' = [lease EXCEPT ![v] = "Held"]
    /\ RowStep

ClaimDeploymentById(w, v) ==
    /\ pc[w] = "Claimed"
    /\ \/ /\ status[v] \in Terminal
          /\ Goto(w, "Result")
          /\ UNCHANGED depVars
       \/ /\ status[v] \notin Terminal
          /\ LeasedByOther(w, v)
          /\ Goto(w, "Transient")
          /\ UNCHANGED depVars
       \/ /\ status[v] \notin Terminal
          /\ ~LeasedByOther(w, v)
          /\ Goto(w, "Reconcile")
          /\ SetRow(v, IF status[v] = "Pending" THEN "Deploying" ELSE status[v], phase[v])
          /\ owner' = [owner EXCEPT ![v] = w]
          /\ lease' = [lease EXCEPT ![v] = "Held"]
    /\ RowStep

\* deriveAppGroupDriftStatus compares names, images and replicas: a stack that
\* differs in its environment, files or secrets only is "InSync".
Observations(s) ==
    {"Unknown"} \cup
    (IF stack.apps # s.apps THEN {"Drifted"}
     ELSE IF stack.content = s.content THEN {"InSync"}
     ELSE {"InSync", "Drifted"})

\* reconcileClaimedDeployment in the phases that ask Docker: the step that
\* follows an observation.  A rollback compares with the snapshot of its target.
AfterObserving(v, seen) ==
    CASE status[v] = "RollingBack" ->
             IF seen = "InSync" THEN "RollbackRollout" ELSE "RollbackApply"
      [] phase[v] = "ApplyingStack" /\ seen = "InSync" -> "BeginRollout"
      [] phase[v] = "WaitingForRollout" /\ seen = "InSync" -> "Rollout"
      [] OTHER -> "Apply"

Observes(v) ==
    \/ status[v] = "RollingBack"
    \/ phase[v] \in {"ApplyingStack", "WaitingForRollout"}

Wanted(v) == IF status[v] = "RollingBack" THEN snap[target[v]] ELSE snap[v]

\* Docker could not be asked: the lease is given back, with a date long past.
DeferRecovery(w, v) ==
    /\ Goto(w, "Transient")
    /\ owner' = [owner EXCEPT ![v] = NoOwner]
    /\ lease' = [lease EXCEPT ![v] = "Expired"]
    /\ UNCHANGED <<status, phase, snap, target>>

ReconcileClaimedDeployment(w, v) ==
    /\ pc[w] = "Reconcile"
    /\ \/ /\ ~Observes(v)
          /\ Goto(w, CASE phase[v] = "Validating" -> "Validate"
                       [] phase[v] = "PreparingArtifacts" -> "Provision"
                       [] phase[v] = "GeneratingStack" -> "BeginApply")
          /\ UNCHANGED depVars
       \/ /\ Observes(v)
          /\ \E seen \in Observations(Wanted(v)) \ {"Unknown"} :
                 Goto(w, AfterObserving(v, seen))
          /\ UNCHANGED depVars
       \/ /\ Observes(v)
          /\ DeferRecovery(w, v)
    /\ RowStep

\* Validation admits a group in Error only for an explicit rollback; it, the
\* capacity admission and provisioning may also refuse for reasons of their own.
Admissible(v) == groupStatus = "Ready" \/ target[v] # 0

AdvanceToPreparingArtifacts(w, v) ==
    /\ pc[w] = "Validate"
    /\ \/ /\ Admissible(v)
          /\ SetRow(v, "Deploying", "PreparingArtifacts")
          /\ RenewLease(v)
          /\ Goto(w, "Provision")
       \/ /\ FailDeployment(w, v)
    /\ RowStep

ProvisionArtifacts(w, v) ==
    /\ pc[w] = "Provision"
    /\ \/ /\ Goto(w, "Generate")
          /\ UNCHANGED depVars
       \/ /\ FailDeployment(w, v)
    /\ RowStep

\* advanceDeployment where only the phase is written.
NextPhase(w, v, at, p, then) ==
    /\ pc[w] = at
    /\ SetRow(v, "Deploying", p)
    /\ RenewLease(v)
    /\ Goto(w, then)
    /\ RowStep

AdvanceDeployment(w, v) ==
    \/ NextPhase(w, v, "Generate", "GeneratingStack", "BeginApply")
    \/ NextPhase(w, v, "BeginApply", "ApplyingStack", "Apply")
    \/ NextPhase(w, v, "BeginRollout", "WaitingForRollout", "Rollout")

\* docker stack deploy --prune.  A failure may have applied any part.
DockerApply(w, s, good, bad) ==
    /\ \/ /\ stack' = [apps |-> s.apps, content |-> s.content]
          /\ Goto(w, good)
       \/ /\ \/ UNCHANGED stack
             \/ \E left \in SUBSET (stack.apps \cup s.apps) :
                    stack' = [apps |-> left, content |-> Mixed]
          /\ Goto(w, bad)
    /\ UNCHANGED <<groupVars, depVars, reqVars, queueVars, read, aborts>>

ApplyRenderedStack(w, v) ==
    /\ pc[w] = "Apply"
    /\ DockerApply(w, snap[v],
                   IF phase[v] = "WaitingForRollout" THEN "Rollout" ELSE "BeginRollout",
                   "ApplyFailed")

FailApply(w, v) ==
    /\ pc[w] = "ApplyFailed"
    /\ FailDeployment(w, v)
    /\ RowStep

\* evaluateServices: nothing is missing and nothing unexpected runs.
Converges(s) == stack.apps = s.apps

\* Mutant: a failed rollout is waited for again.
WaitForRolloutAgain(w, v) ==
    /\ pc[w] = "Rollout"
    /\ \/ Converges(snap[v]) /\ Goto(w, "ReadDraft")
       \/ Goto(w, "BeginRollout")
    /\ UNCHANGED depVars
    /\ RowStep

\* The services converge; or they do not in time, Docker fails, or the tasks of
\* a removed app with a GPU are not known to have ended.
WaitForRollout(w, v) ==
    /\ pc[w] = "Rollout"
    /\ \/ Converges(snap[v]) /\ Goto(w, "ReadDraft")
       \/ Goto(w, "BeginRollback")
    /\ UNCHANGED depVars
    /\ RowStep

\* The completing transaction reads the apps to delete and the draft revision
\* without locking them ...
ReadDraft(w) ==
    /\ pc[w] = "ReadDraft"
    /\ read' = [read EXCEPT ![w] =
                    [doomed |-> {a \in Apps : rows[a] = "PendingDeletion"},
                     revision |-> revision]]
    /\ Goto(w, "Complete")
    /\ UNCHANGED <<groupVars, depVars, reqVars, queueVars, stack, aborts>>

\* ... and writes what follows from them.
CompleteDeployment(w, v) ==
    /\ pc[w] = "Complete"
    /\ rows' = [a \in Apps |-> IF a \in read[w].doomed THEN "Gone" ELSE rows[a]]
    /\ SetRow(v, IF target[v] # 0 THEN "RolledBack" ELSE "Succeeded", "Completed")
    /\ ClearLease(v)
    /\ current' = IF target[v] # 0 THEN target[v] ELSE v
    /\ pending' = (target[v] # 0 \/ read[w].revision # snap[v].source)
    /\ groupStatus' = IF target[v] # 0 THEN "Ready" ELSE groupStatus
    /\ Goto(w, "Result")
    /\ UNCHANGED <<content, revision, reqVars, queueVars, read, stack, aborts>>

\* Mutant: the version before v, whatever became of it.
PreviousVersion(v, t) == t + 1 = v

\* The newest version below v that succeeded.
RollbackTarget(v, t) ==
    /\ t < v /\ status[t] = "Succeeded"
    /\ \A u \in Versions : t < u /\ u < v => status[u] # "Succeeded"

\* Mutant: without a target the rollback counts as failed.
RollbackWithoutTarget(w, v) ==
    /\ pc[w] = "BeginRollback"
    /\ \/ /\ \A t \in Versions : ~RollbackTarget(v, t)
          /\ UNCHANGED depVars
          /\ Goto(w, "RollbackFailed")
       \/ /\ \E t \in Versions : RollbackTarget(v, t)
                                 /\ target' = [target EXCEPT ![v] = t]
          /\ status' = [status EXCEPT ![v] = "RollingBack"]
          /\ phase' = [phase EXCEPT ![v] = "RollingBack"]
          /\ UNCHANGED snap
          /\ KeepLease
          /\ Goto(w, "RollbackApply")
    /\ RowStep

RollbackAfterRuntimeFailure(w, v) ==
    /\ pc[w] = "BeginRollback"
    /\ \/ /\ \A t \in Versions : ~RollbackTarget(v, t)
          /\ FailDeployment(w, v)
       \/ /\ \E t \in Versions : RollbackTarget(v, t)
                                 /\ target' = [target EXCEPT ![v] = t]
          /\ status' = [status EXCEPT ![v] = "RollingBack"]
          /\ phase' = [phase EXCEPT ![v] = "RollingBack"]
          /\ UNCHANGED snap
          /\ KeepLease
          /\ Goto(w, "RollbackApply")
    /\ RowStep

\* Mutant: the artifact of the failed version is applied again.
ApplyFailedVersion(w, v) ==
    /\ pc[w] = "RollbackApply"
    /\ DockerApply(w, snap[v], "RollbackRollout", "RollbackFailed")

ApplyRollback(w, v) ==
    /\ pc[w] = "RollbackApply"
    /\ DockerApply(w, snap[target[v]], "RollbackRollout", "RollbackFailed")

WaitForRollback(w, v) ==
    /\ pc[w] = "RollbackRollout"
    /\ \/ Converges(snap[target[v]]) /\ Goto(w, "RollbackDone")
       \/ Goto(w, "RollbackFailed")
    /\ UNCHANGED depVars
    /\ RowStep

MarkRollbackFailed(w, v) ==
    /\ pc[w] = "RollbackFailed"
    /\ SetRow(v, "RollbackFailed", "Completed")
    /\ ClearLease(v)
    /\ groupStatus' = "Error"
    /\ Goto(w, "Result")
    /\ UNCHANGED <<draftVars, pending, current, reqVars, queueVars, read, stack, aborts>>

CompleteRollback(w, v) ==
    /\ pc[w] = "RollbackDone"
    /\ SetRow(v, "RolledBack", "Completed")
    /\ ClearLease(v)
    /\ current' = target[v]
    /\ pending' = TRUE
    /\ Goto(w, "Result")
    /\ UNCHANGED <<draftVars, groupStatus, reqVars, queueVars, read, stack, aborts>>

-----------------------------------------------------------------------------

Execute(w) ==
    LET v == Dep(w) IN
    \/ ClaimDeploymentById(w, v)
    \/ ReconcileClaimedDeployment(w, v)
    \/ AdvanceToPreparingArtifacts(w, v)
    \/ ProvisionArtifacts(w, v)
    \/ AdvanceDeployment(w, v)
    \/ ApplyRenderedStack(w, v)
    \/ FailApply(w, v)
    \/ WaitForRollout(w, v)
    \/ ReadDraft(w)
    \/ CompleteDeployment(w, v)
    \/ RollbackAfterRuntimeFailure(w, v)
    \/ ApplyRollback(w, v)
    \/ WaitForRollback(w, v)
    \/ MarkRollbackFailed(w, v)
    \/ CompleteRollback(w, v)
    \/ TerminalResult(w)
    \/ RetryOperation(w)

Edit ==
    \/ UpdateSingleApp
    \/ \E a \in Apps : CreateSingleApp(a) \/ MarkSingleAppPendingDeletion(a)

Request ==
    \/ ReadDeployableDraft
    \/ DeployAppGroup
    \/ \E t \in Versions : RollbackDeployment(t)
    \/ ReadRestorableSnapshot
    \/ DiscardDraftChanges

Next ==
    \/ Edit
    \/ Request
    \/ \E v \in Versions : FailExhaustedOperation(v) \/ DeploymentLeaseExpires(v)
    \/ \E w \in Workers :
           \/ \E v \in Versions : ClaimOperation(w, v)
           \/ Execute(w)
           \/ Abort(w)

Spec == Init /\ [][Next]_vars

\* The operation loop polls for ever, every Docker call and rollout wait is
\* under a timeout, and clocks advance.
Fairness ==
    /\ \A w \in Workers :
           WF_vars(Execute(w)) /\ WF_vars(\E v \in Versions : ClaimOperation(w, v))
    /\ \A v \in Versions : WF_vars(DeploymentLeaseExpires(v))

FairSpec == Spec /\ Fairness

-----------------------------------------------------------------------------
(* Properties *)

\* Every column and every process variable holds one of the values the code
\* gives it; a discard in flight names a version that exists.
TypeOK ==
    /\ rows \in [Apps -> {"None", "Active", "PendingDeletion", "Gone"}]
    /\ content \in Nat /\ revision \in Nat
    /\ pending \in BOOLEAN
    /\ current \in {0} \cup Versions
    /\ groupStatus \in {"Ready", "Error"}
    /\ status \in [Versions -> Statuses]
    /\ phase \in [Versions -> Phases]
    /\ snap \in [Versions -> Snaps]
    /\ target \in [Versions -> {0} \cup Versions]
    /\ owner \in [Versions -> Workers \cup {NoOwner}]
    /\ lease \in [Versions -> {"None", "Held", "Expired"}]
    /\ deployReq \in Snaps \cup {NoRequest}
    /\ discardReq \in Versions \cup {NoRequest}
    /\ opStatus \in [Versions -> {"Absent", "Pending", "Running",
                                  "Succeeded", "RolledBack", "Failed"}]
    /\ opToken \in [Versions -> Nat]
    /\ maxAttempts \in Attempts
    /\ job \in [Workers -> (Versions \X Nat) \cup {NoJob}]
    /\ pc \in [Workers -> Steps]
    /\ read \in [Workers -> [doomed : SUBSET Apps, revision : Nat]]
    /\ stack \in [apps : SUBSET Apps, content : Nat \cup {Mixed}]
    /\ aborts \in Nat

\* The version the group points at, and the version a rollback in progress
\* returns to, are Succeeded: discardDraftChanges, rollbackDeployment and
\* recoverRollback look them up with that status and fail otherwise.
RestorePointsSucceeded ==
    /\ current # 0 => status[current] = "Succeeded"
    /\ \A v \in Versions : status[v] = "RollingBack" =>
           target[v] # 0 /\ status[target[v]] = "Succeeded"

\* A group in Error refuses normal deployments; a version it can be rolled
\* back to exists whenever it got there.
ErrorIsRepairable ==
    groupStatus = "Error" => \E v \in Versions : status[v] = "Succeeded"

\* Only one process at a time is at work on the stack, and its deployment is
\* still active, although nothing but the deployment row serialises them.
OneStackWriter ==
    LET Writers == {w \in Workers : pc[w] \notin {"Idle", "Claimed", "Result", "Transient"}} IN
    /\ \A w \in Writers : status[Dep(w)] \in {"Deploying", "RollingBack"} /\ owner[Dep(w)] = w
    /\ \A v, w \in Writers : v = w

\* What the user reads in the Operation is what happened to the deployment: the
\* Operation is never closed ahead of it or better than it.
OperationTellsOutcome ==
    \A v \in Versions :
        /\ opStatus[v] = "Succeeded" => status[v] = "Succeeded"
        /\ opStatus[v] = "RolledBack" => status[v] = "RolledBack"

\* The newest version whose stack may have been applied.
LastApplied(v) ==
    LET Applied(u) == /\ status[u] # "Absent"
                      /\ phase[u] \notin {"Validating", "PreparingArtifacts", "GeneratingStack"}
    IN  Applied(v) /\ \A u \in Versions : u > v => ~Applied(u)

\* As long as no deployment was resumed: when the last one that touched the stack
\* ended well, or was rolled back, the stack is what the group's current version says.
NoneResumed == \A v \in Versions : opToken[v] <= 1

StackIsCurrent ==
    NoneResumed =>
        \A v \in Versions : LastApplied(v) /\ status[v] \in {"Succeeded", "RolledBack"} =>
            /\ current # 0
            /\ stack = [apps |-> snap[current].apps, content |-> snap[current].content]

\* A deployment that ended never changes its outcome, and no deployment changes
\* the snapshot it was accepted with.
OutcomeStays ==
    \A v \in Versions :
        /\ status[v] \in Terminal => status'[v] = status[v] /\ target'[v] = target[v]
        /\ status[v] # "Absent" => snap'[v] = snap[v]

OutcomeIsFinal == [][OutcomeStays]_vars

\* Every accepted deployment ends.
EveryDeploymentSettles ==
    \A v \in Versions :
        status[v] \in {"Pending", "Deploying", "RollingBack"} ~> status[v] \in Terminal

\* waitForRollout, before it deletes rows: "Docker stack --prune + rollout
\* verified no removed services remain."
RemovedAppsAreDown ==
    [][\A a \in Apps : status' # status /\ rows[a] # "Gone" /\ rows'[a] = "Gone" =>
           a \notin stack.apps]_vars

\* "Preserve hasPendingChanges/runtimeDraftRevision semantics so the next normal
\* deployment still represents the full desired-state change": a group without
\* pending changes, which a normal deployment refuses, runs what the draft says.
NoPendingChangesMeansDeployed ==
    ~pending /\ current # 0 => content = snap[current].content
=============================================================================
