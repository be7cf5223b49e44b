--------------------------------- MODULE Gpu --------------------------------
(***************************************************************************)
(* Exclusive NVIDIA devices and the removal of AppGroups.  The database    *)
(* row of a device names the SingleApp it is reserved for; Docker holds    *)
(* services and tasks that use a device by UUID.  Reservations end in four *)
(* places: a rollout without the app, the discard of a draft, the deletion *)
(* of the group and an administrator's recovery.  Each app here is the GPU *)
(* app of an AppGroup of its own; the other apps of the group need no      *)
(* device.  All devices are on one Swarm node.                             *)
(***************************************************************************)
EXTENDS Naturals, FiniteSets

CONSTANTS
    Apps, Gpus,
    Quota,              \* devices the tenant may reserve
    MaxDeploys,         \* bound: deployments and rollbacks requested
    MaxEvents,          \* bound: a driver fails or returns, a node drains or returns
    MaxAttempts,        \* attempts of a deletion (8 in the code)
    Windows,            \* windows without a lock in which others act: "deletion" (a rollback
                        \* of a group being deleted), "census" (between the census of a
                        \* recovery and its release), "rollout" (a removal marked between
                        \* the check of a rollout and its transaction)
    None

GpuAssumption ==
    /\ IsFiniteSet(Gpus) /\ None \notin Apps \cup Gpus
    /\ Quota \in Nat /\ MaxDeploys \in Nat /\ MaxEvents \in Nat
    /\ MaxAttempts \in Nat \ {0}
    /\ Windows \subseteq {"deletion", "census", "rollout"}

VARIABLES
    row,        \* the SingleApp: Active, Pending (deletion) or Gone
    run,        \* runtime state of app and group: Running or Stopped
    group,      \* status of the AppGroup
    owner,      \* allocatedSingleAppId of each device
    observed,   \* observedState of each device
    attempts,   \* artifacts of every deployment that was requested
    good,       \* artifacts of succeeded deployments
    current,    \* the artifact of currentDeploymentVersion, or None
    dep,        \* the active deployment of the group
    service,    \* the app's Swarm service: None, or its device and whether it has a replica
    tasks,      \* pairs of an app and a device: tasks that are not terminal
    del,        \* the APP_GROUP_DELETE Operation
    rec,        \* an infrastructure Operation that recovers a device
    works,      \* devices whose driver answers
    ready,      \* the node is Ready and Active
    deploys, events

db == <<row, run, group, owner, observed>>
history == <<attempts, good, current>>
swarm == <<service, tasks>>
env == <<works, ready, events>>
vars == <<db, history, dep, swarm, del, rec, env, deploys>>

\* What a stack artifact says of the app: whether it has a service, with which
\* device, and whether with a replica.
Artifacts == [there : BOOLEAN, gpu : Gpus \cup {None}, up : BOOLEAN]
Idle == [pc |-> "Idle", kind |-> "deploy", art |-> [there |-> FALSE, gpu |-> None, up |-> FALSE]]
NoRec == [pc |-> "Idle", gpu |-> None]
Owned(a) == {g \in Gpus : owner[g] = a}

\* A step that is not recoverGpu's.
Outside == ("census" \in Windows \/ rec.pc # "Release") /\ UNCHANGED rec

Init ==
    /\ row = [a \in Apps |-> "Active"]
    /\ run = [a \in Apps |-> "Running"]
    /\ group = [a \in Apps |-> "Ready"]
    /\ owner = [g \in Gpus |-> None]
    /\ observed = [g \in Gpus |-> "Unavailable"]
    /\ attempts = [a \in Apps |-> {}] /\ good = [a \in Apps |-> {}]
    /\ current = [a \in Apps |-> None]
    /\ dep = [a \in Apps |-> Idle]
    /\ service = [a \in Apps |-> None] /\ tasks = {}
    /\ del = [a \in Apps |-> [pc |-> "None", n |-> 0, verify |-> FALSE]]
    /\ rec = NoRec
    /\ works = Gpus /\ ready = TRUE /\ deploys = 0 /\ events = 0

-----------------------------------------------------------------------------
(* NvidiaGpuAllocationService: transactions under one advisory lock *)

\* reserve
Reserve(a, g) ==
    /\ row[a] = "Active" /\ group[a] = "Ready"
    /\ owner[g] = None /\ Owned(a) = {}
    /\ observed[g] = "Available"
    /\ Cardinality({h \in Gpus : owner[h] # None}) < Quota
    /\ owner' = [owner EXCEPT ![g] = a]
    /\ UNCHANGED <<row, run, group, observed, history, dep, swarm, del, env, deploys>>
    /\ Outside

\* reconcile, of one node: the report must match the advertised devices, or all of
\* them become unavailable; ownership is never touched.
Verified == ready /\ works = Gpus
Observe ==
    /\ observed' = [g \in Gpus |-> IF Verified THEN "Available" ELSE "Unavailable"]
    /\ UNCHANGED <<row, run, group, owner, history, dep, swarm, del, env, deploys>>
    /\ Outside

\* A driver stops answering or answers again; a node drains or returns.
Environment ==
    /\ events < MaxEvents
    /\ events' = events + 1
    /\ \/ ready' = ~ready /\ UNCHANGED works
       \/ \E g \in Gpus :
             works' = (IF g \in works THEN works \ {g} ELSE works \cup {g}) /\ UNCHANGED ready
    /\ UNCHANGED <<db, history, dep, swarm, del, deploys>>
    /\ Outside

-----------------------------------------------------------------------------
(* The draft and the runtime state *)

\* assertNoActiveDeployment, in the transaction of every change below
NoActiveDeployment(a) == dep[a].pc = "Idle"

\* markSingleAppPendingDeletion, which asks for no deployment
MarkPending(a) ==
    /\ "rollout" \in Windows \/ dep[a].pc # "Converged"
    /\ row[a] = "Active" /\ group[a] = "Ready"
    /\ row' = [row EXCEPT ![a] = "Pending"]
    /\ UNCHANGED <<run, group, owner, observed, history, dep, swarm, del, env, deploys>>
    /\ Outside

\* start and stop: the database first, the replicas by an Operation.
SetRuntimeState(a) ==
    /\ NoActiveDeployment(a) /\ row[a] = "Active" /\ group[a] = "Ready"
    /\ run' = [run EXCEPT ![a] = IF @ = "Running" THEN "Stopped" ELSE "Running"]
    /\ UNCHANGED <<row, group, owner, observed, history, dep, swarm, del, env, deploys>>
    /\ Outside

Scale(a) ==
    /\ dep[a].pc = "Idle" /\ row[a] # "Gone" /\ service[a] # None
    /\ service[a].up # (run[a] = "Running")
    /\ service' = [service EXCEPT ![a].up = (run[a] = "Running")]
    /\ UNCHANGED <<db, history, dep, tasks, del, env, deploys>>
    /\ Outside

\* assertGpuDraftHasNoDeploymentHistory and assertGpuExistingAppsNeverAttemptedGpuRuntime
NeverAttempted(a) ==
    IF current[a].there
    THEN \A art \in attempts[a] : art.there => art.gpu = None
    ELSE \A art \in attempts[a] : ~art.there

\* discardDraftChanges: the rows of the current deployment are restored, an app that is
\* not in it is deleted, a device reserved since is freed.
Discard(a) ==
    LET cur == current[a]
    IN  /\ NoActiveDeployment(a) /\ row[a] # "Gone" /\ group[a] # "Gone"
        /\ cur # None
        /\ cur.there /\ cur.gpu # None => Owned(a) # {}
        /\ IF Owned(a) # {} /\ (~cur.there \/ cur.gpu = None)
           THEN /\ NeverAttempted(a)
                /\ owner' = [g \in Gpus |-> IF owner[g] = a THEN None ELSE owner[g]]
           ELSE UNCHANGED owner
        /\ row' = [row EXCEPT ![a] = IF cur.there THEN "Active" ELSE "Gone"]
        /\ run' = [run EXCEPT ![a] = IF cur.there /\ cur.up THEN "Running" ELSE "Stopped"]
        /\ UNCHANGED <<group, observed, history, dep, swarm, del, env, deploys>>
        /\ Outside

-----------------------------------------------------------------------------
(* Deployments *)

Requested(a, kind, art) ==
    /\ dep[a].pc = "Idle" /\ deploys < MaxDeploys
    /\ deploys' = deploys + 1
    /\ dep' = [dep EXCEPT ![a] = [pc |-> "Requested", kind |-> kind, art |-> art]]
    /\ attempts' = [attempts EXCEPT ![a] = @ \cup {art}]
    /\ UNCHANGED <<db, good, current, swarm, del, env>>
    /\ Outside

\* deployAppGroup: the snapshot of the draft; a group being deleted has no active app.
Deploy(a) ==
    /\ group[a] = "Ready"
    /\ Requested(a, "deploy",
           [there |-> row[a] = "Active",
            gpu |-> IF row[a] = "Active" /\ Owned(a) # {} THEN CHOOSE g \in Owned(a) : TRUE ELSE None,
            up |-> row[a] = "Active" /\ run[a] = "Running"])

\* rollbackDeployment: any succeeded deployment, whatever the status of the group.
Rollback(a) ==
    /\ group[a] # "Gone"
    /\ "deletion" \in Windows \/ group[a] = "Ready"
    /\ \E art \in good[a] : Requested(a, "rollback", art)

\* rollbackAfterRuntimeFailure, and failDeployment when no version succeeded: the
\* last one is not ordered here, any succeeded artifact may be it.
Failed(a) ==
    dep' \in {[dep EXCEPT ![a] = Idle]} \cup
             (IF dep[a].kind = "auto" THEN {}
              ELSE {[dep EXCEPT ![a] = [pc |-> "Requested", kind |-> "auto", art |-> art]] :
                       art \in good[a]})

\* verifyGpuArtifactOwnership, before each apply
VerifyOwnership(a, art) ==
    art.gpu = None \/ (owner[art.gpu] = a /\ observed[art.gpu] = "Available")

VerifyArtifact(a) ==
    /\ dep[a].pc = "Requested"
    /\ IF VerifyOwnership(a, dep[a].art)
       THEN dep' = [dep EXCEPT ![a].pc = "Verified"]
       ELSE dep' = [dep EXCEPT ![a] = Idle]
    /\ UNCHANGED <<db, history, swarm, del, env, deploys>>
    /\ Outside

\* docker stack deploy --prune
Apply(a) ==
    /\ dep[a].pc = "Verified"
    /\ dep' = [dep EXCEPT ![a].pc = "Applied"]
    /\ service' = [service EXCEPT ![a] = IF dep[a].art.there
                      THEN [gpu |-> dep[a].art.gpu, up |-> dep[a].art.up] ELSE None]
    /\ UNCHANGED <<db, history, tasks, del, env, deploys>>
    /\ Outside

\* Mutant: a removed service is gone once it is not listed.
RemovedServiceOnly(a) == service[a] = None
\* verifyRemovedGpuServiceTasks and verifyRemovedGpuAppGroupRuntime: every node is
\* known, no service and no task that is not terminal.
VerifyRemoved(a) == ready /\ service[a] = None /\ \A t \in tasks : t[1] # a

\* waitForRollout
Rollout(a) ==
    /\ dep[a].pc = "Applied"
    /\ \/ /\ row[a] = "Pending" /\ Owned(a) # {} => VerifyRemoved(a)
          /\ dep' = [dep EXCEPT ![a].pc = "Converged"]
       \/ Failed(a)
    /\ UNCHANGED <<db, history, swarm, del, env, deploys>>
    /\ Outside

\* completeDeployment
Complete(a) ==
    /\ dep[a].pc = "Converged"
    /\ dep' = [dep EXCEPT ![a] = Idle]
    /\ IF dep[a].kind = "auto"
       THEN UNCHANGED <<owner, row, group, good>>
       ELSE /\ row' = [row EXCEPT ![a] = IF @ = "Pending" THEN "Gone" ELSE @]
            /\ owner' = [g \in Gpus |-> IF owner[g] = a /\ row[a] = "Pending" THEN None ELSE owner[g]]
            /\ group' = [group EXCEPT ![a] = IF dep[a].kind = "rollback" THEN "Ready" ELSE @]
            /\ good' = [good EXCEPT ![a] = IF dep[a].kind = "deploy" THEN @ \cup {dep[a].art} ELSE @]
    /\ current' = [current EXCEPT ![a] = dep[a].art]
    /\ UNCHANGED <<run, observed, attempts, swarm, del, env, deploys>>
    /\ Outside

\* The worker skips a deployment whose group has been deleted: the row is gone with it.
DeploymentGone(a) ==
    /\ group[a] = "Gone" /\ dep[a].pc # "Idle"
    /\ dep' = [dep EXCEPT ![a] = Idle]
    /\ UNCHANGED <<db, history, swarm, del, env, deploys>>
    /\ Outside

-----------------------------------------------------------------------------
(* Docker: the tasks of a service *)

Uses(a, g) == service[a] # None /\ service[a].up /\ service[a].gpu = g

TaskStarts(a) ==
    /\ ready
    /\ \E g \in Gpus : Uses(a, g)
    /\ <<a, service[a].gpu>> \notin tasks
    /\ tasks' = tasks \cup {<<a, service[a].gpu>>}
    /\ UNCHANGED <<db, history, dep, service, del, env, deploys>>
    /\ Outside

TaskEnds(t) ==
    /\ t \in tasks /\ ~Uses(t[1], t[2])
    /\ tasks' = tasks \ {t}
    /\ UNCHANGED <<db, history, dep, service, del, env, deploys>>
    /\ Outside

-----------------------------------------------------------------------------
(* Deletion of an AppGroup *)

\* deleteAppGroup; the key of the Operation is the group, a second request gets the
\* row of the first, failed or not.
MarkGroupDeleting(a) ==
    /\ group[a] # "Gone"
    /\ row' = [row EXCEPT ![a] = IF @ = "Gone" THEN @ ELSE "Pending"]
    /\ run' = [run EXCEPT ![a] = "Stopped"]
    /\ group' = [group EXCEPT ![a] = "Deleting"]
    /\ del' = [del EXCEPT ![a] = IF @.pc = "None" THEN [@ EXCEPT !.pc = "Queued"] ELSE @]
    /\ UNCHANGED <<owner, observed, history, dep, swarm, env, deploys>>
    /\ Outside

RequestDelete(a) == NoActiveDeployment(a) /\ MarkGroupDeleting(a)

\* A retryable error, until the attempts are used up.
Retry(a) ==
    del' = [del EXCEPT ![a] = [pc |-> IF @.n + 1 >= MaxAttempts THEN "Failed" ELSE "Queued",
                               n |-> @.n + 1, verify |-> FALSE]]

\* retryFailedOperation, by a user
RetryOperation(a) ==
    /\ del[a].pc = "Failed"
    /\ del' = [del EXCEPT ![a] = [pc |-> "Queued", n |-> 0, verify |-> FALSE]]
    /\ UNCHANGED <<db, history, dep, swarm, env, deploys>>
    /\ Outside

\* Mutant: every error of the command is taken for a stack that is missing.
StackLeft(a) == service
\* docker stack rm
StackRemoved(a) == [service EXCEPT ![a] = None]

\* execute, up to removeAppGroupRuntime, which may fail after the stack is removed.
RemoveRuntime(a) ==
    /\ del[a].pc = "Queued"
    /\ \/ /\ group[a] # "Deleting"
          /\ del' = [del EXCEPT ![a] = [@ EXCEPT !.pc = IF group[a] = "Gone" THEN "Done" ELSE "Failed"]]
          /\ UNCHANGED service
       \/ /\ group[a] = "Deleting"
          /\ service' = StackRemoved(a)
          /\ \/ Retry(a)
             \/ del' = [del EXCEPT ![a].pc = "Removed"]
    /\ UNCHANGED <<db, history, dep, tasks, env, deploys>>
    /\ Outside

\* The devices are counted, and their tasks looked for.
CheckRemoved(a) ==
    /\ del[a].pc = "Removed"
    /\ IF Owned(a) = {} THEN del' = [del EXCEPT ![a].pc = "Checked"]
       ELSE IF VerifyRemoved(a) THEN del' = [del EXCEPT ![a] = [@ EXCEPT !.pc = "Checked", !.verify = TRUE]]
       ELSE Retry(a)
    /\ UNCHANGED <<db, history, dep, swarm, env, deploys>>
    /\ Outside

\* The last transaction; without devices counted it only deletes the group, which the
\* foreign key of a device refuses while one is reserved.
DeleteGroup(a) ==
    /\ del[a].pc = "Checked"
    /\ IF group[a] = "Deleting" /\ (del[a].verify \/ Owned(a) = {})
       THEN /\ owner' = [g \in Gpus |-> IF owner[g] = a THEN None ELSE owner[g]]
            /\ group' = [group EXCEPT ![a] = "Gone"] /\ row' = [row EXCEPT ![a] = "Gone"]
            /\ del' = [del EXCEPT ![a].pc = "Done"]
       ELSE Retry(a) /\ UNCHANGED <<owner, group, row>>
    /\ UNCHANGED <<run, observed, history, dep, swarm, env, deploys>>
    /\ Outside

-----------------------------------------------------------------------------
(* recoverGpu: prove that the device is idle, then release it *)

Diagnose(g) ==
    /\ rec.pc = "Idle" /\ owner[g] # None /\ ~Verified
    /\ observed' = [h \in Gpus |-> "Unavailable"]
    /\ rec' = [pc |-> "Diagnosed", gpu |-> g]
    /\ UNCHANGED <<row, run, group, owner, history, dep, swarm, del, env, deploys>>

\* collectUsage and verifyNoGpuSwarmServiceReservations: every node answers, no
\* container uses the device, no service of the Swarm reserves one.
Census(g) ==
    /\ ready
    /\ \A t \in tasks : t[2] # g
    /\ \A a \in Apps : service[a] = None \/ service[a].gpu = None

TakeCensus ==
    /\ rec.pc = "Diagnosed"
    /\ rec' = IF Census(rec.gpu) THEN [rec EXCEPT !.pc = "Release"] ELSE NoRec
    /\ UNCHANGED <<db, history, dep, swarm, del, env, deploys>>

\* adminReleaseStaleGpu, its conditions on the owner
Stale(a) == run[a] = "Stopped" /\ group[a] # "Deleting" /\ dep[a].pc = "Idle"

Release ==
    /\ rec.pc = "Release"
    /\ LET a == owner[rec.gpu]
       IN  IF a # None /\ observed[rec.gpu] # "Available" /\ Stale(a)
           THEN owner' = [owner EXCEPT ![rec.gpu] = None]
           ELSE UNCHANGED owner
    /\ rec' = NoRec
    /\ UNCHANGED <<row, run, group, observed, history, dep, swarm, del, env, deploys>>

Next ==
    \/ Observe \/ Environment \/ TakeCensus \/ Release
    \/ \E g \in Gpus : Diagnose(g)
    \/ \E t \in Apps \X Gpus : TaskEnds(t)
    \/ \E a \in Apps :
          \/ \E g \in Gpus : Reserve(a, g)
          \/ MarkPending(a) \/ SetRuntimeState(a) \/ Scale(a) \/ Discard(a)
          \/ Deploy(a) \/ Rollback(a)
          \/ VerifyArtifact(a) \/ Apply(a) \/ Rollout(a) \/ Complete(a) \/ DeploymentGone(a)
          \/ TaskStarts(a)
          \/ RequestDelete(a) \/ RetryOperation(a) \/ RemoveRuntime(a) \/ CheckRemoved(a)
          \/ DeleteGroup(a)

Spec == Init /\ [][Next]_vars

-----------------------------------------------------------------------------
(* Properties *)

\* The types of the variables: rows, Operations and deployments stay within their
\* states, and a tenant's reservations within its quota (reserve, under the lock).
TypeOK ==
    /\ row \in [Apps -> {"Active", "Pending", "Gone"}]
    /\ run \in [Apps -> {"Running", "Stopped"}]
    /\ group \in [Apps -> {"Ready", "Deleting", "Gone"}]
    /\ owner \in [Gpus -> Apps \cup {None}]
    /\ observed \in [Gpus -> {"Available", "Unavailable"}]
    /\ \A a \in Apps :
          /\ attempts[a] \subseteq Artifacts /\ good[a] \subseteq attempts[a]
          /\ current[a] \in good[a] \cup {None}
          /\ dep[a].pc \in {"Idle", "Requested", "Verified", "Applied", "Converged"}
          /\ dep[a].kind \in {"deploy", "rollback", "auto"} /\ dep[a].art \in Artifacts
          /\ service[a] = None \/ service[a] \in [gpu : Gpus \cup {None}, up : BOOLEAN]
          /\ Cardinality(Owned(a)) <= 1
          /\ del[a].n \in 0..MaxAttempts /\ del[a].verify \in BOOLEAN
          /\ del[a].pc \in {"None", "Queued", "Removed", "Checked", "Failed", "Done"}
    /\ tasks \subseteq Apps \X Gpus
    /\ rec.pc \in {"Idle", "Diagnosed", "Release"} /\ rec.gpu \in Gpus \cup {None}
    /\ works \subseteq Gpus /\ ready \in BOOLEAN
    /\ Cardinality({g \in Gpus : owner[g] # None}) <= Quota

\* A device that a task or a service uses is reserved for that app, so that no second
\* app is given it: docs/implementation/nvidia-gpu-exclusive-allocation.md, "it can
\* belong to only one SingleApp in one tenant at a time".
UsedIsReserved ==
    /\ \A t \in tasks : owner[t[2]] = t[1]
    /\ \A a \in Apps : service[a] # None /\ service[a].gpu # None => owner[service[a].gpu] = a

\* A group that was deleted has left nothing in Docker that would start its app again
\* (removeAppGroupRuntime before the row is deleted).
DeletedHasNoService == \A a \in Apps : group[a] = "Gone" => service[a] = None

\* A device that a task uses is reserved by the task's app, and a deleted group has no
\* service left, through rollouts, rollbacks, recoveries and deletions.
GpuSafety ==
    /\ TypeOK
    /\ UsedIsReserved
    /\ DeletedHasNoService
=============================================================================
