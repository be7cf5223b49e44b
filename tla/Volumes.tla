------------------------------ MODULE Volumes ------------------------------
(***************************************************************************)
(* Volumes: a row with a reserved size, a directory with a project limit   *)
(* on the storage node, attachments of the drafts and mounts of running    *)
(* tasks.  Operation workers create, resize and delete them in several     *)
(* steps, crash between any two and take each other's jobs again, while    *)
(* app groups attach, deploy and roll back.                                *)
(***************************************************************************)
EXTENDS Naturals, FiniteSets, FiniteSetsExt

CONSTANTS
    Volumes,        \* also the ids of the operations that create them
    Groups,         \* app groups of the one tenant, one app each
    Workers,
    MaxSize,        \* bound: sizes are 1..MaxSize
    Quota, Capacity,\* storage of the tenant, of the backend
    Kinds,          \* operations whose worker may crash
    Cases,          \* windows that are open: "import", "first", "partial", "verify", "zombie"
    MaxJobs,        \* bound: requests made
    MaxDeploys,     \* bound: deployments requested
    MaxFailures,    \* bound: crashes and failed steps
    None

VolumesAssumption ==
    /\ IsFiniteSet(Volumes)
    /\ MaxSize \in Nat \ {0} /\ Quota \in Nat /\ Capacity \in Nat
    /\ Kinds \subseteq {"create", "resize", "delete"}
    /\ Cases \subseteq {"import", "first", "partial", "verify", "zombie"}
    /\ MaxJobs \in Nat /\ MaxDeploys \in Nat /\ MaxFailures \in Nat
    /\ \A S \in SUBSET Volumes : S # None

VARIABLES
    vol,        \* rows: status, size and pendingSizeBytes (0 is null)
    disk,       \* directories: the project limit in force, 0 without a directory
    jobs,       \* requests that wait for a worker
    work,       \* the job each worker executes
    attach,     \* volumes attached in the draft of each group
    dep,        \* deployments of each group
    mounted,    \* volumes the tasks of each group mount
    made, deploys, failures

vars == <<vol, disk, jobs, work, attach, dep, mounted, made, deploys, failures>>
groups == <<attach, dep, mounted, deploys>>

Absent == [status |-> "Absent", size |-> 0, pending |-> 0]
Idle == [pc |-> "Idle", kind |-> "create", vol |-> None, size |-> 0, resumed |-> FALSE, lost |-> FALSE]
Undeployed == [status |-> "None", next |-> {}, current |-> None, past |-> {}, observed |-> FALSE,
               draft |-> None, import |-> None]

Init ==
    /\ vol = [v \in Volumes |-> Absent] /\ disk = [v \in Volumes |-> 0]
    /\ jobs = {} /\ work = [w \in Workers |-> Idle]
    /\ attach = [g \in Groups |-> {}] /\ dep = [g \in Groups |-> Undeployed]
    /\ mounted = [g \in Groups |-> {}]
    /\ made = 0 /\ deploys = 0 /\ failures = 0

Fault == failures < MaxFailures /\ failures' = failures + 1
At(w, pc) == work[w].pc = pc
Goto(w, pc) == work' = [work EXCEPT ![w].pc = pc]
Done(w) == work' = [work EXCEPT ![w] = Idle]

-----------------------------------------------------------------------------
(* Requests and the workers that take them *)

\* The id of a volume is that of the operation that creates it: there is one.
NewVolume(v) ==
    /\ vol[v] = Absent /\ \A j \in jobs : j.vol # v
    /\ \A w \in Workers : ~(work[w].kind = "create" /\ work[w].vol = v)

Request(v, kind, n) ==
    /\ made < MaxJobs /\ made' = made + 1
    /\ IF kind = "create" THEN NewVolume(v) ELSE vol[v] # Absent
    /\ jobs' = jobs \cup {[vol |-> v, kind |-> kind, size |-> n]}
    /\ UNCHANGED <<vol, disk, work, groups, failures>>

Take(w, j) ==
    /\ At(w, "Idle")
    /\ jobs' = jobs \ {j}
    /\ work' = [work EXCEPT ![w] = [Idle EXCEPT !.pc = "Start", !.kind = j.kind, !.vol = j.vol,
                                                !.size = j.size]]
    /\ UNCHANGED <<vol, disk, groups, made, failures>>

\* The worker dies, or in case "zombie" it only loses the lease; the job is claimed again.
Crash(w) ==
    /\ ~At(w, "Idle") /\ ~work[w].lost /\ work[w].kind \in Kinds /\ Fault
    /\ jobs' = jobs \cup {[vol |-> work[w].vol, kind |-> work[w].kind, size |-> work[w].size]}
    /\ \/ Done(w)
       \/ "zombie" \in Cases /\ work' = [work EXCEPT ![w].lost = TRUE]
    /\ UNCHANGED <<vol, disk, groups, made>>

\* Mutant: a resize in progress counts with the size it comes from.
SizeOnly(v) == vol[v].size
\* COALESCE("pendingSizeBytes", "sizeBytes")
Reserved(v) == IF vol[v].pending > 0 THEN vol[v].pending ELSE vol[v].size

\* SUM of a column over the volumes of S
Total(w, S) == FoldSet(LAMBDA v, sum : sum + w[v], 0, S)

\* assertQuotaAllowsVolumeChange and assertCapacity, v itself excluded
Allowed(v, n) ==
    LET others == Total([u \in Volumes |-> Reserved(u)], Volumes \ {v})
    IN others + n <= Quota /\ others + n <= Capacity

-----------------------------------------------------------------------------
(* createVolume *)

\* Mutant: a creation that finds its row ends.
NeverResumes(v) == FALSE
Resumes(v) == vol[v].status = "Creating"

\* The reservation, or the row of an earlier attempt of this operation.
Create(w) == LET v == work[w].vol IN
    /\ At(w, "Start") /\ work[w].kind = "create"
    /\ \/ /\ vol[v] = Absent /\ Allowed(v, work[w].size)
          /\ vol' = [vol EXCEPT ![v] = [status |-> "Creating", size |-> work[w].size, pending |-> 0]]
          /\ Goto(w, "Provision")
       \/ /\ Resumes(v)
          /\ work' = [work EXCEPT ![w].pc = "Provision", ![w].resumed = TRUE]
          /\ UNCHANGED vol
       \/ /\ ~Resumes(v) /\ (vol[v] = Absent => ~Allowed(v, work[w].size))
          /\ Done(w) /\ UNCHANGED vol
    /\ UNCHANGED <<disk, jobs, groups, made, failures>>

\* Mutant: a resumed creation takes the directory for granted.
ProvisionedBefore(w) ==
    /\ At(w, "Provision")
    /\ disk' = [disk EXCEPT ![work[w].vol] = IF work[w].resumed THEN @ ELSE work[w].size]
    /\ Goto(w, "Finish")
    /\ UNCHANGED <<vol, jobs, groups, made, failures>>

Provision(w) ==
    /\ At(w, "Provision")
    /\ disk' = [disk EXCEPT ![work[w].vol] = work[w].size]
    /\ Goto(w, "Finish")
    /\ UNCHANGED <<vol, jobs, groups, made, failures>>

Finish(w) == LET v == work[w].vol IN
    /\ At(w, "Finish")
    /\ IF vol[v] = Absent
       THEN Goto(w, "Failed") /\ UNCHANGED vol
       ELSE vol' = [vol EXCEPT ![v].status = "Ready"] /\ Done(w)
    /\ UNCHANGED <<disk, jobs, groups, made, failures>>

CreateFails(w) ==
    /\ At(w, "Provision") \/ At(w, "Finish")
    /\ Fault
    /\ Goto(w, "Failed")
    /\ UNCHANGED <<vol, disk, jobs, groups, made>>

\* Only a volume that this attempt has reserved is removed.
CleanUp(w) == ~work[w].resumed

Failed(w) == LET v == work[w].vol IN
    /\ At(w, "Failed")
    /\ IF CleanUp(w)
       THEN /\ disk' = [disk EXCEPT ![v] = 0]
            /\ vol' = [vol EXCEPT ![v] = IF \E g \in Groups : v \in attach[g] THEN @ ELSE Absent]
       ELSE /\ vol' = [vol EXCEPT ![v].status = IF @ = "Absent" THEN @ ELSE "Error"]
            /\ UNCHANGED disk
    /\ Done(w)
    /\ UNCHANGED <<jobs, groups, made, failures>>

\* The directory cannot be removed: the volume stays, in error.
CleanUpFails(w) == LET v == work[w].vol IN
    /\ At(w, "Failed") /\ CleanUp(w) /\ Fault
    /\ vol' = [vol EXCEPT ![v].status = IF @ = "Absent" THEN @ ELSE "Error"]
    /\ Done(w)
    /\ UNCHANGED <<disk, jobs, groups, made>>

-----------------------------------------------------------------------------
(* resizeVolume *)

Resizable(v) == vol[v].pending = 0 /\ vol[v].status \notin {"Creating", "Deleting"}

Resize(w) == LET v == work[w].vol IN
    /\ At(w, "Start") /\ work[w].kind = "resize"
    /\ IF vol[v] # Absent /\ work[w].size > vol[v].size /\ Resizable(v) /\ Allowed(v, work[w].size)
       THEN /\ vol' = [vol EXCEPT ![v].pending = work[w].size, ![v].status = "Resizing"]
            /\ Goto(w, "Grow")
       ELSE Done(w) /\ UNCHANGED vol
    /\ UNCHANGED <<disk, jobs, groups, made, failures>>

Grow(w) ==
    /\ At(w, "Grow") /\ disk[work[w].vol] > 0
    /\ disk' = [disk EXCEPT ![work[w].vol] = work[w].size]
    /\ Goto(w, "Grown")
    /\ UNCHANGED <<vol, jobs, groups, made, failures>>

Grown(w) == LET v == work[w].vol IN
    /\ At(w, "Grown")
    /\ vol' = [vol EXCEPT ![v] = IF @ = Absent THEN @
                                 ELSE [status |-> "Ready", size |-> work[w].size, pending |-> 0]]
    /\ Done(w)
    /\ UNCHANGED <<disk, jobs, groups, made, failures>>

\* Mutant: the volume stays Resizing.
StillResizing(v) == [vol[v] EXCEPT !.pending = 0]
\* failResize of the store: the reservation is given back.
Released(v) == [vol[v] EXCEPT !.status = "Error", !.pending = 0]

\* failResize, before the limit is raised or, in case "verify", after it.
ResizeFails(w) == LET v == work[w].vol IN
    /\ \/ At(w, "Grow") /\ disk[v] = 0 /\ UNCHANGED failures
       \/ At(w, "Grow") /\ Fault
       \/ At(w, "Grown") /\ "verify" \in Cases /\ Fault
    /\ vol' = [vol EXCEPT ![v] = IF @ = Absent THEN @ ELSE Released(v)]
    /\ Done(w)
    /\ UNCHANGED <<disk, jobs, groups, made>>

-----------------------------------------------------------------------------
(* deleteVolume *)

InFlight(g) == dep[g].status \in {"Pending", "Deploying", "RollingBack"}

\* Mutant: only the draft and the current deployment are looked at.
CurrentOnly(v) == \E g \in Groups : dep[g].current # None /\ v \in dep[g].current
\* couldDeploymentStillMountVolume
CouldStillMount(v) ==
    \E g \in Groups :
        \/ InFlight(g)
        \/ /\ dep[g].current # None
           /\ v \in dep[g].current \/ (v \in dep[g].past /\ ~dep[g].observed)

Delete(w) == LET v == work[w].vol IN
    /\ At(w, "Start") /\ work[w].kind = "delete"
    /\ IF /\ vol[v].status \in {"Ready", "Error"}
          /\ \A g \in Groups : v \notin attach[g]
          /\ ~CouldStillMount(v)
       THEN vol' = [vol EXCEPT ![v].status = "Deleting"] /\ Goto(w, "Remove")
       ELSE Done(w) /\ UNCHANGED vol
    /\ UNCHANGED <<disk, jobs, groups, made, failures>>

Remove(w) ==
    /\ At(w, "Remove")
    /\ disk' = [disk EXCEPT ![work[w].vol] = 0]
    /\ Goto(w, "Row")
    /\ UNCHANGED <<vol, jobs, groups, made, failures>>

RemoveFails(w) ==
    /\ At(w, "Remove") /\ Fault
    /\ vol' = [vol EXCEPT ![work[w].vol].status = "Error"]
    /\ Done(w)
    /\ UNCHANGED <<disk, jobs, groups, made>>

\* The row, unless an attachment holds it (onDelete: Restrict).
DeleteRow(w) == LET v == work[w].vol IN
    /\ At(w, "Row")
    /\ vol' = [vol EXCEPT ![v] = IF \E g \in Groups : v \in attach[g] THEN @ ELSE Absent]
    /\ Done(w)
    /\ UNCHANGED <<disk, jobs, groups, made, failures>>

-----------------------------------------------------------------------------
(* Drafts *)

\* Mutant: the volume only has to exist.
AttachAny(v) == vol[v] # Absent
Attachable(v) == vol[v].status = "Ready"

Attach(g, v) ==
    /\ v \notin attach[g] /\ Attachable(v)
    /\ attach' = [attach EXCEPT ![g] = @ \cup {v}]
    /\ UNCHANGED <<vol, disk, jobs, work, dep, mounted, made, deploys, failures>>

Detach(g, v) ==
    /\ v \in attach[g]
    /\ attach' = [attach EXCEPT ![g] = @ \ {v}]
    /\ UNCHANGED <<vol, disk, jobs, work, dep, mounted, made, deploys, failures>>

\* applyManifest creates a group; its volumes are looked up before the transaction and
\* their status is not read.
Resolve(g, v) ==
    /\ "import" \in Cases /\ dep[g] = Undeployed /\ attach[g] = {} /\ vol[v] # Absent
    /\ dep' = [dep EXCEPT ![g].import = v]
    /\ UNCHANGED <<vol, disk, jobs, work, attach, mounted, made, deploys, failures>>

Import(g) ==
    /\ dep[g].import # None
    /\ dep' = [dep EXCEPT ![g].import = None]
    /\ attach' = [attach EXCEPT ![g] = IF vol[dep[g].import] = Absent THEN @ ELSE @ \cup {dep[g].import}]
    /\ UNCHANGED <<vol, disk, jobs, work, mounted, made, deploys, failures>>

-----------------------------------------------------------------------------
(* Deployments *)

\* deployAppGroup reads the draft before its transaction.
ReadDraft(g) ==
    /\ deploys < MaxDeploys /\ deploys' = deploys + 1 /\ ~InFlight(g)
    /\ dep' = [dep EXCEPT ![g].draft = attach[g]]
    /\ UNCHANGED <<vol, disk, jobs, work, attach, mounted, made, failures>>

RequestDeploy(g) ==
    /\ dep[g].draft # None
    /\ dep' = [dep EXCEPT ![g] = IF InFlight(g) THEN [@ EXCEPT !.draft = None]
                ELSE [@ EXCEPT !.draft = None, !.status = "Pending", !.next = dep[g].draft]]
    /\ UNCHANGED <<vol, disk, jobs, work, attach, mounted, made, deploys, failures>>

\* validateVolumes
VolumesReady(g) == \A v \in dep[g].next : vol[v].status = "Ready"

Validate(g) ==
    /\ dep[g].status = "Pending"
    /\ dep' = [dep EXCEPT ![g] = IF VolumesReady(g) THEN [@ EXCEPT !.status = "Deploying"]
                ELSE [@ EXCEPT !.status = "Failed", !.past = dep[g].past \cup dep[g].next]]
    /\ UNCHANGED <<vol, disk, jobs, work, attach, mounted, made, deploys, failures>>

\* New tasks start next to old ones.
Apply(g) ==
    /\ dep[g].status = "Deploying" /\ ~(dep[g].next \subseteq mounted[g])
    /\ mounted' = [mounted EXCEPT ![g] = @ \cup dep[g].next]
    /\ UNCHANGED <<vol, disk, jobs, work, attach, dep, made, deploys, failures>>

\* docker stack deploy fails; in case "partial" after it has updated services.
ApplyFails(g) ==
    /\ dep[g].status = "Deploying" /\ ~(dep[g].next \subseteq mounted[g]) /\ Fault
    /\ dep' = [dep EXCEPT ![g].status = "Failed", ![g].past = @ \cup dep[g].next]
    /\ \/ UNCHANGED mounted
       \/ /\ "partial" \in Cases /\ (dep[g].current = None => "first" \in Cases)
          /\ mounted' = [mounted EXCEPT ![g] = @ \cup dep[g].next]
    /\ UNCHANGED <<vol, disk, jobs, work, attach, made, deploys>>

Converged(g) ==
    /\ dep[g].status = "Deploying" /\ dep[g].next \subseteq mounted[g]
    /\ mounted' = [mounted EXCEPT ![g] = dep[g].next]
    /\ dep' = [dep EXCEPT ![g] = [@ EXCEPT !.status = "Succeeded", !.current = dep[g].next,
                  !.past = dep[g].past \cup (IF dep[g].current = None THEN {} ELSE dep[g].current),
                  !.observed = FALSE]]
    /\ UNCHANGED <<vol, disk, jobs, work, attach, made, deploys, failures>>

\* A rollout that fails is rolled back to the current deployment; in case "first" there
\* is none, and what was applied stays.
RolloutFails(g) ==
    /\ dep[g].status = "Deploying" /\ Fault
    /\ dep[g].current = None => "first" \in Cases
    /\ dep' = [dep EXCEPT ![g].status = IF dep[g].current = None THEN "Failed" ELSE "RollingBack",
                          ![g].past = @ \cup dep[g].next]
    /\ UNCHANGED <<vol, disk, jobs, work, attach, mounted, made, deploys>>

RolledBack(g) ==
    /\ dep[g].status = "RollingBack"
    /\ dep' = [dep EXCEPT ![g].status = "RolledBack"]
    /\ mounted' = [mounted EXCEPT ![g] = dep[g].current]
    /\ UNCHANGED <<vol, disk, jobs, work, attach, made, deploys, failures>>

\* The drift reconciler compares names, images and replicas, which mounts do not change.
Observe(g) ==
    /\ dep[g].current # None /\ ~dep[g].observed
    /\ dep' = [dep EXCEPT ![g].observed = TRUE]
    /\ UNCHANGED <<vol, disk, jobs, work, attach, mounted, made, deploys, failures>>

-----------------------------------------------------------------------------

Worker(w) ==
    \/ Create(w) \/ Provision(w) \/ Finish(w) \/ Failed(w)
    \/ Resize(w) \/ Grow(w) \/ Grown(w)
    \/ Delete(w) \/ Remove(w) \/ DeleteRow(w)

Next ==
    \/ \E v \in Volumes, n \in 1..MaxSize : Request(v, "create", n) \/ Request(v, "resize", n)
    \/ \E v \in Volumes : Request(v, "delete", 1)
    \/ \E w \in Workers : (\E j \in jobs : Take(w, j)) \/ Worker(w) \/ Crash(w)
    \/ \E w \in Workers : CreateFails(w) \/ CleanUpFails(w) \/ ResizeFails(w) \/ RemoveFails(w)
    \/ \E g \in Groups, v \in Volumes : Attach(g, v) \/ Detach(g, v) \/ Resolve(g, v)
    \/ \E g \in Groups : Import(g) \/ ReadDraft(g) \/ RequestDeploy(g) \/ Validate(g)
    \/ \E g \in Groups : Apply(g) \/ ApplyFails(g) \/ Converged(g) \/ RolloutFails(g) \/ RolledBack(g) \/ Observe(g)

Spec == Init /\ [][Next]_vars

\* Workers take the jobs that wait and finish them, the calls in them end.
FairSpec ==
    /\ Spec
    /\ \A w \in Workers : WF_vars(Worker(w)) /\ WF_vars(ResizeFails(w) /\ disk[work[w].vol] = 0)
    /\ WF_vars(\E w \in Workers, j \in jobs : Take(w, j))

-----------------------------------------------------------------------------
(* Properties *)

\* The types of the variables; a size is pending only while a volume is resized.
TypeOK ==
    /\ vol \in [Volumes -> [status : {"Absent", "Creating", "Ready", "Resizing", "Deleting", "Error"},
                            size : 0..MaxSize, pending : 0..MaxSize]]
    /\ \A v \in Volumes : vol[v].pending > 0 => vol[v].status = "Resizing"
    /\ disk \in [Volumes -> 0..MaxSize]
    /\ attach \in [Groups -> SUBSET Volumes] /\ mounted \in [Groups -> SUBSET Volumes]
    /\ failures \in 0..MaxFailures

\* The directory of a volume that a running task mounts is never removed: deleting
\* looks at deployments, not only at the draft (couldDeploymentStillMountVolume).
MountedIsKept == \A g \in Groups : \A v \in mounted[g] : disk[v] > 0

\* A draft never names a volume that is going away (attachVolume, "its status may change
\* before the draft insert").
AttachedIsKept ==
    \A g \in Groups : \A v \in attach[g] : vol[v].status \in {"Ready", "Resizing", "Error"}

\* A Ready volume has its directory with its limit, however often the operation that
\* created it was interrupted and taken again (createVolume).
ReadyHasDirectory == \A v \in Volumes : vol[v].status = "Ready" => disk[v] = vol[v].size

\* What is reserved never exceeds the tenant's quota and the backend, and no directory
\* may hold more than what is reserved for it (assertQuotaAllowsVolumeChange,
\* assertCapacity, failResize).
LimitsAreReserved ==
    /\ Total([v \in Volumes |-> vol[v].size], Volumes) <= Quota
    /\ Total(disk, Volumes) <= Capacity

\* A resize or a deletion whose attempt has gone: the next one refuses the status that it left
\* (deleteVolume, "VolumeNotReadyForDeletion", and reserveResize).
Stranded(v) ==
    /\ vol[v].status \in {"Resizing", "Deleting"}
    /\ \A w \in Workers : work[w].vol = v => work[w].pc \in {"Start", "Provision", "Finish", "Failed"}

\* A volume does not stay in a state that only its own operation leaves, unless it is stranded
\* (VolumeOperationExecutor, the operation that was reclaimed).
NothingIsStuck ==
    \A v \in Volumes : []<>(vol[v].status \in {"Absent", "Ready", "Error"} \/ Stranded(v))

\* Only a crash strands a volume: every error of an attempt gives its status back
\* (failResize, deleteVolume).
OnlyCrashesStrand == \A v \in Volumes : Stranded(v)' /\ ~Stranded(v) => \E w \in Workers : Crash(w)
=============================================================================
