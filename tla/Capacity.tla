------------------------------- MODULE Capacity -------------------------------
(***************************************************************************)
(* Admission to the Swarm's capacity: a deployment or a start is admitted in   *)
(* one transaction, under a lock, against what the other groups may occupy.     *)
(* CPU is always counted as reserved; in Hybrid mode memory is judged by the    *)
(* worker's telemetry, and as reserved whenever that cannot be used.             *)
(* A group is an app; a replica takes one CPU, has a memory limit and needs one   *)
(* unit of memory; one node.                                                       *)
(***************************************************************************)
EXTENDS Naturals, FiniteSets, Sequences

CONSTANTS
    Groups,
    Shapes(_),    \* what a group can deploy: [n |-> replicas, mem |-> limit of each]
    Cpus, Memory, \* what the node has
    Reserve,      \* policy: memory that Hybrid keeps free
    Cases,        \* windows that are open, see the README
    MaxDeploys(_), \* bound: deployments of a group
    MaxEvents,    \* bound: stops, changes of the policy and failures of the telemetry
    None

CapacityAssumption ==
    /\ \A s \in UNION {Shapes(h) : h \in Groups} : s.n \in Nat /\ s.mem \in Nat \ {0}
    /\ Cpus \in Nat /\ Memory \in Nat /\ Reserve \in 0..Memory
    /\ \A g \in Groups : MaxDeploys(g) \in Nat /\ MaxEvents \in Nat
    /\ Cases \subseteq {"failure", "explicit", "revive", "stop", "warmup"}

VARIABLES
    deps,       \* deployments of each group by version: what they deploy, their status
    running,    \* AppGroup.runtimeState
    actual,     \* SingleApp.actualReplicas, as last observed
    live,       \* what the tasks of each group take of the node: replicas and memory limits
    queued,     \* groups with a start or stop in the queue
    evidence,   \* the telemetry the worker published: None, or the replicas and memory it saw
    stored,     \* the mode in the database
    known,      \* the mode in the memory of the API process that admits; there are others
    how,        \* how the last request was admitted
    loose,      \* groups with tasks of a rollout that failed
    events

vars == <<deps, running, actual, live, queued, evidence, stored, known, how, loose, events>>

Modes == {"Strict", "Hybrid"}
Nothing == [n |-> 0, mem |-> 0]
None0 == [by |-> "None", group |-> None, need |-> Nothing]

Init ==
    /\ deps = [g \in Groups |-> <<>>]
    /\ running = [g \in Groups |-> FALSE]
    /\ actual = [g \in Groups |-> 0] /\ live = [g \in Groups |-> Nothing]
    /\ queued = {} /\ evidence = None
    /\ stored = "Hybrid" /\ known = "Hybrid"
    /\ how = None0 /\ loose = {} /\ events = 0

-----------------------------------------------------------------------------
(* What is reserved *)

Max(a, b) == IF a > b THEN a ELSE b
Join(a, b) == [n |-> Max(a.n, b.n), mem |-> Max(a.mem, b.mem)]
Of(shape, replicas) == [n |-> replicas, mem |-> replicas * shape.mem]

Versions(g, status) == {v \in 1..Len(deps[g]) : deps[g][v].status = status}
Latest(S) == CHOOSE v \in S : \A w \in S : w <= v
Active(g) == Versions(g, "Pending") \cup Versions(g, "Admitted") \cup Versions(g, "Applied")
                 \cup Versions(g, "RollingBack")
\* Admission counts a deployment from its admission on (ADMITTED_PHASES).
InFlight(g) == Versions(g, "Admitted") \cup Versions(g, "Applied")
Succeeded(g) == Versions(g, "Succeeded")
Deployed(g) == deps[g][Latest(Succeeded(g))].shape

\* snapshotDemand
SnapshotDemand(d) == IF d.runs THEN Of(d.shape, d.shape.n) ELSE Nothing

\* succeededRuntimeDemand: tasks that were observed count until they are seen to be gone.
Replicas(shape, runs, observed) == IF runs THEN Max(shape.n, observed) ELSE observed
RuntimeDemand(g) == Of(Deployed(g), Replicas(Deployed(g), running[g], actual[g]))

\* Mutant: a deployment releases what its predecessor has when it is admitted.
OnlyNew(new, old) == new
\* occupiedCapacity: both stacks can be live during a rollout.
Both(new, old) == Join(new, old)
Occupied(g) ==
    IF InFlight(g) # {}
    THEN LET new == SnapshotDemand(deps[g][Latest(InFlight(g))]) IN
         IF Succeeded(g) # {} THEN Both(new, RuntimeDemand(g)) ELSE new
    ELSE IF Succeeded(g) # {} THEN RuntimeDemand(g) ELSE Nothing

\* The sum of f over a set of groups.
Total(f, S) ==
    LET part[T \in SUBSET S] ==
            IF T = {} THEN 0 ELSE LET g == CHOOSE g \in T : TRUE IN f[g] + part[T \ {g}]
    IN part[S]
Cpu(of, S) == Total([g \in S |-> of[g].n], S)
Mem(of, S) == Total([g \in S |-> of[g].mem], S)

\* projectedCapacityFits, against the other groups
Others(g) == Groups \ {g}
CpuFits(g, demand) == Cpu([h \in Others(g) |-> Occupied(h)], Others(g)) + demand.n <= Cpus
MemoryFits(g, demand) == Mem([h \in Others(g) |-> Occupied(h)], Others(g)) + demand.mem <= Memory

-----------------------------------------------------------------------------
(* What the telemetry predicts *)

\* currentRunningApps
\* What was never deployed has what was last requested, or nothing.
Draft(g) == LET V == {v \in 1..Len(deps[g]) : deps[g][v].target = 0} IN
            IF V = {} THEN [n |-> 0, mem |-> 1] ELSE deps[g][Latest(V)].shape
Shape(g) == IF Succeeded(g) = {} THEN Draft(g) ELSE Deployed(g)
RunningReplicas(g) == IF running[g] THEN Max(actual[g], Shape(g).n) ELSE 0

\* scalePrediction: a history is scaled to the replicas, up to their limit; without one it is the limit.
Scale(g, replicas, shape) ==
    LET limit == replicas * shape.mem
        seen == evidence.apps[g]
        scaled == (seen.predicted * replicas + seen.n - 1) \div seen.n IN
    IF seen.n = 0 \/ seen.predicted = 0 THEN limit ELSE IF scaled < limit THEN scaled ELSE limit
Predicted(g) == Scale(g, RunningReplicas(g), Shape(g))

\* incrementalPrediction of a group that is to run so
Increment(g, shape) ==
    LET target == IF RunningReplicas(g) = 0 THEN shape.n * shape.mem ELSE Scale(g, shape.n, shape) IN
    IF RunningReplicas(g) = 0 THEN target ELSE IF target > Predicted(g) THEN target - Predicted(g) ELSE 0

\* Mutant: replicas that were not seen yet are trusted like the others.
AlwaysMature(g) == evidence.apps[g].n > 0
\* What was not seen with all its replicas has no confidence.
Mature(g) == evidence.apps[g].n >= RunningReplicas(g)

\* correlatedExistingDemand, with confidence all or none: the profile of the node once all apps are
\* known, the sum of their predictions otherwise.
Existing ==
    LET apps == {g \in Groups : RunningReplicas(g) > 0}
        sum == Total([g \in apps |-> Predicted(g)], apps) IN
    IF apps # {} /\ \A g \in apps : Mature(g) THEN evidence.used ELSE Max(sum, evidence.used)

InFlightPredicted(g) ==
    LET S == {h \in Others(g) : InFlight(h) # {} /\ deps[h][Latest(InFlight(h))].runs} IN
    Total([h \in S |-> Increment(h, deps[h][Latest(InFlight(h))].shape)], S)

\* evaluateHybridNodeAdmission
HybridFits(g, shape, runs) ==
    (Existing - evidence.used) + (IF runs THEN Increment(g, shape) ELSE 0) + InFlightPredicted(g) + Reserve
        <= Memory - evidence.used

\* persistedAdmissionEvidence: whole, well formed and fresh
Fresh == evidence # None

\* Mutant: a process follows the mode it knows.
ByMemory == known = "Hybrid" /\ Fresh
\* fitAdmission, evaluateAdmission: the mode is read again before Hybrid is used.
UsesHybrid == known = "Hybrid" /\ stored = "Hybrid" /\ Fresh

\* fitAdmission ; the mode is learned when the telemetry is looked at
Admitted(g, shape, runs, demand) ==
    /\ CpuFits(g, demand)
    /\ IF UsesHybrid THEN HybridFits(g, shape, runs) ELSE MemoryFits(g, demand)
Learns == known' = IF known = "Hybrid" THEN stored ELSE known
By(g, demand) == how' = [by |-> IF UsesHybrid THEN "Hybrid" ELSE "Strict", group |-> g, need |-> demand]

-----------------------------------------------------------------------------
(* Deployments *)

Set(g, v, status) == deps' = [deps EXCEPT ![g][v].status = status]
Pending(g) == Latest(Versions(g, "Pending"))

Request(g) ==
    /\ Active(g) = {} /\ Len(deps[g]) < MaxDeploys(g)
    /\ \E s \in Shapes(g) : deps' = [deps EXCEPT ![g] =
           Append(@, [shape |-> s, runs |-> running[g], status |-> "Pending", target |-> 0])]
    /\ how' = None0
    /\ UNCHANGED <<running, actual, live, queued, evidence, stored, known, events, loose>>

\* rollbackDeployment deploys the snapshot of an earlier version.
RequestRollback(g) ==
    /\ "explicit" \in Cases
    /\ Active(g) = {} /\ Len(deps[g]) < MaxDeploys(g)
    /\ \E v \in Succeeded(g) : deps' = [deps EXCEPT ![g] = Append(@, [deps[g][v] EXCEPT !.status = "Pending", !.target = v])]
    /\ how' = None0
    /\ UNCHANGED <<running, actual, live, queued, evidence, stored, known, events, loose>>

\* A rollout that fails gives its reservation back before its tasks are gone.
NoWindow == "failure" \in Cases \/ loose = {}

\* admitDeployment
DeploymentFits(g) == LET d == deps[g][Pending(g)] IN Admitted(g, d.shape, d.runs, SnapshotDemand(d))
\* advanceDeployment, admitAndAdvance
Admit(g) ==
    /\ Versions(g, "Pending") # {} /\ NoWindow
    /\ IF DeploymentFits(g)
       THEN Set(g, Pending(g), "Admitted") /\ By(g, SnapshotDemand(deps[g][Pending(g)]))
       ELSE Set(g, Pending(g), "Failed") /\ how' = None0
    /\ Learns
    /\ UNCHANGED <<running, actual, live, queued, evidence, stored, events, loose>>

\* The stack is applied: old and new tasks are there.
Apply(g) ==
    \E v \in Versions(g, "Admitted") :
        /\ Set(g, v, "Applied")
        /\ live' = [live EXCEPT ![g] = Join(@, SnapshotDemand(deps[g][v]))]
        /\ how' = None0
        /\ UNCHANGED <<running, actual, queued, evidence, stored, known, events, loose>>

\* waitForRollout, with the observation that follows unless it fails
Succeed(g, observed) ==
    \E v \in Versions(g, "Applied") :
        /\ Set(g, v, IF deps[g][v].target = 0 THEN "Succeeded" ELSE "RolledBack")
        /\ live' = [live EXCEPT ![g] = SnapshotDemand(deps[g][v])]
        /\ actual' = [actual EXCEPT ![g] = IF observed THEN SnapshotDemand(deps[g][v]).n ELSE @]
        /\ loose' = loose \ {g} /\ how' = None0
        /\ UNCHANGED <<running, queued, evidence, stored, known, events>>

\* rollbackAfterRuntimeFailure. The earlier snapshot says whether the group was running then.
Revives(g) == Succeeded(g) # {} /\ deps[g][Latest(Succeeded(g))].runs /\ ~running[g]
Fail(g) ==
    \E v \in Versions(g, "Applied") :
        /\ "revive" \in Cases \/ ~Revives(g)
        /\ Set(g, v, IF Succeeded(g) = {} THEN "Failed" ELSE "RollingBack")
        /\ loose' = loose \cup {g} /\ how' = None0
        /\ UNCHANGED <<running, actual, live, queued, evidence, stored, known, events>>
RolledBack(g, ok) ==
    \E v \in Versions(g, "RollingBack") :
        /\ Set(g, v, IF ok THEN "RolledBack" ELSE "RollbackFailed")
        /\ live' = [live EXCEPT ![g] = IF ok THEN SnapshotDemand(deps[g][Latest(Succeeded(g))]) ELSE @]
        /\ loose' = (IF ok THEN loose \ {g} ELSE loose) /\ how' = None0
        /\ UNCHANGED <<running, actual, queued, evidence, stored, known, events>>

Deployment ==
    \/ \E g \in Groups : Request(g)
    \/ \E g \in Groups : RequestRollback(g)
    \/ \E g \in Groups : Admit(g) \/ Apply(g) \/ Fail(g)
    \/ \E g \in Groups, b \in BOOLEAN : Succeed(g, b) \/ RolledBack(g, b)

-----------------------------------------------------------------------------
(* Starts and stops *)

Event == events < MaxEvents /\ events' = events + 1 /\ how' = None0

\* runtimeStartAdmissionSnapshot
ToStart(g) == [Deployed(g) EXCEPT !.n = Replicas(Deployed(g), TRUE, actual[g])]
\* admitRuntimeStart: a group without a deployment has nothing to start.
Start(g) ==
    /\ Active(g) = {} /\ ~running[g] /\ NoWindow
    /\ \/ Succeeded(g) = {} /\ how' = None0 /\ UNCHANGED known
       \/ /\ Succeeded(g) # {}
          /\ LET s == ToStart(g) IN Admitted(g, s, TRUE, Of(s, s.n)) /\ By(g, Of(s, s.n))
          /\ Learns
    /\ running' = [running EXCEPT ![g] = TRUE] /\ queued' = queued \cup {g}
    /\ UNCHANGED <<deps, actual, live, evidence, stored, events, loose>>

\* Tasks that were not observed yet are not counted once the group is stopped.
Stop(g) ==
    /\ Event /\ Active(g) = {} /\ running[g]
    /\ "stop" \in Cases \/ (actual[g] = live[g].n /\ g \notin queued)
    /\ running' = [running EXCEPT ![g] = FALSE] /\ queued' = queued \cup {g}
    /\ UNCHANGED <<deps, actual, live, evidence, stored, known, loose>>

\* RuntimeOperationExecutor
Execute(g) ==
    /\ g \in queued /\ InFlight(g) = {}
    /\ queued' = queued \ {g}
    /\ live' = [live EXCEPT ![g] =
           IF running[g] /\ Succeeded(g) # {} THEN Of(Deployed(g), Deployed(g).n) ELSE Nothing]
    /\ loose' = loose \ {g} /\ how' = None0
    /\ UNCHANGED <<deps, running, actual, evidence, stored, known, events>>

\* RuntimeDriftReconcilerService
Observe(g) ==
    /\ Succeeded(g) # {} /\ actual[g] # live[g].n
    /\ actual' = [actual EXCEPT ![g] = live[g].n] /\ how' = None0
    /\ UNCHANGED <<deps, running, live, queued, evidence, stored, known, events, loose>>

Runtime ==
    \/ \E g \in Groups : Start(g) \/ Stop(g) \/ Execute(g) \/ Observe(g)

-----------------------------------------------------------------------------
(* Telemetry and policy *)

\* probeSwarmNodeCapacity: the tasks of a group whose cgroups were read, over all nodes
Probed(g) == live[g].n
\* observeNow: a sample must show the replicas that were observed, and no others.
Complete == \A g \in Groups : Probed(g) = (IF running[g] THEN actual[g] ELSE 0)

\* predictAppMemory: what was used, at most. A history of fewer replicas, or of replicas that have
\* just started, predicts less than they will need.
Seen(g) == IF "warmup" \in Cases THEN 1..Probed(g) ELSE {Probed(g)}
Sample ==
    /\ Complete
    /\ \E predicted \in [Groups -> 0..3] :
        /\ \A g \in Groups : predicted[g] \in IF Probed(g) = 0 THEN {0} ELSE Seen(g)
        /\ evidence' = [apps |-> [g \in Groups |-> [n |-> Probed(g), predicted |-> predicted[g]]],
                        used |-> Total(predicted, Groups)]
    /\ evidence' # evidence /\ how' = None0
    /\ UNCHANGED <<deps, running, actual, live, queued, stored, known, events, loose>>

\* invalidatePublishedAdmissionEvidence, or the evidence is too old
Invalidate ==
    /\ Event /\ evidence # None
    /\ evidence' = None
    /\ UNCHANGED <<deps, running, actual, live, queued, stored, known, loose>>

\* updatePolicy, in this process or in another one
SetMode(m, here) ==
    /\ Event /\ stored # m
    /\ stored' = m /\ known' = IF here THEN m ELSE known
    /\ UNCHANGED <<deps, running, actual, live, queued, evidence, loose>>

\* diagnostics
Diagnostics ==
    /\ known # stored /\ known' = stored /\ how' = None0
    /\ UNCHANGED <<deps, running, actual, live, queued, evidence, stored, events, loose>>

Telemetry == Sample \/ Invalidate \/ Diagnostics \/ \E m \in Modes, b \in BOOLEAN : SetMode(m, b)

Next == Deployment \/ Runtime \/ Telemetry

Spec == Init /\ [][Next]_vars

-----------------------------------------------------------------------------
TypeOK ==
    /\ \A g \in Groups : /\ Cardinality(Active(g)) <= 1
                         /\ \A v \in 1..Len(deps[g]) : deps[g][v].shape \in Shapes(g)
    /\ stored \in Modes /\ known \in Modes
    /\ queued \subseteq Groups /\ loose \subseteq Groups /\ events \in 0..MaxEvents

\* What a group may take: what its tasks take, and what it was admitted for.
Promised(g) ==
    Join(IF running[g] /\ Succeeded(g) # {} THEN Of(Deployed(g), Deployed(g).n) ELSE Nothing,
         IF InFlight(g) # {} THEN SnapshotDemand(deps[g][Latest(InFlight(g))]) ELSE Nothing)
May(g) == Join(live[g], Promised(g))
CpuOfAll == Cpu([g \in Groups |-> IF how.group = g THEN Promised(g) ELSE May(g)], Groups)
MemoryWithOthers == how.need.mem + Mem([g \in Others(how.group) |-> May(g)], Others(how.group))

\* Whatever was admitted, the CPUs are there for it and for every task of the other groups, and so is the
\* memory of all limits if it was admitted as reserved (fitAdmission, occupiedCapacity).
AdmittedFits ==
    how.by # "None" =>
        /\ CpuOfAll <= Cpus
        /\ how.by = "Strict" => MemoryWithOthers <= Memory

\* What Hybrid admitted leaves the reserve free when all that is to run takes the memory it needs
\* (evaluateAdmission, correlatedExistingDemand).
HybridKeepsReserve ==
    how.by = "Hybrid" => Total([g \in Groups |-> Promised(g).n], Groups) + Reserve <= Memory

\* Nothing is admitted by Hybrid once an administrator has chosen Strict, in any process (evaluateAdmission).
StrictIsFollowed == how.by = "Hybrid" => stored = "Hybrid"
=============================================================================
