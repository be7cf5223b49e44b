------------------------------- MODULE Runtime ------------------------------
(***************************************************************************)
(* Starting, stopping and restarting one AppGroup: the requests that write *)
(* runtimeState and queue an Operation (AppGroupRuntimeOperationsService), *)
(* the executor that scales Swarm services (RuntimeOperationExecutor), and *)
(* the other writers of either side: deployments and their automatic       *)
(* rollback, discarding a draft, the restore after a disaster.             *)
(*                                                                         *)
(* The row of an Operation is reduced to its phase; a claim that is lost   *)
(* goes back to Pending.  Deployments.tla has the steps of a deployment.   *)
(***************************************************************************)
EXTENDS Naturals, FiniteSets, Sequences

CONSTANTS
    Apps,
    Replicas,       \* desiredReplicas a draft may ask for
    Workers,        \* number of Operations that may execute at one time
    MaxAttempts,    \* of every Operation but SINGLE_APP_RESTART
    MaxOps,         \* bound: Operations queued
    MaxVersion,     \* bound: deployments
    MaxEdits,       \* bound: draft edits, lost claims, discards and blockers
    Types,          \* the Operations a run queues
    None

RuntimeAssumption ==
    /\ Replicas \subseteq Nat /\ Workers \in Nat \ {0} /\ MaxAttempts \in Nat \ {0}
    /\ MaxOps \in Nat /\ MaxVersion \in Nat \ {0} /\ MaxEdits \in Nat
    /\ None \notin Nat

VARIABLES
    running,    \* AppGroup.runtimeState is Running
    app,        \* SingleApp rows: run, pending (pendingDeletion), replicas (the draft)
    deps,       \* AppGroupDeployment by version: run, apps (the snapshot), status
    current,    \* currentDeploymentVersion
    blocked,    \* status, tenant, balance or maintenance block the runtime
    checked,    \* a request passed assertExternalRuntimeUnblocked
    op,         \* Operations in the order of their creation
    swarm,      \* replicas of each Swarm service, None for no service
    edits,
    undone,     \* history: a rollback, a discard or a blocked restore took place
    overlapped  \* history: an Operation or a deployment began while one was open

vars == <<running, app, deps, current, blocked, checked, op, swarm, edits,
          undone, overlapped>>

Groups == {"GroupStart", "GroupStop", "GroupRestart"}
Open == {"Pending", "Executing"}

Rows == [Apps -> [run : BOOLEAN, pending : BOOLEAN, replicas : Replicas]]

Snapshot == [a \in {x \in Apps : ~app[x].pending} |-> app[a]]

\* effectiveReplicas: what an artifact asks of Swarm.
EffectiveReplicas(v) ==
    [a \in Apps |-> IF a \notin DOMAIN deps[v].apps THEN None
                    ELSE IF deps[v].run /\ deps[v].apps[a].run
                         THEN deps[v].apps[a].replicas ELSE 0]

Init ==
    /\ running = TRUE
    /\ \E n \in Replicas :
         app = [a \in Apps |-> [run |-> TRUE, pending |-> FALSE, replicas |-> n]]
    /\ deps = <<[run |-> TRUE, apps |-> app, status |-> "Succeeded"]>>
    /\ current = 1 /\ blocked = FALSE /\ checked = FALSE
    /\ op = <<>> /\ edits = 0
    /\ swarm = EffectiveReplicas(1)
    /\ undone = FALSE /\ overlapped = FALSE

ActiveDeployment == \E v \in 1 .. Len(deps) : deps[v].status = "Active"
OpenOps == {o \in 1 .. Len(op) : op[o].phase \in Open}

-----------------------------------------------------------------------------
(* Requests *)

\* assertExternalRuntimeUnblocked, of start and restart, before the transaction.
Check ==
    /\ ~checked /\ ~blocked
    /\ checked' = TRUE
    /\ UNCHANGED <<running, app, deps, current, blocked, op, swarm, edits, undone,
                   overlapped>>

\* createOperationInTransaction; maxAttempts is 1 for the restart of a SingleApp.
Queue(type, a) ==
    /\ Len(op) < MaxOps /\ type \in Types
    /\ op' = Append(op, [type |-> type, app |-> a, phase |-> "Pending", attempt |-> 0,
                         targets |-> <<>>, failed |-> FALSE, forced |-> 0])
    /\ overlapped' = (overlapped \/ OpenOps # {})
    /\ UNCHANGED undone

\* setAppGroupState; admission has refused or let it pass.
SetGroup(run) ==
    /\ run => checked
    /\ ~ActiveDeployment
    /\ running' = run
    /\ Queue(IF run THEN "GroupStart" ELSE "GroupStop", None)
    /\ checked' = (checked /\ ~run)
    /\ UNCHANGED <<app, deps, current, blocked, swarm, edits>>

\* setSingleAppState
SetApp(a, run) ==
    /\ run => checked
    /\ ~app[a].pending /\ ~ActiveDeployment
    /\ app' = [app EXCEPT ![a].run = run]
    /\ Queue(IF run THEN "AppStart" ELSE "AppStop", a)
    /\ checked' = (checked /\ ~run)
    /\ UNCHANGED <<running, deps, current, blocked, swarm, edits>>

Runs(a) == running /\ app[a].run /\ ~app[a].pending
Runnable(a) == Runs(a) /\ app[a].replicas > 0

\* restartAppGroup
RestartGroup ==
    /\ checked /\ \E a \in Apps : Runnable(a)
    /\ ~ActiveDeployment
    /\ Queue("GroupRestart", None)
    /\ checked' = FALSE
    /\ UNCHANGED <<running, app, deps, current, blocked, swarm, edits>>

RestartOpen(a) == \E o \in OpenOps : op[o].type = "AppRestart" /\ op[o].app = a

\* restartSingleApp; a second request gets the outstanding Operation.
RestartApp(a) ==
    /\ checked /\ Runnable(a) /\ ~ActiveDeployment
    /\ ~RestartOpen(a)
    /\ Queue("AppRestart", a)
    /\ checked' = FALSE
    /\ UNCHANGED <<running, app, deps, current, blocked, swarm, edits>>

-----------------------------------------------------------------------------
(* The executor *)

\* deployedServiceNames: the services of the last succeeded snapshot.
Deployed == DOMAIN deps[current].apps

\* Mutant: the draft is taken for the deployment.
DraftReplicas(a) == app[a].replicas
\* deployedReplicaTarget: a saved draft is not a deployment.
DeployedReplicas(a) == deps[current].apps[a].replicas

\* Mutant: the start of a SingleApp does not look at its group.
TargetOfAppAlone(type, a) ==
    IF type \in {"GroupStop", "AppStop"} \/ ~app[a].run \/ app[a].pending THEN 0
    ELSE DeployedReplicas(a)
\* The replicas a start or stop asks for: stops always ask for none.
Target(type, a) ==
    IF type \in {"GroupStop", "AppStop"} \/ ~Runs(a) THEN 0 ELSE DeployedReplicas(a)

\* The services an Operation touches, with the replicas to set; a restart keeps them.
Targets(o) ==
    IF op[o].type = "GroupRestart" THEN [a \in {x \in Deployed : Runnable(x)} |-> None]
    ELSE IF op[o].type = "AppRestart" THEN [a \in {op[o].app} |-> None]
    ELSE IF op[o].type \in Groups THEN [a \in Deployed |-> Target(op[o].type, a)]
    ELSE [a \in Deployed \cap {op[o].app} |-> Target(op[o].type, op[o].app)]

\* RestartServiceUnavailable and RestartPreconditionChanged, neither retryable.
RestartRefused(o) ==
    op[o].type = "AppRestart" /\ (op[o].app \notin Deployed \/ ~Runnable(op[o].app))

\* execute, up to the first Docker command.
Load(o) ==
    /\ o <= Len(op) /\ op[o].phase = "Pending"
    /\ Cardinality({x \in OpenOps : op[x].phase = "Executing"}) < Workers
    /\ op' = IF RestartRefused(o)
             THEN [op EXCEPT ![o].phase = "Failed", ![o].attempt = @ + 1]
             ELSE [op EXCEPT ![o].phase = "Executing", ![o].attempt = @ + 1,
                             ![o].targets = Targets(o), ![o].failed = FALSE]
    /\ UNCHANGED <<running, app, deps, current, blocked, checked, swarm, edits,
                   undone, overlapped>>

\* One command of scaleServices or restartServices; a command that fails or runs
\* into its timeout may have had its effect.
Command(o, a) ==
    /\ o <= Len(op) /\ op[o].phase = "Executing" /\ a \in DOMAIN op[o].targets
    /\ \E ok, effect \in BOOLEAN :
         LET n == op[o].targets[a]
             left == [x \in DOMAIN op[o].targets \ {a} |-> op[o].targets[x]] IN
         /\ effect => swarm[a] # None
         /\ ok => effect
         /\ swarm' = IF effect /\ n # None THEN [swarm EXCEPT ![a] = n] ELSE swarm
         /\ op' = [op EXCEPT ![o].targets = left,
                             ![o].failed = @ \/ ~ok,
                             ![o].forced = IF effect /\ op[o].type = "AppRestart" THEN @ + 1 ELSE @]
    /\ UNCHANGED <<running, app, deps, current, blocked, checked, edits, undone,
                   overlapped>>

\* Mutant: an unknown outcome is retried like any failed command.
RetryUnknown(o) == op[o].attempt < MaxAttempts
\* assertRuntimeResults and the attempts of the row.
Retryable(o) == op[o].type # "AppRestart" /\ op[o].attempt < MaxAttempts

Finish(o) ==
    /\ o <= Len(op) /\ op[o].phase = "Executing" /\ DOMAIN op[o].targets = {}
    /\ op' = [op EXCEPT ![o].phase = IF ~op[o].failed THEN "Succeeded"
                                     ELSE IF Retryable(o) THEN "Pending" ELSE "Failed"]
    /\ UNCHANGED <<running, app, deps, current, blocked, checked, swarm, edits,
                   undone, overlapped>>

\* The worker dies, or loses its lease, between two commands.
Crash(o) ==
    /\ o <= Len(op) /\ op[o].phase = "Executing" /\ edits < MaxEdits
    /\ edits' = edits + 1
    /\ op' = [op EXCEPT ![o].phase = IF Retryable(o) THEN "Pending" ELSE "Failed"]
    /\ UNCHANGED <<running, app, deps, current, blocked, checked, swarm, undone,
                   overlapped>>

-----------------------------------------------------------------------------
(* The other writers *)

\* A draft edit: new replicas, or pendingDeletion.
Edit(a) ==
    /\ edits < MaxEdits /\ ~app[a].pending
    /\ edits' = edits + 1
    /\ \/ \E n \in Replicas : app' = [app EXCEPT ![a].replicas = n]
       \/ app' = [app EXCEPT ![a].pending = TRUE]
    /\ UNCHANGED <<running, deps, current, blocked, checked, op, swarm, undone, overlapped>>

Block ==
    /\ edits < MaxEdits /\ edits' = edits + 1
    /\ blocked' = ~blocked
    /\ UNCHANGED <<running, app, deps, current, checked, op, swarm, undone, overlapped>>

\* A deployment is requested; its snapshot has the runtime states.
Deploy ==
    /\ Len(deps) < MaxVersion /\ ~ActiveDeployment /\ DOMAIN Snapshot # {}
    /\ deps' = Append(deps, [run |-> running, apps |-> Snapshot, status |-> "Active"])
    /\ overlapped' = (overlapped \/ OpenOps # {})
    /\ UNCHANGED <<running, app, current, blocked, checked, op, swarm, edits, undone>>

\* Its stack is applied and the rollout succeeds.
Succeed ==
    /\ ActiveDeployment
    /\ deps' = [deps EXCEPT ![Len(deps)].status = "Succeeded"]
    /\ swarm' = EffectiveReplicas(Len(deps))
    /\ current' = Len(deps)
    /\ UNCHANGED <<running, app, blocked, checked, op, edits, undone, overlapped>>

\* The rollout fails: the artifact of the newest succeeded version is applied again.
RollBack ==
    /\ ActiveDeployment
    /\ LET target == CHOOSE v \in 1 .. Len(deps) - 1 :
                        /\ deps[v].status = "Succeeded"
                        /\ \A w \in v + 1 .. Len(deps) - 1 : deps[w].status # "Succeeded"
       IN /\ swarm' = EffectiveReplicas(target)
          /\ current' = target
    /\ deps' = [deps EXCEPT ![Len(deps)].status = "RolledBack"]
    /\ undone' = TRUE
    /\ UNCHANGED <<running, app, blocked, checked, op, edits, overlapped>>

\* discard of the draft: the rows take the runtime states of the snapshot.
Discard ==
    /\ edits < MaxEdits /\ edits' = edits + 1
    /\ ~ActiveDeployment
    /\ running' = deps[current].run
    /\ app' = [a \in Apps |-> IF a \in Deployed THEN deps[current].apps[a]
                              ELSE [app[a] EXCEPT !.pending = TRUE]]
    /\ undone' = TRUE
    /\ UNCHANGED <<deps, current, blocked, checked, op, swarm, overlapped>>

\* Mutant: the restore applies the artifact as it was rendered.
RestoreArtifact == EffectiveReplicas(current)
\* runtimeSafeRestoreArtifact
RestoreReplicas ==
    [a \in Apps |-> IF a \notin Deployed THEN None
                    ELSE IF blocked \/ ~Runs(a) THEN 0 ELSE DeployedReplicas(a)]

\* RuntimeRestoreService, which the disaster recovery runs while no worker does.
Restore ==
    /\ OpenOps = {} /\ ~ActiveDeployment /\ edits < MaxEdits
    /\ edits' = edits + 1
    /\ swarm' = RestoreReplicas
    /\ undone' = (undone \/ blocked)
    /\ UNCHANGED <<running, app, deps, current, blocked, checked, op, overlapped>>

Next ==
    \/ Check \/ RestartGroup \/ Block \/ Deploy \/ Succeed \/ RollBack \/ Discard \/ Restore
    \/ \E run \in BOOLEAN : SetGroup(run) \/ \E a \in Apps : SetApp(a, run)
    \/ \E a \in Apps : RestartApp(a) \/ Edit(a)
    \/ \E o \in 1 .. MaxOps :
         Load(o) \/ Finish(o) \/ Crash(o) \/ \E a \in Apps : Command(o, a)

Spec == Init /\ [][Next]_vars

-----------------------------------------------------------------------------
\* The types of the variables.
TypeOK ==
    /\ running \in BOOLEAN /\ app \in Rows /\ blocked \in BOOLEAN /\ checked \in BOOLEAN
    /\ current \in 1 .. Len(deps) /\ Len(deps) <= MaxVersion
    /\ Len(op) <= MaxOps
    /\ \A o \in 1 .. Len(op) :
         /\ op[o].phase \in Open \cup {"Succeeded", "Failed"}
         /\ op[o].attempt \in 0 .. MaxAttempts
         /\ DOMAIN op[o].targets \subseteq Apps
    /\ swarm \in [Apps -> Replicas \cup {0, None}]
    /\ edits \in 0 .. MaxEdits /\ undone \in BOOLEAN /\ overlapped \in BOOLEAN

AllSucceeded == ~ActiveDeployment /\ \A o \in 1 .. Len(op) : op[o].phase = "Succeeded"

\* Stop is final: with one worker, whatever the order in which queued starts, stops
\* and retries execute, nothing of a stopped group or SingleApp is left running once
\* every Operation has succeeded.
StopIsFinal ==
    Workers = 1 /\ AllSucceeded /\ ~undone =>
        \A a \in Apps : ~(running /\ app[a].run) => swarm[a] \in {0, None}

\* Requests that do not overlap leave Swarm at what the rows say, and a start gives
\* each service the replicas of the last succeeded snapshot, which is what capacity
\* was reserved for, whatever the draft has become.
SettledIsDeployed ==
    AllSucceeded /\ ~undone /\ ~overlapped =>
        \A a \in Deployed : ~app[a].pending =>
            swarm[a] = IF running /\ app[a].run THEN deps[current].apps[a].replicas ELSE 0

\* A SingleApp is forced to restart at most once per Operation, although the worker
\* may die or time out after the command took effect, and no second restart of it
\* is queued while one is outstanding.
RestartForcedOnce ==
    /\ \A o \in 1 .. Len(op) : op[o].forced <= 1
    /\ \A o, p \in OpenOps : op[o].type = "AppRestart" /\ op[p].type = "AppRestart"
                             /\ op[o].app = op[p].app => o = p

=============================================================================
