--------------------------- MODULE MCApplications ---------------------------
(***************************************************************************)
(* The components that act on the applications of a tenant: drafts, starts *)
(* and stops, GPUs and volumes. They are modelled without shared           *)
(* variables, so one run checks them all: in a behaviour one of them,      *)
(* focus, moves.                                                           *)
(***************************************************************************)
EXTENDS Gpu, Naturals, FiniteSets, TLC

CONSTANTS
    a1, a2, b1, c1, c2,
    \* Clients
    Ids, KindOf(_), Actors, MaxCalls, MaxFaults

VARIABLES
    focus,      \* the component that moves
    \* Drafts
    quota, app, dirty, rev, draftsCurrent, active, missed, call, lock, writes,
    \* Bindings
    bindingsRow, attached, bindingsDirty, bindingsRev, bindingsCurrent, bindingsActive,
    bindingsMissed, object, running, bindingsCall, bindingsWrites,
    \* Runtime
    runtimeRunning, runtimeApp, deps, runtimeCurrent, blocked, checked, op,
    runtimeSwarm, edits, undone, overlapped,
    \* Gpu
    gpuNodeRow, gpuNodeRun, gpuNodeGroup, gpuNodeOwner, gpuNodeObserved,
    gpuNodeAttempts, gpuNodeGood, gpuNodeCurrent, gpuNodeDep, gpuNodeService,
    gpuNodeTasks, gpuNodeDel, gpuNodeRec, gpuNodeWorks, gpuNodeReady, gpuNodeDeploys,
    gpuNodeEvents,
    \* Volumes
    vol, disk, jobs, work, attach, mountsDep, mounted, made, mountsDeploys, failures,
    \* Volumes
    storageVol, storageDisk, storageJobs, storageWork, storageAttach, storageDep,
    storageMounted, storageMade, storageDeploys, storageFailures,
    \* Clients
    clientsRow, remote, level, clientsCall, stray, told, clientsMade, clientsEvents,
    \* Artifacts
    conf, status, text, digest, release, renderingsWork, renderingsCurrent,
    renderingsMade, stack, applied, verified, node, renderingsEvents,
    \* Endpoints
    port, domain, routesEnv, pending, routesDirty, routesCurrent, routesActive,
    routesMissed, routesCall, routesWrites,
    \* Endpoints
    variablesPort, variablesDomain, variablesEnv, variablesPending, variablesDirty,
    variablesCurrent, variablesActive, variablesMissed, variablesCall, variablesWrites

draftsVars == <<quota, app, dirty, rev, draftsCurrent, active, missed, call, lock, writes>>
bindingsVars ==
    <<bindingsRow, attached, bindingsDirty, bindingsRev, bindingsCurrent,
      bindingsActive, bindingsMissed, object, running, bindingsCall, bindingsWrites>>
runtimeVars ==
    <<runtimeRunning, runtimeApp, deps, runtimeCurrent, blocked, checked, op,
      runtimeSwarm, edits, undone, overlapped>>
gpuNodeVars ==
    <<gpuNodeRow, gpuNodeRun, gpuNodeGroup, gpuNodeOwner, gpuNodeObserved,
      gpuNodeAttempts, gpuNodeGood, gpuNodeCurrent, gpuNodeDep, gpuNodeService,
      gpuNodeTasks, gpuNodeDel, gpuNodeRec, gpuNodeWorks, gpuNodeReady, gpuNodeDeploys,
      gpuNodeEvents>>
mountsVars ==
    <<vol, disk, jobs, work, attach, mountsDep, mounted, made, mountsDeploys, failures>>
storageVars ==
    <<storageVol, storageDisk, storageJobs, storageWork, storageAttach, storageDep,
      storageMounted, storageMade, storageDeploys, storageFailures>>
clientsVars ==
    <<clientsRow, remote, level, clientsCall, stray, told, clientsMade, clientsEvents>>
renderingsVars ==
    <<conf, status, text, digest, release, renderingsWork, renderingsCurrent,
      renderingsMade, stack, applied, verified, node, renderingsEvents>>
routesVars ==
    <<port, domain, routesEnv, pending, routesDirty, routesCurrent, routesActive,
      routesMissed, routesCall, routesWrites>>
variablesVars ==
    <<variablesPort, variablesDomain, variablesEnv, variablesPending, variablesDirty,
      variablesCurrent, variablesActive, variablesMissed, variablesCall, variablesWrites>>
systemVars ==
    <<focus,
      draftsVars, bindingsVars, runtimeVars, vars, gpuNodeVars, mountsVars, storageVars,
      clientsVars, renderingsVars, routesVars, variablesVars>>

\* Drafts: two groups, of two apps and of one
GroupOfApp(a) == IF a = b1 THEN "g2" ELSE "g1"
KindOfClient(c) == IF c = "app" THEN "application" ELSE "identity"
\* Bindings: a secret, a config, and a registry with a variable
KindOfItem(i) == CASE i = "s" -> "Secret" [] i = "c" -> "Config" [] i = "v" -> "Variable" [] OTHER -> "Registry"
\* Endpoints: one of each of two groups
GroupOfEndpoint(e) == IF e = "e2" THEN "g2" ELSE "g1"
\* Artifacts: a published app, one with a volume, and none
Snapshot(on, web, other, values) == [on |-> on, apps |-> ("web" :> web @@ "db" :> other), values |-> values, more |-> 0]
Web == [on |-> TRUE, host |-> TRUE, uses |-> {"s"}, vol |-> FALSE]
Db == [on |-> TRUE, host |-> FALSE, uses |-> {"c"}, vol |-> TRUE]
NoApp == [on |-> FALSE, host |-> FALSE, uses |-> {}, vol |-> FALSE]
Snapshots == {Snapshot(TRUE, Web, Db, "None"), Snapshot(FALSE, Web, NoApp, "None"), Snapshot(FALSE, Web, NoApp, "Clear")}
Older == {[conf |-> Snapshot(FALSE, Web, NoApp, "Clear"), text |-> 1, digest |-> 0],
          [conf |-> Snapshot(TRUE, Web, Db, "Clear"), text |-> 0, digest |-> 0],
          [conf |-> Snapshot(TRUE, Web, NoApp, "Protected"), text |-> 1, digest |-> 0]}

Drafts == INSTANCE Drafts WITH
    Groups <- {"g1", "g2"}, Apps <- {a1, a2, b1}, GroupOf <- GroupOfApp,
    Callers <- {c1, c2}, MaxSize <- 2, Cases <- {}, MaxWrites <- 3,
    current <- draftsCurrent
ASSUME DraftsConstants == Drafts!DraftsAssumption
Bindings == INSTANCE Bindings WITH
    Items <- {"s", "c"}, KindOf <- KindOfItem, Contents <- {1, 2}, Good <- {1},
    Callers <- {"c1"}, Cases <- {}, MaxVersion <- 2, MaxWrites <- 5, row <- bindingsRow,
    dirty <- bindingsDirty, rev <- bindingsRev, current <- bindingsCurrent,
    active <- bindingsActive, missed <- bindingsMissed, call <- bindingsCall,
    writes <- bindingsWrites
ASSUME BindingsConstants == Bindings!BindingsAssumption
\* A registry and a variable.
Registries == INSTANCE Bindings WITH
    Items <- {"r", "v"}, KindOf <- KindOfItem, Contents <- {1, 2}, Good <- {1},
    Callers <- {"c1"}, Cases <- {}, MaxVersion <- 2, MaxWrites <- 5, row <- bindingsRow,
    dirty <- bindingsDirty, rev <- bindingsRev, current <- bindingsCurrent,
    active <- bindingsActive, missed <- bindingsMissed, call <- bindingsCall,
    writes <- bindingsWrites
\* Starts and stops of an app and its group.
Runtime == INSTANCE Runtime WITH
    Apps <- {b1}, Replicas <- {1, 2}, Workers <- 1, MaxAttempts <- 1, MaxOps <- 2,
    MaxVersion <- 2, MaxEdits <- 1,
    Types <- {"GroupStart", "GroupStop", "AppStart", "AppStop"},
    running <- runtimeRunning, app <- runtimeApp, current <- runtimeCurrent,
    swarm <- runtimeSwarm
ASSUME RuntimeConstants == Runtime!RuntimeAssumption
\* Restarts of two apps and their group.
Restarts == INSTANCE Runtime WITH
    Apps <- {a1, a2}, Replicas <- {1}, Workers <- 1, MaxAttempts <- 2, MaxOps <- 2,
    MaxVersion <- 1, MaxEdits <- 1, Types <- {"AppRestart", "GroupRestart", "AppStop"},
    running <- runtimeRunning, app <- runtimeApp, current <- runtimeCurrent,
    swarm <- runtimeSwarm
ASSUME GpuAssumption
\* The driver fails or the node drains.
GpuNode == INSTANCE Gpu WITH
    Apps <- {b1}, Gpus <- {"gpu"}, Quota <- 1, MaxDeploys <- 2, MaxEvents <- 1,
    MaxAttempts <- 1, Windows <- {}, row <- gpuNodeRow, run <- gpuNodeRun,
    group <- gpuNodeGroup, owner <- gpuNodeOwner, observed <- gpuNodeObserved,
    attempts <- gpuNodeAttempts, good <- gpuNodeGood, current <- gpuNodeCurrent,
    dep <- gpuNodeDep, service <- gpuNodeService, tasks <- gpuNodeTasks,
    del <- gpuNodeDel, rec <- gpuNodeRec, works <- gpuNodeWorks, ready <- gpuNodeReady,
    deploys <- gpuNodeDeploys, events <- gpuNodeEvents
Mounts == INSTANCE Volumes WITH
    Volumes <- {"v1"}, Groups <- {"g1"}, Workers <- {"w1", "w2"}, MaxSize <- 2,
    Quota <- 3, Capacity <- 3, Kinds <- {"create", "resize", "delete"}, Cases <- {},
    MaxJobs <- 3, MaxDeploys <- 2, MaxFailures <- 1, dep <- mountsDep,
    deploys <- mountsDeploys
ASSUME MountsConstants == Mounts!VolumesAssumption
Storage == INSTANCE Volumes WITH
    Volumes <- {"v1", "v2"}, Groups <- {"g1"}, Workers <- {"w1", "w2"}, MaxSize <- 2,
    Quota <- 3, Capacity <- 3, Kinds <- {"create", "resize", "delete"}, Cases <- {},
    MaxJobs <- 4, MaxDeploys <- 0, MaxFailures <- 1, vol <- storageVol,
    disk <- storageDisk, jobs <- storageJobs, work <- storageWork,
    attach <- storageAttach, dep <- storageDep, mounted <- storageMounted,
    made <- storageMade, deploys <- storageDeploys, failures <- storageFailures
ASSUME StorageConstants == Storage!VolumesAssumption
Clients == INSTANCE Clients WITH
    Cases <- {}, MaxEvents <- MaxFaults, row <- clientsRow, call <- clientsCall,
    made <- clientsMade, events <- clientsEvents
ASSUME ClientsConstants == Clients!ClientsAssumption
Renderings == INSTANCE Artifacts WITH
    Apps <- {"web", "db"}, Nodes <- {"n1"}, Configs <- Snapshots, Legacy <- Older,
    Workers <- {"w1", "w2"}, Cases <- {}, MaxVersion <- 2, MaxEvents <- 1,
    work <- renderingsWork, current <- renderingsCurrent, made <- renderingsMade,
    events <- renderingsEvents
ASSUME RenderingsConstants == Renderings!ArtifactsAssumption
\* A domain moves between the endpoints of two groups.
Routes == INSTANCE Endpoints WITH
    Groups <- {"g1", "g2"}, Endpoints <- {"e1", "e2"}, GroupOf <- GroupOfEndpoint,
    Hosts <- {"h1"}, Names <- {}, Callers <- {c1, c2}, Cases <- {}, MaxWrites <- 4,
    env <- routesEnv, dirty <- routesDirty, current <- routesCurrent,
    active <- routesActive, missed <- routesMissed, call <- routesCall,
    writes <- routesWrites
ASSUME RoutesConstants == Routes!EndpointsAssumption
\* The environment of an app.
Variables == INSTANCE Endpoints WITH
    Groups <- {"g1"}, Endpoints <- {}, GroupOf <- GroupOfEndpoint, Hosts <- {},
    Names <- {"n1", "n2"}, Callers <- {c1, c2}, Cases <- {}, MaxWrites <- 7,
    port <- variablesPort, domain <- variablesDomain, env <- variablesEnv,
    pending <- variablesPending, dirty <- variablesDirty, current <- variablesCurrent,
    active <- variablesActive, missed <- variablesMissed, call <- variablesCall,
    writes <- variablesWrites

Symmetry == Permutations({a1, a2}) \cup Permutations({c1, c2})

-----------------------------------------------------------------------------

\* A component that is not chosen stays in one of its initial states.
SystemInit ==
    /\ focus \in {
          "Drafts", "Bindings", "Registries", "Runtime", "Restarts", "Gpu", "GpuNode",
          "Mounts", "Storage", "Clients", "Renderings", "Routes", "Variables"}
    /\ Drafts!Init
    /\ focus # "Drafts" => quota = 1
    /\ IF focus = "Registries" THEN Registries!Init ELSE Bindings!Init
    /\ IF focus = "Restarts" THEN Restarts!Init ELSE Runtime!Init
    /\ focus \notin {"Runtime", "Restarts"} => runtimeApp[b1].replicas = 1
    /\ Init
    /\ GpuNode!Init
    /\ Mounts!Init
    /\ Storage!Init
    /\ Clients!Init
    /\ focus # "Clients" => level = [a \in Actors |-> 2]
    /\ Renderings!Init
    /\ focus # "Renderings" => verified /\ conf[1].on /\ conf[1].values = "Clear"
    /\ Routes!Init
    /\ Variables!Init

SystemNext ==
    \/ /\ focus = "Drafts" /\ Drafts!Next
       /\ UNCHANGED <<focus,
             bindingsVars, runtimeVars, vars, gpuNodeVars, mountsVars, storageVars,
             clientsVars, renderingsVars, routesVars, variablesVars>>
    \/ /\ focus = "Bindings" /\ Bindings!Next
       /\ UNCHANGED <<focus,
             draftsVars, runtimeVars, vars, gpuNodeVars, mountsVars, storageVars,
             clientsVars, renderingsVars, routesVars, variablesVars>>
    \/ /\ focus = "Registries" /\ Registries!Next
       /\ UNCHANGED <<focus,
             draftsVars, runtimeVars, vars, gpuNodeVars, mountsVars, storageVars,
             clientsVars, renderingsVars, routesVars, variablesVars>>
    \/ /\ focus = "Runtime" /\ Runtime!Next
       /\ UNCHANGED <<focus,
             draftsVars, bindingsVars, vars, gpuNodeVars, mountsVars, storageVars,
             clientsVars, renderingsVars, routesVars, variablesVars>>
    \/ /\ focus = "Restarts" /\ Restarts!Next
       /\ UNCHANGED <<focus,
             draftsVars, bindingsVars, vars, gpuNodeVars, mountsVars, storageVars,
             clientsVars, renderingsVars, routesVars, variablesVars>>
    \/ /\ focus = "Gpu" /\ Next
       /\ UNCHANGED <<focus,
             draftsVars, bindingsVars, runtimeVars, gpuNodeVars, mountsVars,
             storageVars, clientsVars, renderingsVars, routesVars, variablesVars>>
    \/ /\ focus = "GpuNode" /\ GpuNode!Next
       /\ UNCHANGED <<focus,
             draftsVars, bindingsVars, runtimeVars, vars, mountsVars, storageVars,
             clientsVars, renderingsVars, routesVars, variablesVars>>
    \/ /\ focus = "Mounts" /\ Mounts!Next
       /\ UNCHANGED <<focus,
             draftsVars, bindingsVars, runtimeVars, vars, gpuNodeVars, storageVars,
             clientsVars, renderingsVars, routesVars, variablesVars>>
    \/ /\ focus = "Storage" /\ Storage!Next
       /\ UNCHANGED <<focus,
             draftsVars, bindingsVars, runtimeVars, vars, gpuNodeVars, mountsVars,
             clientsVars, renderingsVars, routesVars, variablesVars>>
    \/ /\ focus = "Clients" /\ Clients!Next
       /\ UNCHANGED <<focus,
             draftsVars, bindingsVars, runtimeVars, vars, gpuNodeVars, mountsVars,
             storageVars, renderingsVars, routesVars, variablesVars>>
    \/ /\ focus = "Renderings" /\ Renderings!Next
       /\ UNCHANGED <<focus,
             draftsVars, bindingsVars, runtimeVars, vars, gpuNodeVars, mountsVars,
             storageVars, clientsVars, routesVars, variablesVars>>
    \/ /\ focus = "Routes" /\ Routes!Next
       /\ UNCHANGED <<focus,
             draftsVars, bindingsVars, runtimeVars, vars, gpuNodeVars, mountsVars,
             storageVars, clientsVars, renderingsVars, variablesVars>>
    \/ /\ focus = "Variables" /\ Variables!Next
       /\ UNCHANGED <<focus,
             draftsVars, bindingsVars, runtimeVars, vars, gpuNodeVars, mountsVars,
             storageVars, clientsVars, renderingsVars, routesVars>>

SystemSpec == SystemInit /\ [][SystemNext]_systemVars

-----------------------------------------------------------------------------
(* Properties *)

\* A client that was deleted, suspended or never stored cannot log in, a secret that
\* the provider takes is stored or its holder was told, and who changes an identity has
\* its permissions when he does (OAuthApplicationsService, ServiceIdentitiesService and
\* their credentials).
ClientSafety ==
    [][/\ focus = "Clients" => /\ Clients!TypeOK'
                               /\ Clients!GoneCannotLogIn'
                               /\ Clients!AcceptedIsStored'
                               /\ Clients!ManagedWithinPermissions]_systemVars

\* What was deployed is applied again byte for byte or not at all, finds its secrets
\* and volumes, publishes only what is proven and keeps no protected value in clear; a
\* group without pending changes is deployed as drafted, with its endpoints and domains
\* and the versions of its secrets and configs, whatever is edited, deployed or
\* discarded at the same time, but for an edit between the two reads and writes of a
\* deployment that completes; apps get the content their deployment names, which can be
\* applied again; a valid registry accepts its credentials; no change that needs quota
\* makes the tenant exceed it; and a device that a task uses is reserved, though its
\* driver fails or its node drains (AppGroups, registries, deployment and
\* NvidiaGpuAllocation services).
DraftSafety ==
    [][/\ focus = "Routes" => /\ Routes!TypeOK'
                              /\ Routes!CleanIsServed'
                              /\ Routes!DetachedOnRequest
       /\ focus = "Variables" => /\ Variables!CleanIsServed'
                                 /\ Variables!NoVariableIsLost
       /\ focus = "Renderings" => /\ Renderings!TypeOK'
                                  /\ Renderings!AppliedIsKept'
                                  /\ Renderings!DamageIsNotApplied'
                                  /\ Renderings!NothingInClear'
                                  /\ Renderings!StackCanRun'
                                  /\ Renderings!UnprovenIsSilent
       /\ focus = "Bindings" => /\ Bindings!TypeOK'
                                /\ Bindings!CleanIsDeployed'
                                /\ Bindings!ObjectsAreTrue'
                                /\ Bindings!CurrentIsRestorable'
       /\ focus = "Registries" => /\ Registries!CleanIsDeployed'
                                  /\ Registries!ValidIsGood'
       /\ focus = "Drafts" => /\ Drafts!TypeOK'
                              /\ Drafts!CleanMeansDeployed'
                              /\ Drafts!GrowthIsWithinQuota
       /\ focus = "GpuNode" => /\ GpuNode!UsedIsReserved'
                               /\ GpuNode!DeletedHasNoService']_systemVars

\* Once no request is open a stopped app has no replicas and a running one the replicas
\* of its last deployment, and a restart forces its services once at most, whatever is
\* retried or lost (RuntimeOperationExecutor).
RuntimeSafety ==
    /\ focus = "Runtime" => /\ Runtime!TypeOK
                            /\ Runtime!StopIsFinal
                            /\ Runtime!SettledIsDeployed
    /\ focus = "Restarts" => Restarts!RestartForcedOnce

\* The directory of a mounted or attached volume stays, a Ready volume has its
\* directory and limit, and what is reserved covers what the directories may hold,
\* through crashes, retries, resizes and deletions.
VolumeSafety ==
    /\ focus = "Mounts" => /\ Mounts!TypeOK
                           /\ Mounts!MountedIsKept
                           /\ Mounts!AttachedIsKept
    /\ focus = "Storage" => /\ Storage!ReadyHasDirectory
                            /\ Storage!LimitsAreReserved
=============================================================================
