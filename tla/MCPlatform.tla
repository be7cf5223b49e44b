----------------------------- MODULE MCPlatform -----------------------------
(***************************************************************************)
(* The components that keep the platform: the edge, storage and networks.  *)
(* They are modelled without shared variables, so one run checks them all: *)
(* in a behaviour one of them, focus, moves.                               *)
(***************************************************************************)
EXTENDS Networks, Naturals, FiniteSets

CONSTANTS
    n1, n2,
    \* Upgrade
    Targets, Tested(_), SupportedFrom(_), MaxAttempts, MaxRetries, MaxFaults,
    MaxCrashes, MaxRows,
    \* Install
    MaxStamp, MaxRuns, MaxEvents,
    \* Mcp: members that call and that settings name, clients that register
    Users, Via(_), ToolCalls, Members, Clients, Admins, MaxChanges, McpFaults,
    \* Bootstrap
    Jobs, FlowActions, Registered, Addresses, Histories, MaxMade, Attempts,
    IdentityFaults, IdentityRuns

VARIABLES
    focus,      \* the component that moves
    \* Ingress
    mode, published, nets, traefik, member, label, rec, apply, crossed, ingressFailures,
    deploys,
    \* ManagedDns
    row, record, platform, managedDnsCalls, blocked, made, managedDnsFailures,
    \* Domains
    root, domain, group, routes, zone, points, lookup, rollout, desired, watched, seen,
    denied, domainsMade, domainsCalls, events,
    \* RemoteLan
    remoteLanRow, remoteLanGate, enrollment, agent, remoteLanSeen, policy, node, lane,
    edit, running, clock, requests, remoteLanEvents,
    \* RemoteLan
    enrollmentsRow, enrollmentsGate, enrollmentsEnrollment, enrollmentsAgent,
    enrollmentsSeen, enrollmentsPolicy, enrollmentsNode, enrollmentsLane,
    enrollmentsEdit, enrollmentsRunning, enrollmentsClock, enrollmentsRequests,
    enrollmentsEvents,
    \* Uplink
    manager, files, checkpoint, proof, timer, kernel, lan, pc, faults, uplinkEvents,
    \* Upgrade
    op, updater, inst, api, zitadel, db, dump, upgradeFiles, journal, upFaults, crashes,
    retries, base, kept,
    \* Install
    done, installFiles, conf, installSwarm, stack, docker, mounted, installDb, cert,
    cache, issued, plan, fdone, disk, spared, proc, report, stamp, runs, installEvents,
    \* Mcp
    settings, mcpMember, can, mcpPolicy, trusted, operators, mcpEdit, mcpCall, since,
    audit, effect, client, changes, mcpFaults,
    \* Bootstrap
    identityMade, trigger, wanted, jwt, redirect, job, sh, env, identityConf, out,
    identityApi, identityDone, identityFaults, identityRuns,
    \* Capacity
    deps, capacityRunning, actual, live, queued, evidence, stored, known, how, loose,
    capacityEvents

ingressVars ==
    <<mode, published, nets, traefik, member, label, rec, apply, crossed,
      ingressFailures, deploys>>
managedDnsVars ==
    <<row, record, platform, managedDnsCalls, blocked, made, managedDnsFailures>>
domainsVars ==
    <<root, domain, group, routes, zone, points, lookup, rollout, desired, watched,
      seen, denied, domainsMade, domainsCalls, events>>
remoteLanVars ==
    <<remoteLanRow, remoteLanGate, enrollment, agent, remoteLanSeen, policy, node, lane,
      edit, running, clock, requests, remoteLanEvents>>
enrollmentsVars ==
    <<enrollmentsRow, enrollmentsGate, enrollmentsEnrollment, enrollmentsAgent,
      enrollmentsSeen, enrollmentsPolicy, enrollmentsNode, enrollmentsLane,
      enrollmentsEdit, enrollmentsRunning, enrollmentsClock, enrollmentsRequests,
      enrollmentsEvents>>
uplinkVars ==
    <<manager, files, checkpoint, proof, timer, kernel, lan, pc, faults, uplinkEvents>>
upgradeVars ==
    <<op, updater, inst, api, zitadel, db, dump, upgradeFiles, journal, upFaults,
      crashes, retries, base, kept>>
installVars ==
    <<done, installFiles, conf, installSwarm, stack, docker, mounted, installDb, cert,
      cache, issued, plan, fdone, disk, spared, proc, report, stamp, runs, installEvents>>
mcpVars ==
    <<settings, mcpMember, can, mcpPolicy, trusted, operators, mcpEdit, mcpCall, since,
      audit, effect, client, changes, mcpFaults>>
identityVars ==
    <<identityMade, trigger, wanted, jwt, redirect, job, sh, env, identityConf, out,
      identityApi, identityDone, identityFaults, identityRuns>>
capacityVars ==
    <<deps, capacityRunning, actual, live, queued, evidence, stored, known, how, loose,
      capacityEvents>>
systemVars ==
    <<focus,
      ingressVars, vars, managedDnsVars, domainsVars, remoteLanVars, enrollmentsVars,
      uplinkVars, upgradeVars, installVars, mcpVars, identityVars, capacityVars>>

\* The first update restores the databases when it is undone, the second keeps the schema.
RestoresOnUndo(t) == t = 2
ReachedFrom(t) == IF t = 2 THEN {1} ELSE {1, 2}
\* A group can grow to three small replicas from a large one, another has a small one.
Shapes(g) == IF g = "b" THEN {[n |-> 1, mem |-> 1]} ELSE {[n |-> 1, mem |-> 3], [n |-> 3, mem |-> 1]}
DeploysOf(g) == IF g = "b" THEN 1 ELSE 2
\* Domains: every host is below one root.
RootName(h) == "r"
\* Mcp: the tokens of members come from a provider of the tenant.
ViaOf(u) == "tenant"

Ingress == INSTANCE Ingress WITH
    Services <- {"s1", "s2"}, Modes <- {"single", "legacy", "networkless"},
    MaxFailures <- 1, MaxDeploys <- 1, failures <- ingressFailures
ASSUME IngressConstants == Ingress!IngressAssumption
ASSUME NetworksAssumption
ManagedDns == INSTANCE ManagedDns WITH
    Hosts <- {"h", "g", "f"}, Callers <- {"c1", "c2"}, Zones <- {"z1", "z2"},
    Foreign <- {"f"}, Legacy <- {"g"}, Cases <- {}, MaxCalls <- 5, MaxFailures <- 1,
    calls <- managedDnsCalls, failures <- managedDnsFailures
ASSUME ManagedDnsConstants == ManagedDns!ManagedDnsAssumption
Domains == INSTANCE Domains WITH
    Tenants <- {"t1", "t2"}, Hosts <- {"h"}, RootOf <- RootName, Cases <- {},
    MaxRoots <- 1, MaxCalls <- 3, MaxEvents <- 1, made <- domainsMade,
    calls <- domainsCalls
ASSUME DomainsConstants == Domains!DomainsAssumption
\* An attachment behind an enrolled gate.
RemoteLan == INSTANCE RemoteLan WITH
    Atts <- {"att"}, Nodes <- {"node1"}, Cases <- {}, Enrolled <- TRUE, MaxRev <- 2,
    MaxRequests <- 3, MaxEvents <- 0, row <- remoteLanRow, gate <- remoteLanGate,
    seen <- remoteLanSeen, events <- remoteLanEvents
\* A gate is enrolled, again, and revoked.
Enrollments == INSTANCE RemoteLan WITH
    Atts <- {}, Nodes <- {"node1"}, Cases <- {}, Enrolled <- FALSE, MaxRev <- 1,
    MaxRequests <- 5, MaxEvents <- 1, row <- enrollmentsRow, gate <- enrollmentsGate,
    enrollment <- enrollmentsEnrollment, agent <- enrollmentsAgent,
    seen <- enrollmentsSeen, policy <- enrollmentsPolicy, node <- enrollmentsNode,
    lane <- enrollmentsLane, edit <- enrollmentsEdit, running <- enrollmentsRunning,
    clock <- enrollmentsClock, requests <- enrollmentsRequests,
    events <- enrollmentsEvents
Uplink == INSTANCE Uplink WITH
    Managers <- {"Networkd", "Netplan", "Native"}, Cases <- {}, MaxFaults <- 2,
    MaxEvents <- 3, events <- uplinkEvents
ASSUME UplinkConstants == Uplink!UplinkAssumption
Upgrade == INSTANCE Upgrade WITH
    Cases <- {}, files <- upgradeFiles
ASSUME UpgradeConstants == Upgrade!UpgradeAssumption
Install == INSTANCE Install WITH
    Cases <- {}, files <- installFiles, swarm <- installSwarm, db <- installDb,
    events <- installEvents
ASSUME InstallConstants == Install!InstallAssumption
\* A tool call while settings, members and policy change.
Mcp == INSTANCE Mcp WITH
    Calls <- ToolCalls, Clients <- {}, Cases <- {}, MaxFaults <- McpFaults,
    member <- mcpMember, policy <- mcpPolicy, edit <- mcpEdit, call <- mcpCall,
    faults <- mcpFaults
ASSUME McpConstants == Mcp!McpAssumption
\* Settings of two members.
McpSettings == INSTANCE Mcp WITH
    Calls <- {}, Clients <- {}, Cases <- {}, MaxFaults <- McpFaults, Users <- Members,
    member <- mcpMember, policy <- mcpPolicy, edit <- mcpEdit, call <- mcpCall,
    faults <- mcpFaults
\* A client registers itself.
Registrations == INSTANCE Mcp WITH
    Cases <- {}, MaxFaults <- McpFaults, Calls <- {}, MaxChanges <- 0,
    member <- mcpMember, policy <- mcpPolicy, edit <- mcpEdit, call <- mcpCall,
    faults <- mcpFaults
Identity == INSTANCE Bootstrap WITH
    Others <- FlowActions, Cases <- {}, MaxFaults <- IdentityFaults,
    MaxRuns <- IdentityRuns, made <- identityMade, conf <- identityConf,
    api <- identityApi, done <- identityDone, faults <- identityFaults,
    runs <- identityRuns
ASSUME IdentityConstants == Identity!BootstrapAssumption
Capacity == INSTANCE Capacity WITH
    Groups <- {"a", "b"}, Shapes <- Shapes, Cpus <- 3, Memory <- 3, Reserve <- 1,
    Cases <- {}, MaxDeploys <- DeploysOf, MaxEvents <- 1, running <- capacityRunning,
    events <- capacityEvents
ASSUME CapacityConstants == Capacity!CapacityAssumption

-----------------------------------------------------------------------------

\* A component that is not chosen stays in one of its initial states.
SystemInit ==
    /\ focus \in {
          "Ingress", "Networks", "ManagedDns", "Domains", "RemoteLan", "Enrollments",
          "Uplink", "Upgrade", "Install", "Mcp", "McpSettings", "Registrations",
          "Identity", "Capacity"}
    /\ Ingress!Init
    /\ focus # "Ingress" => mode = "single" /\ published = {}
    /\ Init
    /\ ManagedDns!Init
    /\ Domains!Init
    /\ focus # "Domains" => zone["r"].owner = "t1"
    /\ RemoteLan!Init
    /\ Enrollments!Init
    /\ Uplink!Init
    /\ focus # "Uplink" => manager = "Netplan" /\ lan
    /\ Upgrade!Init
    /\ Install!Init
    /\ CASE focus = "McpSettings" -> McpSettings!Init
         [] focus = "Registrations" -> Registrations!Init
         [] OTHER -> Mcp!Init
    /\ focus \notin {"Mcp", "McpSettings", "Registrations"} => settings.enabled /\ operators = {}
    /\ Identity!Init
    /\ focus # "Identity" => wanted = {} /\ identityMade["org"] = {}
    /\ Capacity!Init

SystemNext ==
    \/ /\ focus = "Ingress" /\ Ingress!Next
       /\ UNCHANGED <<focus,
             vars, managedDnsVars, domainsVars, remoteLanVars, enrollmentsVars,
             uplinkVars, upgradeVars, installVars, mcpVars, identityVars, capacityVars>>
    \/ /\ focus = "Networks" /\ Next
       /\ UNCHANGED <<focus,
             ingressVars, managedDnsVars, domainsVars, remoteLanVars, enrollmentsVars,
             uplinkVars, upgradeVars, installVars, mcpVars, identityVars, capacityVars>>
    \/ /\ focus = "ManagedDns" /\ ManagedDns!Next
       /\ UNCHANGED <<focus,
             ingressVars, vars, domainsVars, remoteLanVars, enrollmentsVars, uplinkVars,
             upgradeVars, installVars, mcpVars, identityVars, capacityVars>>
    \/ /\ focus = "Domains" /\ Domains!Next
       /\ UNCHANGED <<focus,
             ingressVars, vars, managedDnsVars, remoteLanVars, enrollmentsVars,
             uplinkVars, upgradeVars, installVars, mcpVars, identityVars, capacityVars>>
    \/ /\ focus = "RemoteLan" /\ RemoteLan!Next
       /\ UNCHANGED <<focus,
             ingressVars, vars, managedDnsVars, domainsVars, enrollmentsVars,
             uplinkVars, upgradeVars, installVars, mcpVars, identityVars, capacityVars>>
    \/ /\ focus = "Enrollments" /\ Enrollments!Next
       /\ UNCHANGED <<focus,
             ingressVars, vars, managedDnsVars, domainsVars, remoteLanVars, uplinkVars,
             upgradeVars, installVars, mcpVars, identityVars, capacityVars>>
    \/ /\ focus = "Uplink" /\ Uplink!Next
       /\ UNCHANGED <<focus,
             ingressVars, vars, managedDnsVars, domainsVars, remoteLanVars,
             enrollmentsVars, upgradeVars, installVars, mcpVars, identityVars,
             capacityVars>>
    \/ /\ focus = "Upgrade" /\ Upgrade!Next
       /\ UNCHANGED <<focus,
             ingressVars, vars, managedDnsVars, domainsVars, remoteLanVars,
             enrollmentsVars, uplinkVars, installVars, mcpVars, identityVars,
             capacityVars>>
    \/ /\ focus = "Install" /\ Install!Next
       /\ UNCHANGED <<focus,
             ingressVars, vars, managedDnsVars, domainsVars, remoteLanVars,
             enrollmentsVars, uplinkVars, upgradeVars, mcpVars, identityVars,
             capacityVars>>
    \/ /\ focus = "Mcp" /\ Mcp!Next
       /\ UNCHANGED <<focus,
             ingressVars, vars, managedDnsVars, domainsVars, remoteLanVars,
             enrollmentsVars, uplinkVars, upgradeVars, installVars, identityVars,
             capacityVars>>
    \/ /\ focus = "McpSettings" /\ McpSettings!Next
       /\ UNCHANGED <<focus,
             ingressVars, vars, managedDnsVars, domainsVars, remoteLanVars,
             enrollmentsVars, uplinkVars, upgradeVars, installVars, identityVars,
             capacityVars>>
    \/ /\ focus = "Registrations" /\ Registrations!Next
       /\ UNCHANGED <<focus,
             ingressVars, vars, managedDnsVars, domainsVars, remoteLanVars,
             enrollmentsVars, uplinkVars, upgradeVars, installVars, identityVars,
             capacityVars>>
    \/ /\ focus = "Identity" /\ Identity!Next
       /\ UNCHANGED <<focus,
             ingressVars, vars, managedDnsVars, domainsVars, remoteLanVars,
             enrollmentsVars, uplinkVars, upgradeVars, installVars, mcpVars,
             capacityVars>>
    \/ /\ focus = "Capacity" /\ Capacity!Next
       /\ UNCHANGED <<focus,
             ingressVars, vars, managedDnsVars, domainsVars, remoteLanVars,
             enrollmentsVars, uplinkVars, upgradeVars, installVars, mcpVars,
             identityVars>>

SystemSpec == SystemInit /\ [][SystemNext]_systemVars

-----------------------------------------------------------------------------
(* Properties *)


\* An attachment is shown as revoked only when no tunnel or link is left of it, as
\* active only when its ends are of its revision, no reconciler undoes a revocation, a
\* gate's token is of its newest enrollment, and a gate's uplink is migrated and
\* proven, or watched, or as before (RemoteLanLifecycleService, NetworkingService,
\* gate-managed-uplink.py).
LanSafety ==
    [][/\ focus = "Uplink" => /\ Uplink!TypeOK'
                              /\ Uplink!UnprovenIsWatched'
                              /\ Uplink!NothingIsHalfDone'
       /\ focus = "RemoteLan" => /\ RemoteLan!TypeOK'
                                 /\ RemoteLan!RevokedIsRemoved'
                                 /\ RemoteLan!ActiveIsCurrent'
                                 /\ RemoteLan!RevocationIsFinal
       /\ focus = "Enrollments" => Enrollments!TokenIsOfNewest']_systemVars

\* Nothing comes of an agent's call that its user may not make since it came, the entry
\* about it tells what came of it, settings are as asked for, and a client that
\* registered itself works or is gone; the provider of logins has one of each thing of
\* the portal, the API is configured with what is there, customers' actions stay, and
\* redirects follow the domain (identity.sh, bootstrap-zitadel.ts,
\* TenantMcpProtocolService, AdminMcpProtocolService, TenantMcpSettingsService,
\* McpOAuthDcrService).
GatewaySafety ==
    [][/\ focus = "Mcp" => /\ Mcp!TypeOK'
                           /\ Mcp!LateCallsDoNothing'
                           /\ Mcp!RecordsTellTheTruth'
       /\ focus = "McpSettings" => McpSettings!SettingsAreAsAsked
       /\ focus = "Registrations" => Registrations!RegistrationsAreWhole'
       /\ focus = "Identity" => /\ Identity!TypeOK'
                                /\ Identity!MadeOnce'
                                /\ Identity!DeployedLoginWorks'
                                /\ Identity!ActionsAreKept'
                                /\ Identity!RedirectsFollow'
                                /\ Identity!NoneLeftOpaque']_systemVars

\* The control plane has the secrets its databases were made with, a reported install
\* is deployed, a reported reset destroyed what was approved and nothing else, no
\* service runs on databases of a release it was not made for, an undone update loses
\* only what its own release wrote, the journal tells which release is installed, and
\* an update that succeeded was completed (lifecycle.sh, reset.sh, upgrade.sh,
\* PlatformReleaseUpdateOperationExecutor).
ReleaseSafety ==
    /\ focus = "Install" => /\ Install!TypeOK
                            /\ Install!SecretsFit
                            /\ Install!InstalledIsDeployed
                            /\ Install!ResetDestroys
                            /\ Install!SpareIsKept
                            /\ Install!IssuedOnce
    /\ focus = "Upgrade" => /\ Upgrade!TypeOK
                            /\ Upgrade!ServicesFitTheirData
                            /\ Upgrade!RowsAreKept
                            /\ Upgrade!JournalIsTrue
                            /\ Upgrade!SucceededIsCompleted
=============================================================================
