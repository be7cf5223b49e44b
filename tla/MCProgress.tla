----------------------------- MODULE MCProgress -----------------------------
(***************************************************************************)
(* What must eventually happen, of every component that promises it, under *)
(* the fairness of its own processes: reconcilers, agents and workers. The *)
(* components share no variables: in a behaviour one of them, focus,       *)
(* moves, and only its actions are fair. One run has the components of     *)
(* accounts, applications and tenants' networks, another the routes, the   *)
(* gates and the platform itself.                                          *)
(***************************************************************************)
EXTENDS Billing, Integers, FiniteSets

CONSTANTS
    Moving,     \* the components of a run
    None, NoOwner, NoJob, NoRequest, Mixed, r1, r2, voucher1

VARIABLES
    focus,      \* the component that moves
    \* Deployments
    rows, content, revision, pending, current, groupStatus, status, phase, snap, target,
    owner, lease, deployReq, discardReq, opStatus, opToken, job, maxAttempts,
    deploymentsPc, read, stack, aborts,
    \* Billing
    accountNow, accountPrices, accountRunning, accountBalance, accountLedger,
    accountRecords, accountVoucher, accountCursor, accountFirst, accountPc,
    accountPeriods, accountTodo, accountActive, accountTx, accountSpent, accountCrashes,
    \* Ingress
    mode, published, nets, traefik, member, label, rec, apply, crossed, failures,
    deploys,
    \* TenantOidc
    tenantOidcMember, prov, grant, remote, role, lock, proc, changes, calls,
    tenantOidcFailures,
    \* Volumes
    vol, disk, jobs, work, attach, dep, mounted, made, storageDeploys, storageFailures,
    \* Networks
    net, attached, device, appVersion, appStack, swarm, peers, call, gate, vpn, blind,
    networksCalls, networksFailures,
    \* RemoteLan
    row, remoteLanGate, enrollment, agent, seen, policy, node, lane, edit,
    remoteLanRunning, clock, requests, events,
    \* Uplink
    manager, files, checkpoint, proof, timer, kernel, lan, uplinkPc, faults,
    uplinkEvents,
    \* Upgrade
    op, updater, inst, api, zitadel, db, dump, upgradeFiles, journal, upFaults,
    upgradeCrashes, retries, base, kept,
    \* Domains
    root, domain, group, routes, zone, points, lookup, rollout, desired, watched,
    domainsSeen, denied, domainsMade, domainsCalls, domainsEvents,
    \* Worker
    main, ops, processLane, due, stopping, aborted, failed, crashed, processRow

deploymentsVars ==
    <<rows, content, revision, pending, current, groupStatus, status, phase, snap,
      target, owner, lease, deployReq, discardReq, opStatus, opToken, job, maxAttempts,
      deploymentsPc, read, stack, aborts>>
accountVars ==
    <<accountNow, accountPrices, accountRunning, accountBalance, accountLedger,
      accountRecords, accountVoucher, accountCursor, accountFirst, accountPc,
      accountPeriods, accountTodo, accountActive, accountTx, accountSpent,
      accountCrashes>>
ingressVars ==
    <<mode, published, nets, traefik, member, label, rec, apply, crossed, failures,
      deploys>>
tenantOidcVars ==
    <<tenantOidcMember, prov, grant, remote, role, lock, proc, changes, calls,
      tenantOidcFailures>>
storageVars ==
    <<vol, disk, jobs, work, attach, dep, mounted, made, storageDeploys, storageFailures>>
networksVars ==
    <<net, attached, device, appVersion, appStack, swarm, peers, call, gate, vpn, blind,
      networksCalls, networksFailures>>
remoteLanVars ==
    <<row, remoteLanGate, enrollment, agent, seen, policy, node, lane, edit,
      remoteLanRunning, clock, requests, events>>
uplinkVars ==
    <<manager, files, checkpoint, proof, timer, kernel, lan, uplinkPc, faults,
      uplinkEvents>>
upgradeVars ==
    <<op, updater, inst, api, zitadel, db, dump, upgradeFiles, journal, upFaults,
      upgradeCrashes, retries, base, kept>>
domainsVars ==
    <<root, domain, group, routes, zone, points, lookup, rollout, desired, watched,
      domainsSeen, denied, domainsMade, domainsCalls, domainsEvents>>
processVars ==
    <<main, ops, processLane, due, stopping, aborted, failed, crashed, processRow>>
systemVars ==
    <<focus,
      deploymentsVars, vars, accountVars, ingressVars, tenantOidcVars, storageVars,
      networksVars, remoteLanVars, uplinkVars, upgradeVars, domainsVars, processVars>>

\* The first update restores the databases when it is undone, the second keeps the schema.
RestoresOnUndo(t) == t = 2
ReachedFrom(t) == IF t = 2 THEN {1} ELSE {1, 2}
\* Domains: every host is below one root.
RootName(h) == "r"

Deployments == INSTANCE Deployments WITH
    Apps <- {"app"}, Workers <- {"w1", "w2"}, MaxVersion <- 2, MaxRevision <- 1,
    MaxAborts <- 0, Attempts <- {1}, pc <- deploymentsPc
ASSUME BillingAssumption
\* Two requests and a voucher on the account.
Account == INSTANCE Billing WITH
    Apps <- {"app"}, Volumes <- {"vol"}, Workers <- {"w1", "w2"}, Requests <- {r1, r2},
    Vouchers <- {voucher1}, ComputeCost <- 2, StorageCost <- 1, VoucherValue <- 2,
    Amounts <- {1}, InitialBalance <- 3, MaxBackfill <- 1, MaxMinute <- 1,
    MaxCrashes <- 0, now <- accountNow, prices <- accountPrices,
    running <- accountRunning, balance <- accountBalance, ledger <- accountLedger,
    records <- accountRecords, voucher <- accountVoucher, cursor <- accountCursor,
    first <- accountFirst, pc <- accountPc, periods <- accountPeriods,
    todo <- accountTodo, active <- accountActive, tx <- accountTx, spent <- accountSpent,
    crashes <- accountCrashes
Ingress == INSTANCE Ingress WITH
    Services <- {"s1"}, Modes <- {"legacy", "networkless"}, MaxFailures <- 2,
    MaxDeploys <- 1
TenantOidc == INSTANCE TenantOidc WITH
    Users <- {"u1", "u2"}, Owners <- {"u1"}, Project <- FALSE, Calls <- {},
    Cohort <- FALSE, MaxChanges <- 3, MaxCalls <- 3, MaxFailures <- 2, Rejected <- FALSE,
    member <- tenantOidcMember, failures <- tenantOidcFailures
Storage == INSTANCE Volumes WITH
    Volumes <- {"v1"}, Groups <- {"g1"}, Workers <- {"w1", "w2"}, MaxSize <- 2,
    Quota <- 3, Capacity <- 3, Kinds <- {"create", "resize", "delete"}, Cases <- {},
    MaxJobs <- 3, MaxDeploys <- 0, MaxFailures <- 2, deploys <- storageDeploys,
    failures <- storageFailures
Networks == INSTANCE Networks WITH
    Nets <- {"n1"}, Apps <- {"a1"}, Devices <- {"d1"}, Blocks <- {{1}}, PoolSize <- 1,
    Callers <- {"c1"}, Cases <- {}, MaxCalls <- 4, MaxFailures <- 1,
    calls <- networksCalls, failures <- networksFailures
RemoteLan == INSTANCE RemoteLan WITH
    Atts <- {"att"}, Nodes <- {"node1"}, Cases <- {}, Enrolled <- TRUE, MaxRev <- 2,
    MaxRequests <- 2, MaxEvents <- 0, gate <- remoteLanGate, running <- remoteLanRunning
Uplink == INSTANCE Uplink WITH
    Managers <- {"Networkd", "Netplan", "Native"}, Cases <- {}, MaxFaults <- 1,
    MaxEvents <- 2, pc <- uplinkPc, events <- uplinkEvents
Upgrade == INSTANCE Upgrade WITH
    Targets <- {2, 3}, Tested <- RestoresOnUndo, SupportedFrom <- ReachedFrom,
    Cases <- {}, MaxAttempts <- 1, MaxRetries <- 0, MaxFaults <- 2, MaxCrashes <- 1,
    MaxRows <- 0, files <- upgradeFiles, crashes <- upgradeCrashes
Domains == INSTANCE Domains WITH
    Tenants <- {"t1"}, Hosts <- {"h"}, RootOf <- RootName, Cases <- {"rollback"},
    MaxRoots <- 1, MaxCalls <- 3, MaxEvents <- 1, seen <- domainsSeen,
    made <- domainsMade, calls <- domainsCalls, events <- domainsEvents
Process == INSTANCE Worker WITH
    Processes <- {"p", "q"}, Once <- {"q"}, Critical <- <<"gate", "node">>,
    Slow <- <<"drift">>, Cases <- {}, lane <- processLane, row <- processRow
ASSUME ProcessConstants == Process!WorkerAssumption

-----------------------------------------------------------------------------

\* A component that is not chosen stays in one of its initial states.
SystemInit ==
    /\ focus \in Moving
    /\ Deployments!Init
    /\ Init
    /\ Account!Init
    /\ Ingress!Init
    /\ focus # "Ingress" => mode = "legacy" /\ published = {}
    /\ TenantOidc!Init
    /\ Storage!Init
    /\ Networks!Init
    /\ RemoteLan!Init
    /\ Uplink!Init
    /\ focus # "Uplink" => manager = "Netplan" /\ lan
    /\ Upgrade!Init
    /\ Domains!Init
    /\ Process!Init

SystemNext ==
    \/ /\ focus = "Deployments" /\ Deployments!Next
       /\ UNCHANGED <<focus,
             vars, accountVars, ingressVars, tenantOidcVars, storageVars, networksVars,
             remoteLanVars, uplinkVars, upgradeVars, domainsVars, processVars>>
    \/ /\ focus = "Billing" /\ Next
       /\ UNCHANGED <<focus,
             deploymentsVars, accountVars, ingressVars, tenantOidcVars, storageVars,
             networksVars, remoteLanVars, uplinkVars, upgradeVars, domainsVars,
             processVars>>
    \/ /\ focus = "Account" /\ Account!Next
       /\ UNCHANGED <<focus,
             deploymentsVars, vars, ingressVars, tenantOidcVars, storageVars,
             networksVars, remoteLanVars, uplinkVars, upgradeVars, domainsVars,
             processVars>>
    \/ /\ focus = "Ingress" /\ Ingress!Next
       /\ UNCHANGED <<focus,
             deploymentsVars, vars, accountVars, tenantOidcVars, storageVars,
             networksVars, remoteLanVars, uplinkVars, upgradeVars, domainsVars,
             processVars>>
    \/ /\ focus = "TenantOidc" /\ TenantOidc!Next
       /\ UNCHANGED <<focus,
             deploymentsVars, vars, accountVars, ingressVars, storageVars, networksVars,
             remoteLanVars, uplinkVars, upgradeVars, domainsVars, processVars>>
    \/ /\ focus = "Storage" /\ Storage!Next
       /\ UNCHANGED <<focus,
             deploymentsVars, vars, accountVars, ingressVars, tenantOidcVars,
             networksVars, remoteLanVars, uplinkVars, upgradeVars, domainsVars,
             processVars>>
    \/ /\ focus = "Networks" /\ Networks!Next
       /\ UNCHANGED <<focus,
             deploymentsVars, vars, accountVars, ingressVars, tenantOidcVars,
             storageVars, remoteLanVars, uplinkVars, upgradeVars, domainsVars,
             processVars>>
    \/ /\ focus = "RemoteLan" /\ RemoteLan!Next
       /\ UNCHANGED <<focus,
             deploymentsVars, vars, accountVars, ingressVars, tenantOidcVars,
             storageVars, networksVars, uplinkVars, upgradeVars, domainsVars,
             processVars>>
    \/ /\ focus = "Uplink" /\ Uplink!Next
       /\ UNCHANGED <<focus,
             deploymentsVars, vars, accountVars, ingressVars, tenantOidcVars,
             storageVars, networksVars, remoteLanVars, upgradeVars, domainsVars,
             processVars>>
    \/ /\ focus = "Upgrade" /\ Upgrade!Next
       /\ UNCHANGED <<focus,
             deploymentsVars, vars, accountVars, ingressVars, tenantOidcVars,
             storageVars, networksVars, remoteLanVars, uplinkVars, domainsVars,
             processVars>>
    \/ /\ focus = "Domains" /\ Domains!Next
       /\ UNCHANGED <<focus,
             deploymentsVars, vars, accountVars, ingressVars, tenantOidcVars,
             storageVars, networksVars, remoteLanVars, uplinkVars, upgradeVars,
             processVars>>
    \/ /\ focus = "Process" /\ Process!Next
       /\ UNCHANGED <<focus,
             deploymentsVars, vars, accountVars, ingressVars, tenantOidcVars,
             storageVars, networksVars, remoteLanVars, uplinkVars, upgradeVars,
             domainsVars>>

SystemSpec == SystemInit /\ [][SystemNext]_systemVars

\* The fairness of every component, for the one that moves.
SystemFairSpec ==
    /\ SystemSpec
    /\ \A w \in {"w1", "w2"} : WF_deploymentsVars(focus = "Deployments" /\ Deployments!Execute(w))
    /\ \A w \in {"w1", "w2"} : WF_deploymentsVars(focus = "Deployments" /\ \E v \in 1..2 : Deployments!ClaimOperation(w, v))
    /\ \A v \in 1..2 : WF_deploymentsVars(focus = "Deployments" /\ Deployments!DeploymentLeaseExpires(v))
    /\ WF_vars(focus = "Billing" /\ Tick)
    /\ WF_vars(focus = "Billing" /\ CreatePriceList(0))
    /\ \A w \in Workers : WF_vars(focus = "Billing" /\ WorkerStep(w))
    /\ WF_ingressVars(focus = "Ingress" /\ Ingress!Reconcile)
    /\ \A p \in {"auto", "admin"} : WF_tenantOidcVars(focus = "TenantOidc" /\ TenantOidc!Step(p))
    /\ WF_tenantOidcVars(focus = "TenantOidc" /\ TenantOidc!AutoRollout)
    /\ WF_tenantOidcVars(focus = "TenantOidc" /\ TenantOidc!CohortDone)
    /\ WF_tenantOidcVars(focus = "TenantOidc" /\ TenantOidc!Delete)
    /\ \A w \in {"w1", "w2"} : WF_storageVars(focus = "Storage" /\ Storage!Worker(w))
    /\ \A w \in {"w1", "w2"} : WF_storageVars(focus = "Storage" /\ Storage!ResizeFails(w) /\ disk[work[w].vol] = 0)
    /\ WF_storageVars(focus = "Storage" /\ \E w \in {"w1", "w2"}, j \in jobs : Storage!Take(w, j))
    /\ WF_networksVars(focus = "Networks" /\ Networks!Gates)
    /\ WF_networksVars(focus = "Networks" /\ Networks!Vpn)
    /\ WF_remoteLanVars(focus = "RemoteLan" /\ RemoteLan!Agent)
    /\ WF_remoteLanVars(focus = "RemoteLan" /\ RemoteLan!Lane)
    /\ \A n \in {"node1"} : WF_remoteLanVars(focus = "RemoteLan" /\ RemoteLan!NodeReconcile(n))
    /\ WF_uplinkVars(focus = "Uplink" /\ Uplink!Schedule)
    /\ WF_uplinkVars(focus = "Uplink" /\ Uplink!AutoConfirm)
    /\ WF_uplinkVars(focus = "Uplink" /\ Uplink!Watchdog)
    /\ \A p \in {"install", "migrate", "confirm", "watchdog"} : WF_uplinkVars(focus = "Uplink" /\ Uplink!Run(p))
    /\ WF_upgradeVars(focus = "Upgrade" /\ Upgrade!Installer)
    /\ \A t \in {2, 3} : WF_upgradeVars(focus = "Upgrade" /\ Upgrade!Worker(t))
    /\ WF_domainsVars(focus = "Domains" /\ Domains!SaveRoot)
    /\ WF_domainsVars(focus = "Domains" /\ Domains!WriteTxt)
    /\ WF_domainsVars(focus = "Domains" /\ Domains!StartBatch)
    /\ WF_domainsVars(focus = "Domains" /\ Domains!Certificates)
    /\ \A t \in {"t1"} : WF_domainsVars(focus = "Domains" /\ Domains!Applies(t))
    /\ \A t \in {"t1"} : WF_domainsVars(focus = "Domains" /\ Domains!ReadRoutes(t))
    /\ \A t \in {"t1"} : WF_domainsVars(focus = "Domains" /\ Domains!WriteRoutes(t))
    /\ \A p \in {"p", "q"} : WF_processVars(focus = "Process" /\ Process!Main(p))
    /\ \A p \in {"p", "q"} : WF_processVars(focus = "Process" /\ (Process!Poll(p) \/ Process!Processed(p)))
    /\ \A p \in {"p", "q"} : WF_processVars(focus = "Process" /\ (Process!LaneStep(p) \/ Process!TaskEnds(p)))
    /\ \A p \in {"p", "q"} : WF_processVars(focus = "Process" /\ Process!Elapse(p))

-----------------------------------------------------------------------------
(* Properties *)

\* Every accepted deployment ends.
EveryDeploymentSettles == focus = "Deployments" => Deployments!EveryDeploymentSettles

\* Unpublished domains lose their route, and a published service of a group that is
\* not on the legacy topology ends on the group's own network alone.
RoutesConverge == focus = "Ingress" => Ingress!RoutesConverge

\* The rollout enables the provider in the end, after crashes, failed requests and
\* membership changes, unless a provisioning was cut off between the project and its role.
EventuallyEnabled == focus = "TenantOidc" => TenantOidc!EventuallyEnabled

\* With two requests and a voucher on the account its ledger is as promised too, and in
\* the end the workers have billed every minute (BillingService, BillingWorkerService).
AccountsAreBilled ==
    /\ []Account!LedgerSafety
    /\ focus = "Billing" => CatchesUp

\* A volume does not stay in a state that only its own operation leaves, unless a crash
\* took a resize or a deletion in the middle: an attempt that resumes refuses the
\* status it finds, but every error of an attempt gives it back
\* (VolumeOperationExecutor, VolumesService).
NothingIsStuck ==
    /\ focus = "Storage" => Storage!NothingIsStuck
    /\ [][Storage!OnlyCrashesStrand]_systemVars

\* A revoked device is no peer of the VPN in the end, and a network that is being
\* deleted goes, though its removal fails while a peer or a deployed stack uses it,
\* unless the stack of a detached application is never deployed again; the networks
\* that peers and stacks use exist meanwhile (GateRuntimeReconcilerService,
\* DeviceVpnRuntimeReconcilerService, NetworkingService).
NetworksConverge ==
    /\ []Networks!NetworkSafety
    /\ focus = "Networks" => Networks!RevokedIsCutOff
    /\ focus = "Networks" => Networks!DeletingGoes

\* What is revoked is cut at both ends in the end, a revoked gate goes, and a migration
\* of a gate's uplink ends, with the host back if it was cut off
\* (RemoteLanNodeReconcilerService, GateRuntimeReconcilerService, gate-managed-
\* uplink.py).
LanConverges ==
    /\ focus = "Uplink" => Uplink!MigrationEnds
    /\ focus = "Uplink" => Uplink!HostComesBack
    /\ focus = "RemoteLan" => RemoteLan!RevokingIsCut
    /\ focus = "RemoteLan" => RemoteLan!RevokedGateGoes

\* A requested update of the platform ends, or the platform waits for an operator; the
\* routes of domains that may not be published go, also those of a deployment that is
\* rolled back, an error of a certificate, which keeps a group from being deployed,
\* does not stay; and a worker process runs its critical reconciliations again and
\* again, drains after a signal though a slow one hangs, and is shown as it is
\* (upgrade.sh, IngressReconcilerService, DomainCertificateReconcilerService,
\* worker.runner.ts, runReconcileLane, WorkerRuntimeObservabilityService).
PlatformConverges ==
    /\ []Process!TypeOK
    /\ []Process!StoppedIsDrained
    /\ []Process!ServingIsShown
    /\ []Process!ExitIsClean
    /\ focus = "Process" => Process!CriticalRuns
    /\ focus = "Process" => Process!SignalEnds
    /\ focus = "Domains" => Domains!RoutesSettle
    /\ focus = "Domains" => Domains!CertificatesSettle
    /\ focus = "Upgrade" => Upgrade!UpdateEnds
=============================================================================
