-------------------------------- MODULE Install --------------------------------
(***************************************************************************)
(* The installer of the primary node and its resets.  An install is a list  *)
(* of phases, each an effect on the host followed by a mark in               *)
(* primary.state; it may be killed anywhere and is then run again, when      *)
(* marked phases are skipped and what they left in memory is restored from    *)
(* files.  A factory reset works the same way against a plan that was         *)
(* approved once.  One installer runs at a time (rp_installer_lock_acquire).   *)
(***************************************************************************)
EXTENDS Naturals, FiniteSets, Sequences

CONSTANTS
    Cases,      \* windows that are open, see the README
    MaxStamp,   \* bound: generations of secrets
    MaxRuns,    \* bound: runs of the installer
    MaxEvents,  \* bound: what else happens to the host
    None

InstallAssumption ==
    /\ MaxStamp \in Nat /\ MaxRuns \in Nat /\ MaxEvents \in Nat
    /\ Cases \subseteq {"identity", "down", "resume"}
    /\ None \notin Nat \cup {"storage", "spare"}

VARIABLES
    done,       \* phases marked in primary.state
    files,      \* installer-state/secrets: the generation of the secrets, 0 for none
    conf,       \* installer.conf: None, or the generation of the OIDC secret it refers to, 0 if pending
    swarm,      \* Docker Swarm: whether the host is in one, and its database password and database URL
    stack,      \* the control plane: how far it is deployed, and with which secrets
    docker,     \* the daemon answers
    mounted,    \* the storage is mounted
    db,         \* databases on the storage, with the secrets they were initialised with
    cert,       \* acme.json on the storage
    cache,      \* the copy of acme.json that outlives the storage
    issued,     \* certificates that were ordered
    plan,       \* factory.plan: None or the disk that was approved
    fdone,      \* phases marked in factory.state
    disk,       \* the disk under the configured name
    spared,     \* the other disk has its data
    proc,       \* the installer that runs: its mode, the phase whose effect is done, its OIDC secret
    report,     \* what the last run reported: "None", "Installed" or "Reset"
    stamp, runs, events

state == <<done, files, conf>>
cluster == <<swarm, stack, docker>>
storage == <<mounted, db, cert, disk, spared>>
resetting == <<plan, fdone>>
bounds == <<runs, events>>
vars == <<state, cluster, storage, cache, issued, resetting, proc, report, stamp, bounds>>

InstallPhases ==
    <<"storage", "swarm", "secrets", "bootstrap", "migrations", "identity", "ingress", "final", "persist">>
\* Mutant: the certificate is copied after the storage was unmounted.
PreservedLast ==
    <<"stack", "resources", "unmount", "leave", "wipe", "preserve", "data", "state", "cleanup">>
ResetPhases ==
    <<"preserve", "stack", "resources", "unmount", "leave", "wipe", "data", "state", "cleanup">>

NoStack == [stage |-> "None", url |-> 0, key |-> 0, oidc |-> 0]
NoSwarm == [active |-> FALSE, named |-> 0, url |-> 0]
NoData == [rp |-> 0, idp |-> 0, client |-> 0, schema |-> FALSE]
Idle == [mode |-> "Idle", did |-> "None", oidc |-> 0]

Init ==
    /\ done = {} /\ files = 0 /\ conf = None
    /\ swarm = NoSwarm /\ stack = NoStack /\ docker = TRUE
    /\ mounted = FALSE /\ db = NoData /\ cert = FALSE /\ disk = "storage" /\ spared = TRUE
    /\ cache = FALSE /\ issued = 0
    /\ plan = None /\ fdone = {}
    /\ proc = Idle /\ report = "None" /\ stamp = 0 /\ runs = 0 /\ events = 0

\* The phase a run is at: the first that is not marked.
Current(phases, marked) ==
    LET left == {i \in 1..Len(phases) : phases[i] \notin marked} IN
    IF left = {} THEN "End" ELSE phases[CHOOSE i \in left : \A j \in left : i <= j]

At(phase) == proc.mode = "Install" /\ proc.did = "None" /\ Current(InstallPhases, done) = phase
ResetAt(phase) == proc.mode = "Factory" /\ proc.did = "None" /\ Current(ResetPhases, fdone) = phase
Did(phase) == proc' = [proc EXCEPT !.did = phase]

-----------------------------------------------------------------------------
(* The primary install *)

\* Mutant: what the configuration says of the OIDC client is not read again.
ForgetsClient(saved) == 0
\* rp_primary_restore_secret_state: a client that was written to the configuration is kept.
RestoredClient(saved) == IF saved = None THEN 0 ELSE saved

Start(mode) ==
    /\ proc.mode = "Idle" /\ runs < MaxRuns
    /\ runs' = runs + 1 /\ report' = "None"
    /\ UNCHANGED events

\* rp_main and rp_primary_install, up to the first phase: what marked phases left is restored.
StartInstall ==
    /\ Start("Install") /\ disk = "storage"
    /\ "resume" \in Cases \/ fdone = {}
    /\ IF "secrets" \in done
       THEN /\ files # 0 /\ docker /\ swarm.active      \* else the run ends here
            /\ swarm' = [active |-> TRUE, named |-> IF swarm.named = 0 THEN files ELSE swarm.named,
                                          url |-> IF swarm.url = 0 THEN files ELSE swarm.url]
            /\ proc' = [mode |-> "Install", did |-> "Restored", oidc |-> RestoredClient(conf)]
       ELSE UNCHANGED swarm /\ proc' = [mode |-> "Install", did |-> "Restored", oidc |-> 0]
    /\ UNCHANGED <<state, stack, docker, storage, cache, issued, resetting, stamp>>

\* rp_deploy_control_plane: databases that are empty are initialised with the secrets of the stack.
Deploy(stage) ==
    /\ docker /\ swarm.active /\ mounted /\ files # 0
    /\ stack' = [stage |-> stage, url |-> swarm.url, key |-> files, oidc |-> proc.oidc]
Initialised(data) == [data EXCEPT !.rp = IF @ = 0 THEN swarm.named ELSE @,
                                  !.idp = IF @ = 0 THEN files ELSE @]

\* rp_primary_recover_incomplete_zitadel_bootstrap: a bootstrap that was marked alone is done again,
\* with the identity provider's database moved away.
HalfBootstrapped == done \cap {"bootstrap", "migrations", "identity"} = {"bootstrap"}
Recover ==
    /\ proc.mode = "Install" /\ proc.did = "Restored"
    /\ IF HalfBootstrapped
       THEN Deploy("bootstrap") /\ db' = Initialised([db EXCEPT !.idp = 0, !.client = 0])
       ELSE UNCHANGED <<stack, db>>
    /\ Did("None")
    /\ UNCHANGED <<state, swarm, docker, mounted, cert, disk, spared, cache, issued, resetting, report, stamp, bounds>>

\* rp_primary_prepare_storage: a storage that is mounted is kept, another one is formatted.
PrepareStorage ==
    /\ At("storage") /\ disk = "storage"
    /\ mounted' = TRUE
    /\ IF mounted THEN UNCHANGED <<db, cert>> ELSE db' = NoData /\ cert' = FALSE
    /\ conf' = IF conf = None THEN 0 ELSE conf
    /\ Did("storage")
    /\ UNCHANGED <<done, files, cluster, disk, spared, cache, issued, resetting, report, stamp, bounds>>

InitSwarm ==
    /\ At("swarm") /\ docker
    /\ swarm' = [swarm EXCEPT !.active = TRUE]
    /\ Did("swarm")
    /\ UNCHANGED <<state, stack, docker, storage, cache, issued, resetting, report, stamp, bounds>>

FilesOrNew == IF files = 0 THEN stamp + 1 ELSE files

\* rp_primary_create_platform_secrets: files first, then Swarm secrets, which are kept if they exist.
CreateFiles ==
    /\ At("secrets") /\ docker /\ swarm.active /\ FilesOrNew <= MaxStamp
    /\ files' = FilesOrNew
    /\ stamp' = IF FilesOrNew > stamp THEN FilesOrNew ELSE stamp
    /\ swarm' = [swarm EXCEPT !.named = IF @ = 0 THEN FilesOrNew ELSE @]
    /\ Did("files")
    /\ UNCHANGED <<done, conf, stack, docker, storage, cache, issued, resetting, report, bounds>>

CreateUrl ==
    /\ proc.mode = "Install" /\ proc.did = "files" /\ docker /\ swarm.active
    /\ swarm' = [swarm EXCEPT !.url = IF @ = 0 THEN files ELSE @]
    /\ proc' = [proc EXCEPT !.did = "secrets", !.oidc = 0]
    /\ UNCHANGED <<state, stack, docker, storage, cache, issued, resetting, report, stamp, bounds>>

Bootstrap ==
    /\ At("bootstrap") /\ Deploy("bootstrap")
    /\ db' = Initialised(db)
    /\ Did("bootstrap")
    /\ UNCHANGED <<state, swarm, docker, mounted, cert, disk, spared, cache, issued, resetting, report, stamp, bounds>>

\* rp_primary_run_migrations deploys the bootstrap again if its services are not there.
Migrate ==
    /\ At("migrations") /\ docker /\ swarm.active
    /\ IF stack.stage = "None" THEN Deploy("bootstrap") ELSE UNCHANGED stack
    /\ db' = [(IF stack.stage = "None" THEN Initialised(db) ELSE db) EXCEPT !.schema = TRUE]
    /\ Did("migrations")
    /\ UNCHANGED <<state, swarm, docker, mounted, cert, disk, spared, cache, issued, resetting, report, stamp, bounds>>

\* getOrCreateOidcApp: a client that is there keeps its secret, and the secret that was mounted is returned.
CreateClient ==
    /\ At("identity") /\ docker /\ stack.stage # "None" /\ (db.client = 0 => stamp < MaxStamp)
    /\ IF db.client = 0
       THEN /\ stamp' = stamp + 1 /\ db' = [db EXCEPT !.client = stamp + 1]
            /\ proc' = [proc EXCEPT !.did = "client", !.oidc = stamp + 1]
       ELSE Did("client") /\ UNCHANGED <<stamp, db>>
    /\ UNCHANGED <<state, cluster, mounted, cert, disk, spared, cache, issued, resetting, report, bounds>>

\* rp_apply_zitadel_bootstrap_output, and the configuration before the mark
ApplyClient ==
    /\ proc.mode = "Install" /\ proc.did = "client"
    /\ conf' = proc.oidc
    /\ Did("identity")
    /\ UNCHANGED <<done, files, cluster, storage, cache, issued, resetting, report, stamp, bounds>>

\* rp_primary_enable_ingress: a certificate of an earlier installation is used again.
EnableIngress ==
    /\ At("ingress") /\ Deploy("ingress")
    /\ db' = Initialised(db)
    /\ cert' = (cert \/ cache)
    /\ Did("ingress")
    /\ UNCHANGED <<state, swarm, docker, mounted, disk, spared, cache, issued, resetting, report, stamp, bounds>>

\* rp_primary_deploy_final: Traefik orders what is missing in acme.json.
DeployFinal ==
    /\ At("final") /\ Deploy("final")
    /\ db' = Initialised(db)
    /\ cert' = TRUE /\ issued' = issued + (IF cert THEN 0 ELSE 1)
    /\ Did("issued")
    /\ UNCHANGED <<state, swarm, docker, mounted, disk, spared, cache, resetting, report, stamp, bounds>>

KeepCertificate ==
    /\ proc.mode = "Install" /\ proc.did = "issued"
    /\ cache' = cert
    /\ Did("final")
    /\ UNCHANGED <<state, cluster, storage, issued, resetting, report, stamp, bounds>>

Persist ==
    /\ At("persist")
    /\ conf' = proc.oidc
    /\ Did("persist")
    /\ UNCHANGED <<done, files, cluster, storage, cache, issued, resetting, report, stamp, bounds>>

\* rp_run_phase
MarkDone ==
    /\ proc.mode = "Install" /\ proc.did = Current(InstallPhases, done)
    /\ done' = done \cup {proc.did}
    /\ Did("None")
    /\ UNCHANGED <<files, conf, cluster, storage, cache, issued, resetting, report, stamp, bounds>>

EndInstall ==
    /\ At("End")
    /\ proc' = Idle /\ report' = "Installed"
    /\ UNCHANGED <<state, cluster, storage, cache, issued, resetting, stamp, bounds>>

Install ==
    \/ StartInstall \/ Recover \/ PrepareStorage \/ InitSwarm \/ CreateFiles \/ CreateUrl \/ Bootstrap \/ Migrate
    \/ CreateClient \/ ApplyClient \/ EnableIngress \/ DeployFinal \/ KeepCertificate \/ Persist \/ MarkDone \/ EndInstall

-----------------------------------------------------------------------------
(* Resets *)

\* rp_reset_final_checkpoint_present, rp_reset_active_control_plane: a daemon that is down shows no stack.
Installed == "final" \in done \/ (docker /\ stack.stage # "None")

\* rp_reset_protected_state_present
Protected == files # 0 \/ mounted \/ (docker /\ swarm.active /\ swarm.named # 0)

ResetSettings ==
    /\ Start("Settings") /\ ~Installed
    /\ conf' = None
    /\ UNCHANGED <<done, files, cluster, storage, cache, issued, resetting, proc, stamp>>

ResetInstallerState ==
    /\ Start("State") /\ ~Installed /\ ~Protected
    /\ done' = {} /\ files' = 0 /\ conf' = None
    /\ UNCHANGED <<cluster, storage, cache, issued, resetting, proc, stamp>>

Approve == conf # None /\ plan' = disk
StillApproved == plan = disk /\ UNCHANGED plan

\* rp_reset_factory_preflight: a plan that was approved is validated again, it is never chosen anew.
StartReset ==
    /\ Start("Factory")
    /\ IF plan = None THEN Approve ELSE StillApproved
    /\ proc' = [mode |-> "Factory", did |-> "None", oidc |-> 0]
    /\ UNCHANGED <<state, cluster, storage, cache, issued, fdone, stamp>>

PreserveCertificate ==
    /\ ResetAt("preserve")
    /\ cache' = (cache \/ (mounted /\ cert))
    /\ Did("preserve")
    /\ UNCHANGED <<state, cluster, storage, issued, resetting, report, stamp, bounds>>

\* Nothing is removed of a Swarm that does not answer.
RemoveStack ==
    /\ ResetAt("stack")
    /\ stack' = IF docker /\ swarm.active THEN NoStack ELSE stack
    /\ Did("stack")
    /\ UNCHANGED <<state, swarm, docker, storage, cache, issued, resetting, report, stamp, bounds>>

RemoveSwarmResources ==
    /\ ResetAt("resources")
    /\ swarm' = IF docker /\ swarm.active THEN [swarm EXCEPT !.named = 0, !.url = 0] ELSE swarm
    /\ Did("resources")
    /\ UNCHANGED <<state, stack, docker, storage, cache, issued, resetting, report, stamp, bounds>>

\* What runs on the storage keeps it mounted.
UnmountRuntime ==
    /\ ResetAt("unmount") /\ (docker => stack.stage = "None")
    /\ mounted' = FALSE
    /\ Did("unmount")
    /\ UNCHANGED <<state, cluster, db, cert, disk, spared, cache, issued, resetting, report, stamp, bounds>>

LeaveSwarm ==
    /\ ResetAt("leave")
    /\ IF docker THEN swarm' = NoSwarm /\ stack' = NoStack ELSE UNCHANGED <<swarm, stack>>
    /\ Did("leave")
    /\ UNCHANGED <<state, docker, storage, cache, issued, resetting, report, stamp, bounds>>

\* Mutant: the disk is not compared with the plan when it is wiped.
AnyDisk == ~mounted
\* rp_reset_storage_revalidate
Revalidated == ~mounted /\ disk = plan

WipeStorage ==
    /\ ResetAt("wipe") /\ Revalidated
    /\ IF disk = "storage" THEN db' = NoData /\ cert' = FALSE /\ UNCHANGED spared
                           ELSE spared' = FALSE /\ UNCHANGED <<db, cert>>
    /\ Did("wipe")
    /\ UNCHANGED <<state, cluster, mounted, disk, cache, issued, resetting, report, stamp, bounds>>

\* rp_reset_remove_rp_data refuses what is mounted.
RemoveData ==
    /\ ResetAt("data") /\ ~mounted
    /\ conf' = None
    /\ Did("data")
    /\ UNCHANGED <<done, files, cluster, storage, cache, issued, resetting, report, stamp, bounds>>

RemoveState ==
    /\ ResetAt("state")
    /\ done' = {} /\ files' = 0
    /\ Did("state")
    /\ UNCHANGED <<conf, cluster, storage, cache, issued, resetting, report, stamp, bounds>>

MarksGo == {}

\* rp_reset_final_cleanup removes the plan, then the marks.
CleanUp ==
    /\ ResetAt("cleanup")
    /\ plan' = None
    /\ Did("cleanup")
    /\ UNCHANGED <<state, cluster, storage, cache, issued, fdone, report, stamp, bounds>>

EndReset ==
    /\ proc.mode = "Factory" /\ proc.did = "cleanup"
    /\ fdone' = MarksGo
    /\ proc' = Idle /\ report' = "Reset"
    /\ UNCHANGED <<state, cluster, storage, cache, issued, plan, stamp, bounds>>

\* rp_reset_run_phase
MarkReset ==
    /\ proc.mode = "Factory" /\ proc.did # "cleanup" /\ proc.did = Current(ResetPhases, fdone)
    /\ fdone' = fdone \cup {proc.did}
    /\ Did("None")
    /\ UNCHANGED <<state, cluster, storage, cache, issued, plan, report, stamp, bounds>>

Reset ==
    \/ ResetSettings \/ ResetInstallerState \/ StartReset \/ PreserveCertificate \/ RemoveStack
    \/ RemoveSwarmResources \/ UnmountRuntime \/ LeaveSwarm \/ WipeStorage \/ RemoveData \/ RemoveState
    \/ CleanUp \/ EndReset \/ MarkReset

-----------------------------------------------------------------------------
(* A run is killed or a phase fails, and the host *)

Ends ==
    /\ proc.mode # "Idle"
    /\ "identity" \in Cases \/ proc.did # "client"
    /\ proc' = Idle
    /\ UNCHANGED <<state, cluster, storage, cache, issued, resetting, report, stamp, bounds>>

Event == events < MaxEvents /\ events' = events + 1 /\ UNCHANGED runs

\* During a reset another disk appears under the name of the storage, or goes again.
Swap ==
    /\ Event /\ proc.mode = "Factory" /\ ~mounted
    /\ disk' = IF disk = "storage" THEN "spare" ELSE "storage"
    /\ UNCHANGED <<state, cluster, mounted, db, cert, spared, cache, issued, resetting, proc, report, stamp>>

Daemon ==
    /\ Event /\ "down" \in Cases
    /\ docker' = ~docker
    /\ UNCHANGED <<state, swarm, stack, storage, cache, issued, resetting, proc, report, stamp>>

Next == Install \/ Reset \/ Ends \/ Swap \/ Daemon

Spec == Init /\ [][Next]_vars

-----------------------------------------------------------------------------
Range(s) == {s[i] : i \in 1..Len(s)}

\* Marks name phases, and a run is at one of its phases or steps.
TypeOK ==
    /\ done \subseteq Range(InstallPhases) /\ fdone \subseteq Range(ResetPhases)
    /\ files \in 0..MaxStamp /\ conf \in (0..MaxStamp) \cup {None}
    /\ stack.stage \in {"None", "bootstrap", "ingress", "final"}
    /\ proc.mode \in {"Idle", "Install", "Factory"} /\ proc.oidc \in 0..MaxStamp
    /\ report \in {"None", "Installed", "Reset"}

\* The control plane has the secrets that its databases were initialised with, wherever an install was
\* interrupted and run again (rp_primary_create_platform_secrets, rp_primary_restore_secret_state).
SecretsFit == stack.stage # "None" => stack.url = db.rp /\ stack.key = db.idp

\* An install that reports completion is deployed, on a migrated database, with the secret of the identity
\* provider's client (rp_primary_install, rp_apply_zitadel_bootstrap_output).
InstalledIsDeployed ==
    report = "Installed" =>
        /\ stack.stage = "final" /\ db.schema
        /\ db.client # 0 /\ stack.oidc = db.client /\ conf = db.client

\* A reset that reports that data and storage were destroyed has destroyed them (rp_reset_final_cleanup).
ResetDestroys ==
    report = "Reset" =>
        /\ stack = NoStack /\ swarm = NoSwarm /\ db = NoData /\ ~mounted
        /\ done = {} /\ files = 0 /\ conf = None

\* Only the disk that was approved is wiped (rp_reset_storage_revalidate).
SpareIsKept == spared

\* A production certificate is ordered once, however often the host is reset (rp_acme_restore_cached_state,
\* rp_reset_preserve_acme_state).
IssuedOnce == issued <= 1
=============================================================================
