------------------------------ MODULE Upgrade ------------------------------
(***************************************************************************)
(* The update of the platform to a release: an operation of the queue      *)
(* starts an updater next to the stack, the installer of the target        *)
(* release quiesces the clients of the databases, takes snapshots, moves   *)
(* the stack and migrates, and undoes all of it when a step fails.  The    *)
(* journal on disk decides whether a later attempt may begin.  The worker  *)
(* that runs the operation is one of the services the installer replaces.  *)
(***************************************************************************)
EXTENDS Naturals, FiniteSets

CONSTANTS
    Targets,            \* releases after the first, which is installed
    Tested(_),          \* a rollback of the release restores the databases; FALSE: its
                        \* schemas are those of the releases it is reached from
    SupportedFrom(_),   \* the releases it may be reached from
    Cases,              \* windows that are open: "created" (an updater is created and not
                        \* started, because the command was cut off in between)
    MaxAttempts,        \* attempts of an operation
    MaxRetries,         \* bound: retries by an administrator
    MaxFaults,          \* bound: steps that fail
    MaxCrashes,         \* bound: installers and updaters that are killed
    MaxRows             \* bound: writes of the clients

UpgradeAssumption ==
    /\ Targets \subseteq Nat \ {0, 1} /\ Targets # {}
    /\ \A t \in Targets :
          /\ Tested(t) \in BOOLEAN
          /\ SupportedFrom(t) \subseteq {v \in {1} \cup Targets : v < t}   \* ancestors, release.yml
    /\ Cases \subseteq {"created"}
    /\ {MaxAttempts, MaxRetries, MaxFaults, MaxCrashes, MaxRows} \subseteq Nat
    /\ MaxAttempts # 0

VARIABLES
    op,                 \* the operation of each target: its status and attempts, and whether
                        \* it was retried after its updater ended
    updater,            \* the last container of each operation
    inst,               \* the installer that runs: its step, target and source release
    api, zitadel,       \* the releases of the API and worker and of ZITADEL; 0: no replicas
    db,                 \* of both databases: the schema, and the rows of ResourcePortal's
    dump,               \* the snapshot
    files,              \* the release that each file of the installer names
    journal,            \* state.json and the files that it keeps
    upFaults, crashes, retries,
    base,               \* the release of the last upgrade that was completed
    kept                \* the rows that its services wrote

opVars == <<op, updater>>
diskVars == <<db, dump, files, journal>>
vars == <<op, updater, inst, api, zitadel, db, dump, files, journal, upFaults, crashes,
          retries, base, kept>>

Idle == [pc |-> "Idle", to |-> 1, from |-> 1]
All(v) == [manifest |-> v, config |-> v, stack |-> v]

Init ==
    /\ op = [t \in Targets |-> [status |-> "None", tries |-> 0, fresh |-> FALSE]]
    /\ updater = [t \in Targets |-> "None"]
    /\ inst = Idle
    /\ api = 1 /\ zitadel = 1
    /\ db = [rp |-> 1, zit |-> 1, rows |-> {}]
    /\ dump = db
    /\ files = All(1)
    /\ journal = [phase |-> "completed", from |-> 1, to |-> 1, snapshot |-> "none",
                  late |-> FALSE, prev |-> All(1)]
    /\ upFaults = 0 /\ crashes = 0 /\ retries = 0
    /\ base = 1 /\ kept = {}

Fault == upFaults < MaxFaults /\ upFaults' = upFaults + 1

-----------------------------------------------------------------------------
(* PlatformReleaseService, OperationsService *)

\* The key of the operation is the target, so that asking again finds the same one.
RequestUpdate(t) ==
    /\ api # 0 /\ t > api /\ api \in SupportedFrom(t)
    /\ op[t].status = "None"
    /\ op' = [op EXCEPT ![t].status = "Queued"]
    /\ UNCHANGED <<updater, inst, api, zitadel, diskVars, upFaults, crashes, retries, base, kept>>

\* An administrator retries a failed operation: its startedAt is cleared.
Retry(t) ==
    /\ api # 0 /\ op[t].status = "Failed"
    /\ retries < MaxRetries /\ retries' = retries + 1
    /\ op' = [op EXCEPT ![t] = [status |-> "Queued", tries |-> 0,
                                fresh |-> updater[t] = "Failed"]]
    /\ UNCHANGED <<updater, inst, api, zitadel, diskVars, upFaults, crashes, base, kept>>

\* The queue: an attempt that may be repeated, or the last one.
Again(o) == [o EXCEPT !.status = IF o.tries < MaxAttempts THEN "Queued" ELSE "Failed"]

-----------------------------------------------------------------------------
(* PlatformReleaseUpdateOperationExecutor, run by a worker of the stack *)

\* What is done without an updater to wait for: the version of the worker proves nothing.
WithoutUpdater(t) == IF api = t THEN "Fail" ELSE "Start"

\* execute, to the wait for the updater.
Execute(t) ==
    /\ api # 0 /\ op[t].status = "Queued"
    /\ LET o == [op[t] EXCEPT !.tries = @ + 1, !.fresh = FALSE]
           new == updater[t] = "None" \/ (updater[t] = "Failed" /\ op[t].fresh)
           Status(s) == op' = [op EXCEPT ![t] = [o EXCEPT !.status = s]]
       IN \/ /\ new /\ WithoutUpdater(t) # "Start"
             /\ Status(IF WithoutUpdater(t) = "Fail" THEN "Failed" ELSE "Succeeded")
             /\ UNCHANGED <<updater, upFaults>>
          \/ /\ new /\ WithoutUpdater(t) = "Start"
             /\ \/ /\ Status("Running") /\ updater' = [updater EXCEPT ![t] = "Starting"]
                   /\ UNCHANGED upFaults
                \/ /\ Fault /\ op' = [op EXCEPT ![t] = Again(o)]     \* retryable
                   /\ \/ UNCHANGED updater
                      \/ "created" \in Cases /\ updater' = [updater EXCEPT ![t] = "Created"]
          \/ /\ ~new /\ updater[t] = "Failed"
             /\ Status("Failed") /\ UNCHANGED <<updater, upFaults>>
          \/ /\ ~new /\ updater[t] # "Failed"
             /\ Status("Running") /\ UNCHANGED <<updater, upFaults>>
    /\ UNCHANGED <<inst, api, zitadel, diskVars, crashes, retries, base, kept>>

\* docker wait: the exit code; one that was created only has the code 0.
Waited(t) ==
    /\ api # 0 /\ op[t].status = "Running"
    /\ updater[t] \in {"Failed", "Done", "Created"}
    /\ op' = [op EXCEPT ![t].status = IF updater[t] = "Failed" THEN "Failed" ELSE "Succeeded"]
    /\ UNCHANGED <<updater, inst, api, zitadel, diskVars, upFaults, crashes, retries, base, kept>>

\* The wait timed out after half an hour, or the worker went and a later one reclaims
\* the lease, which keeps startedAt.
Reclaim(t) ==
    /\ api # 0 /\ op[t].status = "Running" /\ updater[t] \in {"Starting", "Running"}
    /\ op' = [op EXCEPT ![t] = Again(@)]
    /\ UNCHANGED <<updater, inst, api, zitadel, diskVars, upFaults, crashes, retries, base, kept>>

\* The clients of the database write while they run.
Write ==
    /\ api # 0
    /\ \E r \in 1..MaxRows :
          /\ r \notin kept \cup db.rows \cup dump.rows
          /\ db' = [db EXCEPT !.rows = @ \cup {r}]
          /\ kept' = IF api = base THEN kept \cup {r} ELSE kept
    /\ UNCHANGED <<op, updater, inst, api, zitadel, dump, files, journal, upFaults, crashes,
                   retries, base>>

-----------------------------------------------------------------------------
(* target-upgrade.sh and the dispatch of resourceportal-install.sh *)

\* The installer of the target, under the lock of all installers; its source is the
\* version in the configuration.
Launch(t) ==
    /\ updater[t] = "Starting"
    /\ IF inst.pc = "Idle" /\ files.config \in SupportedFrom(t)
       THEN /\ inst' = [pc |-> "Prepare", to |-> t, from |-> files.config]
            /\ updater' = [updater EXCEPT ![t] = "Running"] /\ UNCHANGED upFaults
       ELSE updater' = [updater EXCEPT ![t] = "Failed"] /\ UNCHANGED <<inst, upFaults>>
    /\ UNCHANGED <<op, api, zitadel, diskVars, crashes, retries, base, kept>>

\* The download, the verification of the manifest or the preflight fails.
LaunchFails(t) ==
    /\ updater[t] = "Starting" /\ Fault
    /\ updater' = [updater EXCEPT ![t] = "Failed"]
    /\ UNCHANGED <<op, inst, api, zitadel, diskVars, crashes, retries, base, kept>>

\* Mutant: the supervisor loses the exit code of the installer.
ExitUnseen(status) == inst' = Idle /\ UNCHANGED updater
\* The supervisor ends with the installer.
Exit(status) ==
    /\ inst' = Idle
    /\ updater' = [updater EXCEPT ![inst.to] = IF @ = "Running" THEN status ELSE @]

\* The installer is killed: nothing is undone.
Crash ==
    /\ inst.pc # "Idle" /\ crashes < MaxCrashes /\ crashes' = crashes + 1
    /\ Exit("Failed")
    /\ UNCHANGED <<op, api, zitadel, diskVars, upFaults, retries, base, kept>>

\* Only the supervisor is killed.
SupervisorDies(t) ==
    /\ updater[t] = "Running" /\ crashes < MaxCrashes /\ crashes' = crashes + 1
    /\ updater' = [updater EXCEPT ![t] = "Failed"]
    /\ UNCHANGED <<op, inst, api, zitadel, diskVars, upFaults, retries, base, kept>>

-----------------------------------------------------------------------------
(* upgrade.sh: the journal *)

Goto(pc) == inst' = [inst EXCEPT !.pc = pc]

SettledPhases == {"completed", "rolled-back"}

\* The journal of a new upgrade, with what it keeps of the source.
Opened ==
    [phase |-> "applying", from |-> inst.from, to |-> inst.to, snapshot |-> "none",
     late |-> FALSE, prev |-> files]

\* Mutant: databases that were not restored do not matter.
RecoverAlways == journal.from = inst.from
\* rp_upgrade_reconcile_failed_rollback: the databases are those of the source.
Recoverable ==
    /\ journal.from = inst.from
    /\ journal.snapshot = "restored" \/ (journal.snapshot = "none" /\ ~Tested(journal.to))

\* rp_upgrade_checkpoint_prepare
Prepare ==
    /\ inst.pc = "Prepare"
    /\ \/ /\ journal.phase \in SettledPhases
          /\ journal' = Opened
          /\ Goto("QuiesceApi") /\ UNCHANGED updater
       \/ /\ journal.phase = "rollback-failed" /\ Recoverable
          /\ Goto("AgainDeploy") /\ UNCHANGED <<updater, journal>>
       \/ /\ journal.phase \notin SettledPhases
          /\ ~(journal.phase = "rollback-failed" /\ Recoverable)
          /\ Exit("Failed") /\ UNCHANGED journal
    /\ UNCHANGED <<op, api, zitadel, db, dump, files, upFaults, crashes, retries, base, kept>>

\* The stack of the journal; ZITADEL migrates its database when it starts.
DeployPrevious == api' = journal.prev.stack /\ zitadel' = journal.prev.stack

\* The recovery of a failed rollback: the stack, then the files and the phase.
AgainDeploy ==
    /\ inst.pc = "AgainDeploy"
    /\ DeployPrevious /\ Goto("AgainFiles")
    /\ UNCHANGED <<opVars, diskVars, upFaults, crashes, retries, base, kept>>
AgainFiles ==
    /\ inst.pc = "AgainFiles"
    /\ files' = journal.prev
    /\ journal' = [journal EXCEPT !.phase = "rolled-back"]
    /\ Goto("Prepare")
    /\ UNCHANGED <<opVars, api, zitadel, db, dump, upFaults, crashes, retries, base, kept>>
AgainFails ==
    /\ inst.pc \in {"AgainDeploy", "AgainFiles"} /\ Fault
    /\ inst.pc = "AgainDeploy" => UNCHANGED <<api, zitadel>> \/ DeployPrevious
    /\ inst.pc # "AgainDeploy" => UNCHANGED <<api, zitadel>>
    /\ Exit("Failed")
    /\ UNCHANGED <<op, diskVars, crashes, retries, base, kept>>

-----------------------------------------------------------------------------
(* upgrade.sh: rp_upgrade_apply *)

\* rp_upgrade_quiesce_database_clients, of an upgrade and of a restore.
QuiesceApi ==
    /\ inst.pc \in {"QuiesceApi", "UndoQuiesceApi"}
    /\ api' = 0
    /\ Goto(IF inst.pc = "QuiesceApi" THEN "QuiesceZitadel" ELSE "UndoQuiesceZitadel")
    /\ UNCHANGED <<opVars, zitadel, diskVars, upFaults, crashes, retries, base, kept>>

AfterQuiesce == IF Tested(inst.to) THEN "Snapshot" ELSE "Postgres"

QuiesceZitadel ==
    /\ inst.pc \in {"QuiesceZitadel", "UndoQuiesceZitadel"}
    /\ zitadel' = 0
    /\ Goto(IF inst.pc = "QuiesceZitadel" THEN AfterQuiesce ELSE "Restore")
    /\ UNCHANGED <<opVars, api, diskVars, upFaults, crashes, retries, base, kept>>

\* rp_upgrade_database_snapshot_prepare: the marker follows both dumps.
Snapshot ==
    /\ inst.pc = "Snapshot"
    /\ dump' = db
    /\ journal' = [journal EXCEPT !.snapshot = "verified"]
    /\ Goto("Postgres")
    /\ UNCHANGED <<opVars, api, zitadel, db, files, upFaults, crashes, retries, base, kept>>

\* From this stage on the databases are no longer known to be those of the source.
Postgres ==
    /\ inst.pc = "Postgres"
    /\ journal' = [journal EXCEPT !.late = TRUE]
    /\ Goto("Zitadel")
    /\ UNCHANGED <<opVars, api, zitadel, db, dump, files, upFaults, crashes, retries, base, kept>>

\* rp_upgrade_prepare_zitadel_for_mcp_oauth and the OAuth applications
Zitadel ==
    /\ inst.pc = "Zitadel"
    /\ zitadel' = inst.to /\ db' = [db EXCEPT !.zit = inst.to]
    /\ Goto("Migrate")
    /\ UNCHANGED <<opVars, api, dump, files, journal, upFaults, crashes, retries, base, kept>>

\* rp_run_migrations
Migrate ==
    /\ inst.pc = "Migrate"
    /\ db' = [db EXCEPT !.rp = inst.to]
    /\ Goto("Deploy")
    /\ UNCHANGED <<opVars, api, zitadel, dump, files, journal, upFaults, crashes, retries, base,
                   kept>>

\* rp_deploy_control_plane final; its health and that of the tenants' providers follow.
Deploy ==
    /\ inst.pc = "Deploy"
    /\ api' = inst.to /\ zitadel' = inst.to
    /\ Goto("Manifest")
    /\ UNCHANGED <<opVars, diskVars, upFaults, crashes, retries, base, kept>>

\* The manifest, the configuration and the stack file name the target, one after another.
Persist ==
    /\ inst.pc \in {"Manifest", "Config", "Stack"}
    /\ CASE inst.pc = "Manifest" -> files' = [files EXCEPT !.manifest = inst.to] /\ Goto("Config")
         [] inst.pc = "Config" -> files' = [files EXCEPT !.config = inst.to] /\ Goto("Stack")
         [] OTHER -> files' = [files EXCEPT !.stack = inst.to] /\ Goto("Complete")
    /\ UNCHANGED <<opVars, api, zitadel, db, dump, journal, upFaults, crashes, retries, base, kept>>

Complete ==
    /\ inst.pc = "Complete"
    /\ journal' = [journal EXCEPT !.phase = "completed"]
    /\ base' = inst.to /\ kept' = db.rows
    /\ Exit("Done")
    /\ UNCHANGED <<op, api, zitadel, db, dump, files, upFaults, crashes, retries>>

-----------------------------------------------------------------------------
(* upgrade.sh: rp_upgrade_restore_after_failure *)

\* Where an undo begins: rp_upgrade_database_restore, unless there is nothing to restore.
UndoFrom == IF journal.snapshot = "verified" THEN "UndoQuiesceApi" ELSE "UndoDeploy"

\* A step of the upgrade fails; what it did may be there.
StepFails ==
    /\ inst.pc \in {"QuiesceApi", "QuiesceZitadel", "Snapshot", "Postgres", "Zitadel", "Migrate",
                    "Deploy", "Manifest", "Config", "Stack", "Complete"}
    /\ Fault
    /\ \/ UNCHANGED <<api, zitadel, db>>
       \/ /\ inst.pc = "Zitadel" /\ UNCHANGED api
          /\ zitadel' = inst.to /\ db' = [db EXCEPT !.zit = inst.to]
       \/ /\ inst.pc = "Migrate" /\ UNCHANGED <<api, zitadel>>
          /\ db' = [db EXCEPT !.rp = inst.to]
       \/ inst.pc = "Deploy" /\ api' = inst.to /\ zitadel' = inst.to /\ UNCHANGED db
    /\ IF Tested(inst.to) /\ journal.snapshot = "none" /\ journal.late
       THEN /\ journal' = [journal EXCEPT !.phase = "rollback-failed"]
            /\ Exit("Failed")
       ELSE /\ journal' = [journal EXCEPT !.phase = "rolling-back"]
            /\ Goto(UndoFrom) /\ UNCHANGED updater
    /\ UNCHANGED <<op, dump, files, crashes, retries, base, kept>>

\* Mutant: the marker is written when the first database is back.
MarkEarly(half) == [journal EXCEPT !.snapshot = "restored"]
\* The marker, once the second database was swapped.
Marked(half) == IF half THEN journal ELSE [journal EXCEPT !.snapshot = "restored"]

\* rp_upgrade_database_restore: one database after the other, each swapped as a whole.
Restore ==
    /\ inst.pc \in {"Restore", "RestoreZitadel"}
    /\ LET half == inst.pc = "Restore"
       IN /\ db' = IF half THEN [dump EXCEPT !.zit = db.zit] ELSE [db EXCEPT !.zit = dump.zit]
          /\ journal' = Marked(half)
          /\ Goto(IF half THEN "RestoreZitadel" ELSE "UndoDeploy")
    /\ UNCHANGED <<opVars, api, zitadel, dump, files, upFaults, crashes, retries, base, kept>>

UndoDeploy ==
    /\ inst.pc = "UndoDeploy"
    /\ DeployPrevious /\ Goto("UndoFiles")
    /\ UNCHANGED <<opVars, diskVars, upFaults, crashes, retries, base, kept>>

\* The previous stack is healthy: rp_upgrade_restore_manifest_checkpoint, then the phase.
UndoFiles ==
    /\ inst.pc = "UndoFiles"
    /\ files' = journal.prev
    /\ journal' = [journal EXCEPT !.phase = "rolled-back"]
    /\ Exit("Failed")
    /\ UNCHANGED <<op, api, zitadel, db, dump, upFaults, crashes, retries, base, kept>>

\* Nothing is started on databases that are not those of the source.
UndoFails ==
    /\ inst.pc \in {"UndoQuiesceApi", "UndoQuiesceZitadel", "Restore", "RestoreZitadel",
                    "UndoDeploy", "UndoFiles"}
    /\ Fault
    /\ inst.pc = "UndoDeploy" => UNCHANGED <<api, zitadel>> \/ DeployPrevious
    /\ inst.pc # "UndoDeploy" => UNCHANGED <<api, zitadel>>
    /\ journal' = [journal EXCEPT !.phase = "rollback-failed"]
    /\ Exit("Failed")
    /\ UNCHANGED <<op, db, dump, files, crashes, retries, base, kept>>

-----------------------------------------------------------------------------

Installer ==
    Prepare \/ AgainDeploy \/ AgainFiles \/ QuiesceApi \/ QuiesceZitadel \/ Snapshot
    \/ Postgres \/ Zitadel \/ Migrate \/ Deploy \/ Persist \/ Complete \/ Restore
    \/ UndoDeploy \/ UndoFiles
Worker(t) == Execute(t) \/ Waited(t) \/ Launch(t)

Next ==
    \/ \E t \in Targets : RequestUpdate(t) \/ Retry(t) \/ Worker(t) \/ Reclaim(t)
                          \/ LaunchFails(t) \/ SupervisorDies(t)
    \/ Installer \/ StepFails \/ UndoFails \/ AgainFails \/ Crash \/ Write

Spec == Init /\ [][Next]_vars
FairSpec == Spec /\ WF_vars(Installer) /\ \A t \in Targets : WF_vars(Worker(t))

-----------------------------------------------------------------------------
(* Properties *)

Releases == {1} \cup Targets
TypeOK ==
    /\ op \in [Targets -> [status : {"None", "Queued", "Running", "Failed", "Succeeded"},
                           tries : 0..MaxAttempts, fresh : BOOLEAN]]
    /\ updater \in [Targets -> {"None", "Created", "Starting", "Running", "Failed", "Done"}]
    /\ {api, zitadel} \subseteq {0} \cup Releases /\ base \in Releases
    /\ {inst.to, inst.from, db.rp, db.zit, dump.rp, dump.zit} \subseteq Releases
    /\ kept \subseteq 1..MaxRows /\ db.rows \subseteq 1..MaxRows

\* No service runs on a database of a later release, unless a rollback from that one was
\* certified to keep the schema, and none on an earlier one: whatever fails, is killed or
\* is tried again (rp_upgrade_restore_after_failure, rp_upgrade_reconcile_failed_rollback).
Runs(service, schema) ==
    service = schema \/ (service < schema /\ ~Tested(schema) /\ service \in SupportedFrom(schema))
ServicesFitTheirData ==
    /\ api # 0 => Runs(api, db.rp)
    /\ zitadel # 0 => Runs(zitadel, db.zit)

\* No row is lost that a service of the installed release wrote: what an undo throws away
\* was written by the release that is undone (rp_upgrade_database_restore).
RowsAreKept == kept \subseteq db.rows

\* A settled journal is true: the files, the services and the databases are those of the
\* release that it names (rp_upgrade_checkpoint_phase).
JournalIsTrue ==
    journal.phase \in SettledPhases =>
        LET v == IF journal.phase = "completed" THEN journal.to ELSE journal.from
        IN /\ v = base /\ files = All(v)
           /\ inst.pc \notin {"Idle", "Prepare"} \/ (api = v /\ zitadel = v)

\* An update that succeeded was completed by its installer
\* (PlatformReleaseUpdateOperationExecutor).
SucceededIsCompleted == \A t \in Targets : op[t].status = "Succeeded" => base >= t

\* A requested update ends, or the platform waits for an operator because an installer was
\* killed or could not undo its work: nothing runs that could tell the operation.
Ended(t) == op[t].status \in {"Failed", "Succeeded"}
Waiting == api = 0 /\ inst.pc = "Idle" /\ journal.phase \notin SettledPhases
UpdateEnds == \A t \in Targets : (op[t].status = "Queued") ~> (Ended(t) \/ Waiting)
=============================================================================
