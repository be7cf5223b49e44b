------------------------------- MODULE Uplink -------------------------------
(***************************************************************************)
(* The migration of a gate's management Ethernet to a bridge that          *)
(* ResourcePortal owns, which cuts the host off when it goes wrong.  A     *)
(* durable checkpoint and a watchdog of systemd undo it unless it was      *)
(* verified: the installer arms, a job of NetworkManager migrates,         *)
(* auto-confirm verifies, and the watchdog rolls back once the deadlines   *)
(* of the others are over.  Any of them may be killed and the host may     *)
(* reboot between two steps.                                               *)
(***************************************************************************)
EXTENDS Naturals, Sequences

CONSTANTS
    Managers,           \* network managers the host may have
    Cases,              \* windows that are open: "race" (a migration is confirmed while it is
                        \* rolled back, or after a rollback of networkd ended halfway),
                        \* "reboot" (in that rollback, between the return of the original
                        \* file and the removal of the bridge's),
                        \* "again" (a migration armed before the end of the last one has
                        \* disabled the timer)
    MaxFaults,          \* bound: commands that fail
    MaxEvents           \* bound: reboots, kills, confirmations by hand, changes of the LAN

UplinkAssumption ==
    /\ Managers \subseteq {"Networkd", "Netplan", "Native"} /\ Managers # {}
    /\ Cases \subseteq {"race", "reboot", "again"}
    /\ MaxFaults \in Nat /\ MaxEvents \in Nat

VARIABLES
    manager,
    files,              \* the parts of the bridge's configuration that are on disk
    checkpoint, proof,  \* uplink-checkpoint.json and managed-uplink.json exist
    timer,              \* the watchdog's timer is enabled
    kernel,             \* the bridge exists, has the Ethernet as its port and its alias; the
                        \* interface that has the host's address
    lan,                \* a bridge would get its lease and reach the control plane
    pc,                 \* the step each process is at
    faults, events

disk == <<files, checkpoint, proof, timer>>
vars == <<manager, disk, kernel, lan, pc, faults, events>>

Procs == {"install", "migrate", "confirm", "watchdog"}
Plain == [bridge |-> FALSE, port |-> FALSE, alias |-> FALSE, addr |-> "device"]

\* What the bridge needs on disk, in the order in which it is written.
Parts == CASE manager = "Networkd" -> <<"uplink", "netdev", "network">>
           [] manager = "Netplan" -> <<"override">>
           [] OTHER -> <<"bridge", "port">>
AllParts == {Parts[i] : i \in DOMAIN Parts}

\* Mutant: the checkpoint is forgotten before the configuration is gone.
ForgetEarly ==
    CASE manager = "Networkd" ->
            <<"Check", "Forget", "Restore", "Delete", "Clean", "Unprove", "Reload", "Disarm">>
      [] manager = "Netplan" -> <<"Check", "Forget", "Clean", "Reload", "Unprove", "Disarm">>
      [] OTHER -> <<"Check", "Forget", "Reload", "Clean", "Delete", "Unprove", "Disarm">>

\* Mutant: the timer is disabled before the commands that may fail.
DisarmFirst ==
    CASE manager = "Networkd" ->
            <<"Check", "Disarm", "Restore", "Delete", "Clean", "Unprove", "Reload", "Forget">>
      [] manager = "Netplan" -> <<"Check", "Disarm", "Clean", "Reload", "Unprove", "Forget">>
      [] OTHER -> <<"Check", "Disarm", "Reload", "Clean", "Delete", "Unprove", "Forget">>

\* What a rollback does, in order (rollback, rollback_networkmanager and
\* rollback_native_networkmanager).
RollbackOrder ==
    CASE manager = "Networkd" ->
            <<"Check", "Restore", "Delete", "Clean", "Unprove", "Reload", "Forget", "Disarm">>
      [] manager = "Netplan" ->
            <<"Check", "Clean", "Reload", "Unprove", "Forget", "Disarm">>
      [] OTHER ->
            <<"Check", "Reload", "Clean", "Delete", "Unprove", "Forget", "Disarm">>
After(s) == LET i == CHOOSE i \in DOMAIN RollbackOrder : RollbackOrder[i] = s
            IN IF i = Len(RollbackOrder) THEN "Idle" ELSE RollbackOrder[i + 1]

RollingBack(p) == pc[p] \in {RollbackOrder[i] : i \in DOMAIN RollbackOrder}
Confirming == pc["confirm"] \in {"Mark", "Prove", "Accept", "Relax"}
Others == {"install", "migrate", "confirm"}
Halfway == manager = "Networkd" /\ "netdev" \in files /\ "uplink" \notin files
Apart == "race" \in Cases \/ ~(Confirming /\ (Halfway \/ \E p \in Procs : RollingBack(p)))

Init ==
    /\ manager \in Managers
    /\ files = {} /\ checkpoint = FALSE /\ proof = FALSE /\ timer = FALSE
    /\ kernel = Plain /\ lan \in BOOLEAN
    /\ pc = [p \in Procs |-> "Idle"] /\ faults = 0 /\ events = 0

Goto(p, s) == pc' = [pc EXCEPT ![p] = s]
Fault == faults < MaxFaults /\ faults' = faults + 1

-----------------------------------------------------------------------------
(* External: the network managers *)

\* The network that the configuration on disk gives; bridge says that one is there
\* already.
Configured(bridge) ==
    LET there == bridge \/ (manager = "Networkd" /\ "netdev" \in files) \/ files = AllParts
        port == IF manager = "Networkd" THEN "uplink" \in files /\ there ELSE files = AllParts
    IN [bridge |-> there, port |-> port, alias |-> bridge /\ kernel.alias,
        addr |-> IF ~port /\ "uplink" \notin files THEN "device"
                 ELSE IF files = AllParts THEN "bridge" ELSE "none"]

Reachable == kernel.addr = "device" \/ (kernel.addr = "bridge" /\ lan)

-----------------------------------------------------------------------------
(* arm *)

\* preflight: a plain Ethernet, and nothing of a bridge on disk
Eligible == files = {} /\ kernel = Plain

\* preflight, then the units and the checkpoint
Arm ==
    /\ pc["install"] = "Idle"
    /\ "again" \in Cases \/ \A p \in Procs : pc[p] = "Idle"
    /\ ~checkpoint /\ Eligible
    /\ events < MaxEvents /\ events' = events + 1
    /\ checkpoint' = TRUE
    /\ Goto("install", "Enable")
    /\ UNCHANGED <<manager, files, proof, timer, kernel, lan, faults>>

\* The watchdog is on before anything else is done.
Enable ==
    /\ pc["install"] = "Enable"
    /\ timer' = TRUE
    /\ Goto("install", "Start")
    /\ UNCHANGED <<manager, files, checkpoint, proof, kernel, lan, faults, events>>

\* The verification and, for the native NetworkManager, the migration are jobs of
\* systemd of their own.
Start ==
    /\ pc["install"] = "Start" /\ pc["confirm"] = "Idle"
    /\ pc' = [pc EXCEPT !["confirm"] = "Verify",
                        !["install"] = IF manager = "Native" THEN "Idle" ELSE "Write",
                        !["migrate"] = IF manager = "Native" THEN "Write" ELSE @]
    /\ UNCHANGED <<manager, disk, kernel, lan, faults, events>>

\* The next part of the bridge's configuration (arm, apply_native_networkmanager).
Write(p) ==
    /\ pc[p] = "Write"
    /\ \E i \in DOMAIN Parts :
          /\ Parts[i] \notin files /\ \A j \in 1..(i - 1) : Parts[j] \in files
          /\ files' = files \cup {Parts[i]}
          /\ Goto(p, IF i = Len(Parts) THEN "Apply" ELSE "Write")
    /\ UNCHANGED <<manager, checkpoint, proof, timer, kernel, lan, faults, events>>

Apply(p) ==
    /\ pc[p] = "Apply"
    /\ kernel' = Configured(kernel.bridge)
    /\ Goto(p, "Idle")
    /\ UNCHANGED <<manager, disk, lan, faults, events>>

\* An exception: rollback, which does nothing without a checkpoint; the link may have
\* moved before it (the original connection is down, or a command timed out).
ArmFails(p) ==
    /\ pc[p] \in {"Enable", "Start", "Write", "Apply"} /\ Fault
    /\ Goto(p, IF checkpoint THEN "Check" ELSE "Idle")
    /\ \/ UNCHANGED kernel
       \/ pc[p] = "Apply" /\ kernel' = Configured(kernel.bridge)
       \/ pc[p] = "Apply" /\ manager = "Native" /\ kernel' = [kernel EXCEPT !.addr = "none"]
    /\ UNCHANGED <<manager, disk, lan, events>>

-----------------------------------------------------------------------------
(* confirm, auto_confirm and refresh *)

\* verify: the bridge owns the port and the address, its configuration is on disk, and
\* the control plane authenticates the gate.
Verified == kernel.bridge /\ kernel.port /\ kernel.addr = "bridge" /\ lan
            /\ (IF manager = "Networkd" THEN "netdev" \in files ELSE files = AllParts)

\* By hand, within ten minutes of the preflight.
ConfirmByHand ==
    /\ pc["confirm"] = "Idle" /\ checkpoint
    /\ events < MaxEvents /\ events' = events + 1
    /\ Goto("confirm", "Verify")
    /\ UNCHANGED <<manager, disk, kernel, lan, faults>>

Verify ==
    /\ pc["confirm"] = "Verify"
    /\ checkpoint /\ Verified
    /\ Goto("confirm", "Mark")
    /\ UNCHANGED <<manager, disk, kernel, lan, faults, events>>

\* No checkpoint, or no success in any of its attempts, which it may not get for a reason
\* that is not modelled.
GiveUp ==
    /\ pc["confirm"] = "Verify"
    /\ Goto("confirm", "Idle")
    /\ UNCHANGED <<manager, disk, kernel, lan, faults, events>>

Mark ==
    /\ pc["confirm"] = "Mark"
    /\ IF kernel.bridge THEN /\ kernel' = [kernel EXCEPT !.alias = TRUE]
                             /\ Goto("confirm", "Prove")
                        ELSE /\ Goto("confirm", "Idle") /\ UNCHANGED kernel
    /\ UNCHANGED <<manager, disk, lan, faults, events>>

Prove ==
    /\ pc["confirm"] = "Prove"
    /\ proof' = TRUE
    /\ Goto("confirm", "Accept")
    /\ UNCHANGED <<manager, files, checkpoint, timer, kernel, lan, faults, events>>

Accept ==
    /\ pc["confirm"] = "Accept"
    /\ checkpoint' = FALSE
    /\ Goto("confirm", IF checkpoint THEN "Relax" ELSE "Idle")
    /\ UNCHANGED <<manager, files, proof, timer, kernel, lan, faults, events>>

Relax ==
    /\ pc["confirm"] = "Relax"
    /\ timer' = FALSE
    /\ Goto("confirm", "Idle")
    /\ UNCHANGED <<manager, files, checkpoint, proof, kernel, lan, faults, events>>

\* refresh, before every heartbeat of the agent
Refresh ==
    /\ ~checkpoint /\ proof /\ Verified /\ ~kernel.alias
    /\ kernel' = [kernel EXCEPT !.alias = TRUE]
    /\ UNCHANGED <<manager, disk, lan, pc, faults, events>>

-----------------------------------------------------------------------------
(* rollback *)

\* The timer fires after the deadlines of the jobs.
Watchdog ==
    /\ timer /\ checkpoint /\ pc["watchdog"] = "Idle"
    /\ \A p \in Others : pc[p] = "Idle"
    /\ Goto("watchdog", "Check")
    /\ UNCHANGED <<manager, disk, kernel, lan, faults, events>>

\* The bridge is the one of the checkpoint, or the rollback refuses to touch it.
Owned == manager = "Networkd" /\ kernel.bridge =>
             "netdev" \in files /\ (kernel.port \/ kernel.alias)

Check(p) ==
    /\ pc[p] = "Check"
    /\ Goto(p, IF ~checkpoint \/ ~Owned THEN "Idle" ELSE After("Check"))
    /\ UNCHANGED <<manager, disk, kernel, lan, faults, events>>

\* The original file is back before a link is touched.
Restore(p) ==
    /\ pc[p] = "Restore"
    /\ files' = files \ {"uplink"}
    /\ Goto(p, After("Restore"))
    /\ UNCHANGED <<manager, checkpoint, proof, timer, kernel, lan, faults, events>>

\* ip link delete
Delete(p) ==
    /\ pc[p] = "Delete"
    /\ kernel' = IF ~kernel.bridge THEN kernel
                 ELSE [bridge |-> FALSE, port |-> FALSE, alias |-> FALSE,
                       addr |-> IF kernel.addr = "device" THEN "device" ELSE "none"]
    /\ Goto(p, After("Delete"))
    /\ UNCHANGED <<manager, disk, lan, faults, events>>

\* The files, or the profiles, one by one: the last written first, but the netdev
\* before its network.
Clean(p) ==
    /\ pc[p] = "Clean"
    /\ files' = IF "port" \in files THEN files \ {"port"}
                ELSE IF "netdev" \in files THEN files \ {"netdev"} ELSE {}
    /\ Goto(p, IF files' = {} THEN After("Clean") ELSE "Clean")
    /\ UNCHANGED <<manager, checkpoint, proof, timer, kernel, lan, faults, events>>

Unprove(p) ==
    /\ pc[p] = "Unprove"
    /\ proof' = FALSE
    /\ Goto(p, After("Unprove"))
    /\ UNCHANGED <<manager, files, checkpoint, timer, kernel, lan, faults, events>>

\* The managers take the original configuration again; those of NetworkManager are
\* checked for it.
Reload(p) ==
    /\ pc[p] = "Reload"
    /\ kernel' = IF manager = "Networkd" THEN Configured(kernel.bridge)
                 ELSE IF manager = "Netplan" THEN Plain
                 ELSE [kernel EXCEPT !.port = FALSE, !.addr = "device"]
    /\ Goto(p, After("Reload"))
    /\ UNCHANGED <<manager, disk, lan, faults, events>>

Forget(p) ==
    /\ pc[p] = "Forget"
    /\ checkpoint' = FALSE
    /\ Goto(p, IF checkpoint THEN After("Forget") ELSE "Idle")
    /\ UNCHANGED <<manager, files, proof, timer, kernel, lan, faults, events>>

Disarm(p) ==
    /\ pc[p] = "Disarm"
    /\ timer' = FALSE
    /\ Goto(p, After("Disarm"))
    /\ UNCHANGED <<manager, files, checkpoint, proof, kernel, lan, faults, events>>

\* A command fails: the checkpoint stays for the watchdog's next attempt.
RollbackFails(p) ==
    /\ pc[p] \in {"Delete", "Clean", "Reload", "Disarm"} /\ Fault
    /\ Goto(p, "Idle")
    /\ UNCHANGED <<manager, disk, kernel, lan, events>>

-----------------------------------------------------------------------------
Killed(p) ==
    /\ pc[p] # "Idle" /\ p # "watchdog"
    /\ events < MaxEvents /\ events' = events + 1
    /\ Goto(p, "Idle")
    /\ UNCHANGED <<manager, disk, kernel, lan, faults>>

Reboot ==
    /\ (\E p \in Procs : pc[p] # "Idle") \/ checkpoint \/ proof
    /\ "reboot" \in Cases \/ ~Halfway
    /\ events < MaxEvents /\ events' = events + 1
    /\ kernel' = Configured(FALSE)
    /\ pc' = [p \in Procs |-> "Idle"]
    /\ UNCHANGED <<manager, disk, lan, faults>>

LanChanges ==
    /\ events < MaxEvents /\ events' = events + 1
    /\ lan' = ~lan
    /\ UNCHANGED <<manager, disk, kernel, pc, faults>>

Rollback(p) == Check(p) \/ Restore(p) \/ Delete(p) \/ Clean(p) \/ Unprove(p) \/ Reload(p)
               \/ Forget(p) \/ Disarm(p)
Confirm == Verify \/ GiveUp \/ Mark \/ Prove \/ Accept \/ Relax

Run(p) == (Write(p) \/ Apply(p) \/ Rollback(p)) /\ Apart'
Schedule == Enable \/ Start
AutoConfirm == Confirm /\ Apart'

Next ==
    \/ Arm \/ Schedule \/ AutoConfirm \/ ConfirmByHand \/ Watchdog \/ Refresh
    \/ \E p \in Procs : Run(p) \/ ((ArmFails(p) \/ RollbackFails(p)) /\ Apart') \/ Killed(p)
    \/ Reboot \/ LanChanges

Spec == Init /\ [][Next]_vars

\* systemd runs its jobs and its timer.
FairSpec ==
    /\ Spec /\ WF_vars(Schedule) /\ WF_vars(AutoConfirm) /\ WF_vars(Watchdog)
    /\ \A p \in Procs : WF_vars(Run(p))

-----------------------------------------------------------------------------
TypeOK ==
    /\ manager \in Managers /\ files \subseteq AllParts
    /\ checkpoint \in BOOLEAN /\ proof \in BOOLEAN /\ timer \in BOOLEAN /\ lan \in BOOLEAN
    /\ kernel \in [bridge : BOOLEAN, port : BOOLEAN, alias : BOOLEAN,
                   addr : {"device", "bridge", "none"}]
    /\ faults \in 0..MaxFaults /\ events \in 0..MaxEvents

\* What is not proven to work is watched: while a part of the bridge's configuration is on
\* disk without a proof, the checkpoint is there and its watchdog enabled (arm, rollback).
UnprovenIsWatched == files # {} /\ ~proof => checkpoint /\ timer

\* Without a checkpoint nothing is half done: the bridge is configured and proven, or
\* neither, whatever fails or is killed (confirm, rollback).
NothingIsHalfDone ==
    ~checkpoint => (files = AllParts /\ proof) \/ (files = {} /\ ~proof)

\* A migration that is watched ends, and a host that was cut off by one comes back or was
\* proven to work (watchdog).
MigrationEnds == checkpoint /\ timer ~> ~checkpoint
HostComesBack == ~Reachable /\ checkpoint /\ timer ~> Reachable \/ proof
=============================================================================
