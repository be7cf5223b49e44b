------------------------------ MODULE Networks ------------------------------
(***************************************************************************)
(* Tenant networks, the applications attached to them, the stacks that use *)
(* them and the devices that reach them by VPN.  API requests read before  *)
(* their transaction.  Two reconcilers run at the same time, each on a     *)
(* lane of the worker: the one of gates also creates and removes networks  *)
(* in Swarm, the other deploys the VPN gateway with its peers.             *)
(***************************************************************************)
EXTENDS Naturals, FiniteSets

CONSTANTS
    Nets, Apps, Devices,
    Blocks,         \* address spaces that are asked for, each a set of addresses
    PoolSize,       \* overlay spaces in their pool, which is apart from the Blocks
    Callers,        \* requests in progress
    Cases,          \* windows that are open: "attach" (a network is deleted between a check
                    \* and its change), "pending" (a network is deleted while it is created),
                    \* "access" (the VPN prepares a network that is being removed)
    MaxCalls,       \* bound: requests
    MaxFailures,    \* bound: Docker commands that fail
    None

NetworksAssumption == PoolSize \in Nat /\ MaxCalls \in Nat /\ MaxFailures \in Nat

VARIABLES
    net,        \* status ("None" before, "Gone" after the row), address space, overlay space,
                \* revision; crossed: a network went between its check and its insert
    attached,   \* rows of NetworkAttachment
    device,     \* status, revoked, networks it may reach; its user active or not
    appVersion, \* networks in the version of an application that is to be deployed, or None
    appStack,   \* networks that its deployed stack uses
    swarm,      \* overlay networks that exist
    peers,      \* the VPN gateway's stack: networks of each peer, None if it is no peer
    call,       \* a request between its checks and its transaction
    gate, vpn,  \* the reconcilers: what they have read and still have to do
    blind,      \* whether a change was made to a topology other than the one it expected
    calls, failures

vars == <<net, attached, device, appVersion, appStack, swarm, peers, call, gate, vpn, blind, calls, failures>>

NoCall == [pc |-> "Idle", net |-> None, app |-> None, device |-> None, block |-> {},
           overlay |-> 0, links |-> {}, expected |-> 0, seen |-> {}, there |-> {}, crossed |-> FALSE]
IdleLane == [pc |-> "Idle", pending |-> {}, deleting |-> {}, peers |-> [d \in Devices |-> None]]

Init ==
    /\ net = [n \in Nets |-> [status |-> "None", block |-> {}, overlay |-> 0, rev |-> 0, crossed |-> FALSE]]
    /\ attached = {} /\ swarm = {}
    /\ appVersion = [a \in Apps |-> None] /\ appStack = [a \in Apps |-> {}]
    /\ device = [d \in Devices |-> [status |-> "None", revoked |-> FALSE, links |-> {}, active |-> TRUE]]
    /\ peers = [d \in Devices |-> None]
    /\ call = [c \in Callers |-> NoCall] /\ gate = IdleLane /\ vpn = IdleLane
    /\ blind = FALSE /\ calls = 0 /\ failures = 0

Live(n) == net[n].status \notin {"None", "Gone"}
Usable(n) == Live(n) /\ net[n].status # "Deleting"
AppsOf(n) == {a \in Apps : <<n, a>> \in attached}
Accesses(n) == {d \in Devices : n \in device[d].links}
Known(d) == device[d].status # "None"

Begin(c, r) ==
    /\ call[c].pc = "Idle" /\ calls < MaxCalls /\ calls' = calls + 1
    /\ call' = [call EXCEPT ![c] = r]
    /\ UNCHANGED <<net, attached, device, appVersion, appStack, swarm, peers, gate, vpn, blind, failures>>
End(c) ==
    /\ call' = [call EXCEPT ![c] = NoCall]
    /\ UNCHANGED <<appVersion, appStack, swarm, peers, gate, vpn, calls, failures>>

-----------------------------------------------------------------------------
(* Networks *)

\* resolveNetworkCidr: it must not overlap a network there is.
Free(block) == \A n \in Nets : Live(n) => net[n].block \cap block = {}
\* nextAvailableNetworkCidr: the first of the pool that no network has.
NextOverlay(k) ==
    /\ \A n \in Nets : Live(n) => net[n].overlay # k
    /\ \A j \in 0..(k - 1) : \E n \in Nets : Live(n) /\ net[n].overlay = j

\* With no overlay space left the request is refused.
AskForNetwork(c, n, block) ==
    /\ net[n].status = "None" /\ Free(block)
    /\ \E k \in 0..(PoolSize - 1) :
          /\ NextOverlay(k)
          /\ Begin(c, [NoCall EXCEPT !.pc = "Create", !.net = n, !.block = block, !.overlay = k,
                                     !.there = {m \in Nets : Live(m)}])

\* Mutant: no unique key on the overlay space.
UniqueSpace(block, k) == \A n \in Nets : Live(n) => net[n].block # block
\* cidr and overlayCidr are unique: the insert of the same space fails.
UniqueCidr(block, k) == \A n \in Nets : Live(n) => net[n].block # block /\ net[n].overlay # k

CreateNetwork(c) == LET n == call[c].net IN
    /\ call[c].pc = "Create"
    /\ net' = IF UniqueCidr(call[c].block, call[c].overlay) /\ net[n].status = "None"
              THEN [net EXCEPT ![n] = [status |-> "Provisioning", block |-> call[c].block,
                      overlay |-> call[c].overlay, rev |-> 1, crossed |-> call[c].crossed]]
              ELSE net
    /\ End(c) /\ UNCHANGED <<attached, device, blind>>

\* deleteNetwork counts what uses the network, then marks it.
CountUsers(c, n) ==
    /\ Live(n) /\ AppsOf(n) = {} /\ Accesses(n) = {}
    /\ "pending" \in Cases \/ n \notin gate.pending
    /\ "access" \in Cases \/ vpn.pc = "Idle"
    /\ Begin(c, [NoCall EXCEPT !.pc = "Delete", !.net = n])

MarkDeleting(c) == LET n == call[c].net IN
    /\ call[c].pc = "Delete"
    /\ "attach" \in Cases \/ (AppsOf(n) = {} /\ Accesses(n) = {})
    /\ "pending" \in Cases \/ n \notin gate.pending
    /\ net' = IF Live(n) THEN [net EXCEPT ![n].status = "Deleting", ![n].rev = @ + 1] ELSE net
    /\ End(c) /\ UNCHANGED <<attached, device, blind>>

\* attachApplication and detachApplication read the network and the attachment; the
\* requester may say which revision it expects.
AskToChange(c, n, a, pc) ==
    /\ IF pc = "Attach" THEN Usable(n) /\ a \notin AppsOf(n) ELSE Live(n) /\ a \in AppsOf(n)
    /\ \E expected \in {0, net[n].rev} :
          Begin(c, [NoCall EXCEPT !.pc = pc, !.net = n, !.app = a, !.expected = expected, !.seen = AppsOf(n)])

\* Mutant: the revision stays.
SameRevision(n) == net
\* bumpNetworkRevision
BumpNetworkRevision(n) == [net EXCEPT ![n].rev = @ + 1]

\* The update by id and expected revision finds no row, or the insert or delete fails.
Attach(c) == LET n == call[c].net
                 a == call[c].app
                 allowed == /\ Live(n) /\ call[c].expected \in {0, net[n].rev}
                            /\ ("attach" \in Cases \/ Usable(n)) IN
    /\ call[c].pc \in {"Attach", "Detach"}
    /\ IF allowed /\ (a \in AppsOf(n) <=> call[c].pc = "Detach")
       THEN /\ net' = BumpNetworkRevision(n)
            /\ attached' = IF call[c].pc = "Attach" THEN attached \cup {<<n, a>>} ELSE attached \ {<<n, a>>}
            /\ blind' = (blind \/ (call[c].expected > 0 /\ call[c].seen # AppsOf(n)))
       ELSE UNCHANGED <<net, attached, blind>>
    /\ End(c) /\ UNCHANGED device

\* An application's version has the networks attached when it is made, and the stack those of
\* its version once it is deployed.
CreateVersion(a) ==
    /\ appVersion[a] = None
    /\ appVersion' = [appVersion EXCEPT ![a] = {n \in Nets : a \in AppsOf(n)}]
    /\ UNCHANGED <<net, attached, device, appStack, swarm, peers, call, gate, vpn, blind, calls, failures>>

\* StackApplyService prepares every network of the version first, also one that has gone.
DeployStack(a) ==
    /\ appVersion[a] # None /\ appVersion' = [appVersion EXCEPT ![a] = None]
    /\ \/ appStack' = [appStack EXCEPT ![a] = appVersion[a]] /\ swarm' = swarm \cup appVersion[a] /\ UNCHANGED failures
       \/ /\ failures < MaxFailures /\ failures' = failures + 1
          /\ swarm' \in {swarm, swarm \cup appVersion[a]} /\ UNCHANGED appStack
    /\ UNCHANGED <<net, attached, device, peers, call, gate, vpn, blind, calls>>

-----------------------------------------------------------------------------
(* Devices *)

\* createDeviceVpnDevice and updateDeviceVpnDevice
AskForAccess(c, d, links) ==
    /\ ~device[d].revoked /\ links # {} /\ \A n \in links : Usable(n)
    /\ Begin(c, [NoCall EXCEPT !.pc = "Access", !.device = d, !.links = links])

\* Only the foreign keys are looked at again: an update leaves revokedAt as it is.
GrantAccess(c) == LET d == call[c].device IN
    /\ call[c].pc = "Access"
    /\ "attach" \in Cases \/ \A n \in call[c].links : Usable(n)
    /\ device' = IF \A n \in call[c].links : Live(n)
                 THEN [device EXCEPT ![d].status = "Pending", ![d].links = call[c].links] ELSE device
    /\ End(c) /\ UNCHANGED <<net, attached, blind>>

\* revokeDeviceVpnDevice: the row and its networks stay.
Revoke(d) ==
    /\ Known(d) /\ ~device[d].revoked
    /\ device' = [device EXCEPT ![d].status = "Revoked", ![d].revoked = TRUE]
    /\ UNCHANGED <<net, attached, appVersion, appStack, swarm, peers, call, gate, vpn, blind, calls, failures>>

\* The user or the membership is suspended, or active again.
ToggleUser(d) ==
    /\ calls < MaxCalls /\ calls' = calls + 1
    /\ device' = [device EXCEPT ![d].active = ~@]
    /\ UNCHANGED <<net, attached, appVersion, appStack, swarm, peers, call, gate, vpn, blind, failures>>

-----------------------------------------------------------------------------
(* The reconciler of gates, its networks *)

ReadNetworks ==
    /\ gate.pc = "Idle"
    /\ gate' = [gate EXCEPT !.pc = "Run",
                  !.deleting = {n \in Nets : net[n].status = "Deleting"},
                  !.pending = {n \in Nets : net[n].status \in {"Provisioning", "Error"}}]
    /\ UNCHANGED <<net, attached, device, appVersion, appStack, swarm, peers, call, vpn, blind, calls, failures>>

\* reconcileTenantNetwork, then an update by id without a condition on the status
PrepareNetwork(n) ==
    /\ gate.pc = "Run" /\ n \in gate.pending
    /\ gate' = [gate EXCEPT !.pending = @ \ {n}]
    /\ \/ swarm' = swarm \cup {n} /\ net' = [net EXCEPT ![n].status = "Ready"] /\ UNCHANGED failures
       \/ /\ failures < MaxFailures /\ failures' = failures + 1
          /\ net' = [net EXCEPT ![n].status = "Error"] /\ UNCHANGED swarm
    /\ UNCHANGED <<attached, device, appVersion, appStack, peers, call, vpn, blind, calls>>

\* A detached application uses the network until it is deployed again.
InUse(n) == (\E d \in Devices : peers[d] # None /\ n \in peers[d]) \/ \E a \in Apps : n \in appStack[a]

\* removeTenantNetwork: Swarm keeps a network that a service uses.  The row goes with its
\* attachments and accesses.
RemoveNetwork(n) ==
    /\ gate.pc = "Run" /\ gate.pending = {} /\ n \in gate.deleting
    /\ gate' = [gate EXCEPT !.deleting = @ \ {n}]
    /\ \/ /\ ~InUse(n)
          /\ swarm' = swarm \ {n} /\ net' = [net EXCEPT ![n].status = "Gone"]
          /\ attached' = {x \in attached : x[1] # n}
          /\ device' = [d \in Devices |-> [device[d] EXCEPT !.links = @ \ {n}]]
          /\ call' = [c \in Callers |-> [call[c] EXCEPT !.crossed = call[c].pc = "Create"]]
          /\ UNCHANGED failures
       \/ /\ InUse(n) \/ failures < MaxFailures
          /\ failures' = IF InUse(n) THEN failures ELSE failures + 1
          /\ UNCHANGED <<swarm, net, attached, device, call>>
    /\ UNCHANGED <<appVersion, appStack, peers, vpn, blind, calls>>

EndOfNetworks ==
    /\ gate.pc = "Run" /\ gate.pending = {} /\ gate.deleting = {}
    /\ gate' = IdleLane
    /\ UNCHANGED <<net, attached, device, appVersion, appStack, swarm, peers, call, vpn, blind, calls, failures>>

-----------------------------------------------------------------------------
(* The reconciler of the VPN gateway *)

\* Mutant: every device of a member is a peer.
AnyMember(d) == Known(d) /\ device[d].active
\* Devices of active users with an active membership
ActiveDevice(d) == Known(d) /\ ~device[d].revoked /\ device[d].active

\* Devices of others are suspended; with no device left the stack is removed.
ReadDevices == LET found == [d \in Devices |-> IF ActiveDevice(d) THEN device[d].links ELSE None] IN
    /\ vpn.pc = "Idle"
    /\ device' = [d \in Devices |->
                    IF Known(d) /\ ~device[d].revoked /\ ~ActiveDevice(d)
                    THEN [device[d] EXCEPT !.status = "Suspended"] ELSE device[d]]
    /\ IF \A d \in Devices : found[d] = None
       THEN peers' = found /\ UNCHANGED vpn
       ELSE UNCHANGED peers /\ vpn' = [vpn EXCEPT !.pc = "Deploy", !.peers = found]
    /\ UNCHANGED <<net, attached, appVersion, appStack, swarm, call, gate, blind, calls, failures>>

\* Mutant: every device that was read is shown as Ready.
ReadyAll(found) == [d \in Devices |-> IF found[d] # None THEN [device[d] EXCEPT !.status = "Ready"] ELSE device[d]]
\* updateMany where revokedAt is null
ShowReady(found) == [d \in Devices |->
    IF found[d] # None /\ ~device[d].revoked THEN [device[d] EXCEPT !.status = "Ready"] ELSE device[d]]

\* Every network of a device is prepared and the stack deployed unless its digest is the same.
DeployGateway == LET Wanted == UNION {vpn.peers[d] : d \in {x \in Devices : vpn.peers[x] # None}} IN
    /\ vpn.pc = "Deploy" /\ vpn' = IdleLane
    /\ \/ /\ swarm' = swarm \cup Wanted
          /\ peers' = vpn.peers /\ device' = ShowReady(vpn.peers) /\ UNCHANGED failures
       \/ /\ failures < MaxFailures /\ failures' = failures + 1
          /\ device' = [d \in Devices |-> IF vpn.peers[d] # None /\ ~device[d].revoked
                                          THEN [device[d] EXCEPT !.status = "Error"] ELSE device[d]]
          /\ swarm' \in {swarm, swarm \cup Wanted} /\ UNCHANGED peers
    /\ UNCHANGED <<net, attached, appVersion, appStack, call, gate, blind, calls>>

-----------------------------------------------------------------------------

Gates == ReadNetworks \/ EndOfNetworks \/ \E n \in Nets : PrepareNetwork(n) \/ RemoveNetwork(n)
Vpn == ReadDevices \/ DeployGateway

Next ==
    \/ \E c \in Callers, n \in Nets, block \in Blocks : AskForNetwork(c, n, block)
    \/ \E c \in Callers, n \in Nets : CountUsers(c, n)
    \/ \E c \in Callers, n \in Nets, a \in Apps, pc \in {"Attach", "Detach"} : AskToChange(c, n, a, pc)
    \/ \E c \in Callers, d \in Devices, links \in SUBSET Nets : AskForAccess(c, d, links)
    \/ \E c \in Callers : CreateNetwork(c) \/ MarkDeleting(c) \/ Attach(c) \/ GrantAccess(c)
    \/ \E a \in Apps : CreateVersion(a) \/ DeployStack(a)
    \/ \E d \in Devices : Revoke(d) \/ ToggleUser(d)
    \/ Gates \/ Vpn

Spec == Init /\ [][Next]_vars

\* The lanes of the worker run on; a request of the API ends.
FairSpec == Spec /\ WF_vars(Gates) /\ WF_vars(Vpn)

-----------------------------------------------------------------------------
(* Properties *)

\* The types of the variables.
TypeOK ==
    /\ \A n \in Nets : net[n].status \in {"None", "Provisioning", "Ready", "Error", "Deleting", "Gone"}
    /\ attached \subseteq Nets \X Apps /\ swarm \subseteq Nets
    /\ \A d \in Devices : device[d].status \in {"None", "Pending", "Ready", "Suspended", "Error", "Revoked"}
    /\ \A d \in Devices : peers[d] = None \/ peers[d] \subseteq Nets
    /\ \A a \in Apps : appStack[a] \subseteq Nets /\ (appVersion[a] = None \/ appVersion[a] \subseteq Nets)

\* No two networks share addresses, though two requests look for a free space at once and only
\* the same space is refused by a unique key: both have chosen the same overlay space, whose
\* key refuses one of them (resolveNetworkCidr, nextAvailableNetworkCidr).  Not so when a
\* network went between the check of one of them and its insert.
SpacesAreDisjoint ==
    \A m, n \in Nets :
        m # n /\ Live(m) /\ Live(n) /\ net[m].block \cap net[n].block # {} => net[m].crossed \/ net[n].crossed

\* A request that says which revision it expects changes the attachments it has seen, or
\* nothing (bumpNetworkRevision).
ExpectedWasSeen == ~blind

\* A peer of the VPN gateway is known; a network that peers or stacks use exists in Swarm, so
\* Swarm cannot have removed one under them.
PeersHaveNetworks ==
    /\ \A d \in Devices : peers[d] # None => Known(d) /\ peers[d] \subseteq swarm
    /\ \A a \in Apps : appStack[a] \subseteq swarm

\* A device is shown as Ready only while it is not revoked, though the gateway is deployed
\* with what was read before the revocation.
ReadyIsNotRevoked == \A d \in Devices : device[d].status = "Ready" => ~device[d].revoked

\* Networks have address spaces of their own unless one went meanwhile, a request changes the
\* topology it expected or nothing, the networks that peers and stacks use exist, and a revoked
\* device is not shown as ready (NetworkingService and its reconcilers).
NetworkSafety ==
    /\ TypeOK
    /\ SpacesAreDisjoint
    /\ ExpectedWasSeen
    /\ PeersHaveNetworks
    /\ ReadyIsNotRevoked

\* A revoked device is no peer in the end, whatever an update that began before has written
\* (DeviceVpnRuntimeReconcilerService).
RevokedIsCutOff == \A d \in Devices : device[d].revoked ~> [](peers[d] = None)

\* A network that is being deleted goes (GateRuntimeReconcilerService), unless the stack of an
\* application that was detached is never deployed again: deleteNetwork counts only rows.
DeletingGoes ==
    \A n \in Nets :
        net[n].status = "Deleting" ~> (net[n].status = "Gone" \/ [](\E a \in Apps : n \in appStack[a]))
=============================================================================
