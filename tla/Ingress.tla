------------------------------- MODULE Ingress ------------------------------
(***************************************************************************)
(* The public routes of one AppGroup in Docker: overlay networks, the      *)
(* membership of Traefik and of the services in them, and the routing      *)
(* labels that name one of them.  IngressReconcilerService moves a group   *)
(* from the ingress networks of older releases to its own network, one     *)
(* Docker command after another; StackApplyService deploys the stack.      *)
(***************************************************************************)
EXTENDS Naturals, FiniteSets

CONSTANTS
    Services,
    Modes,          \* topologies of the current deployment a run starts from
    MaxFailures,    \* bound: Docker commands that fail
    MaxDeploys,     \* bound: deployments of a rendered stack
    None

Overlays == {"group", "legacy", "shared"}

IngressAssumption ==
    /\ Modes \subseteq {"single", "legacy", "networkless"} /\ Modes # {}
    /\ MaxFailures \in Nat /\ MaxDeploys \in Nat

VARIABLES
    mode,       \* network topology of the current deployment's rendered stack
    published,  \* services whose domains are publishable (the database)
    nets,       \* Docker networks that exist
    traefik,    \* networks the Traefik service is attached to
    member,     \* networks of each service
    label,      \* the network the routing labels of a service name, or None
    rec,        \* the reconciler: step, what it read, what is left to do
    apply,      \* a deployment being applied: its step and its published services
    crossed,    \* history: services that the reconciler changed by what it had read before a
                \* deployment replaced the stack, or that this happened to
    failures, deploys

vars == <<mode, published, nets, traefik, member, label, rec, apply, crossed, failures, deploys>>
docker == <<nets, traefik, member, label>>

NoRec == [pc |-> "Idle", single |-> FALSE, shared |-> FALSE, published |-> {}, todo |-> {},
          service |-> None, safe |-> TRUE, crossed |-> FALSE]
NoApply == [pc |-> "Idle", published |-> {}]

\* The network of a topology: the one its stack, or an older release, used.
NetOf(m) == IF m = "single" THEN "group" ELSE IF m = "legacy" THEN "legacy" ELSE "shared"

Init ==
    /\ mode \in Modes
    /\ published \in SUBSET Services
    /\ nets = {NetOf(mode), "shared"}
    /\ traefik = (IF published # {} THEN {NetOf(mode)} ELSE {}) \cup {"shared"}
    /\ member = [s \in Services |-> {NetOf(mode)}]
    /\ label = [s \in Services |-> IF s \in published THEN NetOf(mode) ELSE None]
    /\ rec = NoRec /\ apply = NoApply /\ crossed = {} /\ failures = 0 /\ deploys = 0

-----------------------------------------------------------------------------
(* Docker commands; each may fail without effect *)

Fails == failures < MaxFailures /\ failures' = failures + 1 /\ UNCHANGED docker
Works == UNCHANGED failures

\* inspectNetwork and inspectServiceNetworks
Missing(n) == n \notin nets
Attached(s, n) == n \in member[s]

\* reconcileTraefikNetworkMembership
Membership(n, required) ==
    traefik' = IF required THEN traefik \cup {n} ELSE traefik \ {n}

\* ensureAppGroupNetwork; the membership of Traefik follows.
EnsureGroupNet(required) ==
    /\ Works
    /\ nets' = nets \cup {"group"}
    /\ Membership("group", required)
    /\ UNCHANGED <<member, label>>

\* ensureLegacyIngressNetwork
EnsureLegacyNet ==
    /\ Works
    /\ nets' = nets \cup {"legacy"}
    /\ Membership("legacy", TRUE)
    /\ UNCHANGED <<member, label>>

\* removeLegacyIngressNetwork: Traefik leaves, then the network is removed; Docker
\* keeps one that a service is in.
RemoveNet(n) ==
    /\ Works
    /\ Membership(n, FALSE)
    /\ nets' = IF \E s \in Services : Attached(s, n) THEN nets ELSE nets \ {n}
    /\ UNCHANGED <<member, label>>

-----------------------------------------------------------------------------
(* IngressReconcilerService *)

Target == IF rec.single THEN "group" ELSE "legacy"
Required == rec.published # {}

\* reconcileBatch reads the group; publishable apps come from the rows.
Read ==
    /\ rec.pc = "Idle"
    /\ rec' = [NoRec EXCEPT !.pc = "Network", !.single = mode # "legacy", !.shared = mode = "networkless",
                            !.published = published, !.todo = Services]
    /\ UNCHANGED <<mode, published, docker, apply, crossed, failures, deploys>>

Network ==
    /\ rec.pc = "Network"
    /\ \/ /\ \/ rec.single /\ EnsureGroupNet(Required)
             \/ ~rec.single /\ Required /\ EnsureLegacyNet
          /\ rec' = [rec EXCEPT !.pc = "Service"]
       \/ /\ ~rec.single /\ ~Required
          /\ rec' = [rec EXCEPT !.pc = "Service"]
          /\ UNCHANGED <<docker, failures>>
       \/ /\ rec.single \/ Required
          /\ Fails
          /\ rec' = NoRec
    /\ UNCHANGED <<mode, published, apply, crossed, deploys>>

Pick(s) ==
    /\ rec.pc = "Service" /\ s \in rec.todo
    /\ rec' = [rec EXCEPT !.pc = "Member", !.service = s, !.todo = @ \ {s}]
    /\ UNCHANGED <<mode, published, docker, apply, crossed, failures, deploys>>

Skip == rec' = [rec EXCEPT !.pc = "Service", !.service = None, !.safe = FALSE]

Wanted(s) == rec.single \/ s \in rec.published

\* A change of a service that follows a deployment the reconciler has not seen.
Cross(s) == crossed' = IF rec.crossed THEN crossed \cup {s} ELSE crossed

\* reconcileServiceNetwork of the desired network.  A missing network is an error
\* only where it is wanted; an error keeps the labels as they are.
Member ==
    LET s == rec.service IN
    /\ rec.pc = "Member"
    /\ \/ /\ Works
          /\ Wanted(s) => ~Missing(Target)
          /\ member' = [member EXCEPT ![s] = IF Wanted(s) THEN @ \cup {Target} ELSE @ \ {Target}]
          /\ UNCHANGED <<nets, traefik, label>>
          /\ rec' = [rec EXCEPT !.pc = "Label"]
       \/ Fails /\ Skip
       \/ Wanted(s) /\ Missing(Target) /\ UNCHANGED <<docker, failures>> /\ Skip
    /\ UNCHANGED <<mode, published, apply, deploys>>
    /\ Cross(s)

\* Mutant: old networks go before the labels leave them.
LabelAfterOld ==
    LET s == rec.service IN
    /\ rec.pc = "Label" /\ Works
    /\ member' = [member EXCEPT ![s] = @ \ {"legacy", "shared"}]
    /\ rec' = [rec EXCEPT !.pc = "Old"]
    /\ UNCHANGED <<mode, published, nets, traefik, label, apply, crossed, failures, deploys>>
\* renderTraefikLabels of a service with or without publishable domains.
Routing(s) == IF s \in rec.published THEN Target ELSE None

\* Mutant: labels are added and changed, never removed.
LabelAdds ==
    LET s == rec.service IN
    /\ rec.pc = "Label" /\ Works
    /\ label' = [label EXCEPT ![s] = IF s \in rec.published THEN Target ELSE @]
    /\ rec' = [rec EXCEPT !.pc = IF rec.single THEN "Old" ELSE "Service"]
    /\ UNCHANGED <<mode, published, nets, traefik, member, apply, crossed, failures, deploys>>
\* reconcileTraefikLabels
Label ==
    LET s == rec.service IN
    /\ rec.pc = "Label"
    /\ \/ /\ Works
          /\ label' = [label EXCEPT ![s] = Routing(s)]
          /\ crossed' = IF rec.crossed THEN crossed \cup {s} ELSE crossed \ {s}
          /\ UNCHANGED <<nets, traefik, member>>
          /\ rec' = [rec EXCEPT !.pc = IF rec.single THEN "Old" ELSE "Service"]
       \/ Fails /\ Skip /\ UNCHANGED crossed
    /\ UNCHANGED <<mode, published, apply, deploys>>

\* Obsolete memberships, after the labels: legacy, and the shared ingress of a
\* stack without networks.  A failure of either leaves the cleanup unsafe.
Old ==
    LET s == rec.service
        gone == {"legacy"} \cup (IF rec.shared THEN {"shared"} ELSE {}) IN
    /\ rec.pc = "Old"
    /\ \/ /\ Works
          /\ member' = [member EXCEPT ![s] = @ \ gone]
          /\ UNCHANGED <<nets, traefik, label>>
          /\ rec' = [rec EXCEPT !.pc = "Service", !.service = None]
       \/ Fails /\ Skip
    /\ UNCHANGED <<mode, published, apply, deploys>>
    /\ Cross(s)

\* The legacy network goes when every service is moved, or nothing is published.
CleanupSafe == (rec.single /\ rec.safe) \/ (~rec.single /\ ~Required)

Cleanup ==
    /\ rec.pc = "Service" /\ rec.todo = {}
    /\ \/ CleanupSafe /\ RemoveNet("legacy")
       \/ CleanupSafe /\ Fails
       \/ ~CleanupSafe /\ UNCHANGED <<docker, failures>>
    /\ rec' = NoRec
    /\ UNCHANGED <<mode, published, apply, crossed, deploys>>

-----------------------------------------------------------------------------
(* StackApplyService and the database *)

\* prepared: the networks of the artifact, rendered from the published services.
Prepare ==
    /\ apply.pc = "Idle" /\ deploys < MaxDeploys
    /\ deploys' = deploys + 1
    /\ \/ /\ EnsureGroupNet(published # {})
          /\ apply' = [pc |-> "Deploy", published |-> published]
       \/ Fails /\ apply' = apply
    /\ UNCHANGED <<mode, published, rec, crossed>>

\* The reconciler goes on with the legacy topology it has read.
Misses == rec' = [rec EXCEPT !.crossed = rec.pc # "Idle" /\ ~rec.single]

\* docker stack deploy: every service takes the networks and labels of the stack.
StackDeploy ==
    /\ apply.pc = "Deploy"
    /\ "group" \in nets
    /\ member' = [s \in Services |-> {"group"}]
    /\ label' = [s \in Services |-> IF s \in apply.published THEN "group" ELSE None]
    /\ apply' = [apply EXCEPT !.pc = "RemoveLegacy"]
    /\ Misses /\ crossed' = {}
    /\ UNCHANGED <<mode, published, nets, traefik, failures, deploys>>

\* Then Traefik leaves the legacy network, and it is removed; an error of either is ignored.
RemoveLegacy ==
    /\ apply.pc = "RemoveLegacy"
    /\ \/ RemoveNet("legacy")
       \/ Works /\ Membership("legacy", FALSE) /\ UNCHANGED <<nets, member, label>>
       \/ Works /\ UNCHANGED docker
    /\ apply' = [apply EXCEPT !.pc = "Complete"]
    /\ Misses /\ crossed' = crossed \cup {s \in Services : Attached(s, "legacy") \/ label[s] = "legacy"}
    /\ UNCHANGED <<mode, published, deploys>>

\* The completing transaction of the deployment: only from now on its stack is the one
\* that the reconciler reads.
CompleteDeployment ==
    /\ apply.pc = "Complete"
    /\ mode' = "single"
    /\ apply' = NoApply
    /\ UNCHANGED <<published, docker, rec, crossed, failures, deploys>>

\* The worker dies while it applies the stack.
WorkerDies ==
    /\ apply.pc # "Idle" /\ Fails
    /\ apply' = NoApply
    /\ UNCHANGED <<mode, published, rec, crossed, deploys>>

\* A domain is unpublished, or its service stopped.
Unpublish(s) ==
    /\ s \in published
    /\ published' = published \ {s}
    /\ UNCHANGED <<mode, docker, rec, apply, crossed, failures, deploys>>

Reconcile ==
    \/ Read \/ Network \/ (\E s \in Services : Pick(s)) \/ Member \/ Label \/ Old \/ Cleanup

Deploy == Prepare \/ StackDeploy \/ RemoveLegacy \/ CompleteDeployment \/ WorkerDies

Next == Reconcile \/ Deploy \/ \E s \in Services : Unpublish(s)

Spec == Init /\ [][Next]_vars
\* The lane of the operation worker runs the reconciler again and again.
FairSpec == Spec /\ WF_vars(Reconcile)

-----------------------------------------------------------------------------
\* The types of the variables.
TypeOK ==
    /\ mode \in {"single", "legacy", "networkless"}
    /\ published \subseteq Services
    /\ nets \subseteq Overlays /\ traefik \subseteq nets
    /\ member \in [Services -> SUBSET Overlays]
    /\ label \in [Services -> Overlays \cup {None}]
    /\ rec.todo \subseteq Services /\ rec.service \in Services \cup {None}
    /\ crossed \subseteq Services
    /\ failures \in 0 .. MaxFailures /\ deploys \in 0 .. MaxDeploys

\* No outage while a group moves between networks: at every step, with commands that
\* fail anywhere and a worker that dies, the network that the labels of a published service
\* name exists, and both the service and Traefik are in it (reconcileBatch, "Never repoint
\* Traefik to a network that Docker failed to attach").  Except what the reconciler does by
\* the legacy topology it read before a deployment replaced the stack, until a run that has seen the
\* deployment, or another deployment, labels the service: nothing keeps the two apart.
RoutedIsReachable ==
    \A s \in published \ crossed : label[s] # None =>
        label[s] \in nets /\ label[s] \in member[s] /\ label[s] \in traefik

\* Unpublished domains lose their route, and a published service of a group that is
\* not on the legacy topology ends on the group's own network alone.
RoutesConverge ==
    \A s \in Services :
        /\ s \notin published ~> label[s] = None
        /\ mode # "legacy" ~> "group" \in member[s]
        /\ mode = "networkless" ~> "shared" \notin member[s]
=============================================================================
