------------------------------ MODULE Artifacts ------------------------------
(***************************************************************************)
(* What a deployment puts on the nodes. Its snapshot is checked, what its services use    *)
(* is made, the stack is rendered and kept with its digest, and every later application     *)
(* (of a recovery, of a rollback) applies what was kept. A snapshot with protected values     *)
(* is rendered for each application instead, and nothing of it is kept in clear. Meanwhile     *)
(* workers are updated to a release that renders differently and the snapshots of earlier       *)
(* releases are protected.                                                                         *)
(***************************************************************************)
EXTENDS Naturals, FiniteSets

CONSTANTS
    Apps,        \* apps of the group
    Nodes,       \* nodes of the Swarm
    Configs,      \* snapshots that are deployed: [on, apps, values], see Draft
    Legacy,      \* what an earlier release may have deployed: its snapshot, its text and digest, if any
    Workers,
    Cases,       \* windows that are open, see the README
    MaxVersion,  \* bound: deployments
    MaxEvents    \* bound: updates, damage, nodes and domains that change

ArtifactsAssumption ==
    /\ MaxVersion \in Nat /\ MaxEvents \in Nat
    /\ Cases \subseteq {"migrate", "late", "node"}

VARIABLES
    conf,      \* stackConfig of the deployments
    status,    \* their status
    text,      \* renderedStack: the release that rendered it, 0 for none, Bad when it was damaged
    digest,    \* renderedStackSha256: of which text
    release,   \* what the workers run
    work,      \* what the workers do
    current,   \* currentDeploymentVersion
    made,      \* secrets and configs in Swarm
    stack,     \* what was applied last: of which deployment
    applied,   \* ghost: the texts of each deployment that were applied
    verified,  \* the domain of the group's apps is the tenant's and valid
    node,      \* nodes: labelled for storage, with the storage mounted, ready
    events

vars == <<conf, status, text, digest, release, work, current, made, stack, applied, verified, node, events>>

Versions == 1..MaxVersion
Bad == 9
NoConf == [on |-> FALSE, apps |-> [a \in Apps |-> [on |-> FALSE, host |-> FALSE, uses |-> {}, vol |-> FALSE]], values |-> "None", more |-> 0]
Idle == [at |-> "Idle", d |-> 0, t |-> 0, text |-> 0, digest |-> 0]

Init ==
    /\ \E l \in Legacy :
        /\ conf = [d \in Versions |-> IF d = 1 THEN l.conf ELSE NoConf]
        /\ text = [d \in Versions |-> IF d = 1 THEN l.text ELSE 0] /\ digest = [d \in Versions |-> IF d = 1 THEN l.digest ELSE 0]
        /\ applied = [d \in Versions |-> IF d = 1 /\ l.text # 0 /\ l.conf.values # "Protected" THEN {l.text} ELSE {}]
        /\ made = UNION {l.conf.apps[a].uses : a \in Apps}
    /\ status = [d \in Versions |-> IF d = 1 THEN "Succeeded" ELSE "None"]
    /\ release = [w \in Workers |-> 1] /\ work = [w \in Workers |-> Idle] /\ current = 1 /\ stack = 1
    /\ verified \in BOOLEAN /\ node = [n \in Nodes |-> [label |-> TRUE, mount |-> TRUE, ready |-> TRUE]] /\ events = 0

Goes(w, at) == work' = [work EXCEPT ![w].at = at]
Leave(w) == work' = [work EXCEPT ![w] = Idle]
Bound == events < MaxEvents /\ events' = events + 1

\* effectiveReplicas
Runs(c, a) == c.on /\ c.apps[a].on
\* Mutant: an app of a group that is stopped keeps the labels of its route.
AnyHost(c) == {a \in Apps : c.apps[a].host}
\* renderTraefikLabels
Routed(c) == {a \in Apps : c.apps[a].host /\ Runs(c, a)}
\* renderService, renderSecrets, renderConfigs, renderNetworks
Uses(c) == UNION {c.apps[a].uses : a \in Apps}
\* Mutant: a service with volumes may run on any node for workloads.
AnyNode(c, a) == Nodes
\* storagePlacementConstraints
Places(c, a) == IF c.apps[a].vol THEN {n \in Nodes : node[n].label} ELSE Nodes

\* hasProtectedSensitiveEnvironment
Protected(d) == conf[d].values = "Protected"
\* protectSensitiveValue
Protect(c) == IF c.values = "Clear" THEN [c EXCEPT !.values = "Protected"] ELSE c

\* isStoppedResourceOnlyUpdate
ResourcesOnly(d) ==
    LET old == conf[current] IN
    /\ ~conf[d].on /\ ~old.on /\ status[current] = "Succeeded"
    /\ conf[d].apps = old.apps /\ conf[d].values = old.values /\ conf[d].more = old.more
Mine(w, d) == work[w].d = d

Request(d, s) ==
    /\ status[d] = "None" /\ d = 1 + Cardinality({e \in Versions : status[e] # "None"})
    /\ \A e \in Versions : status[e] # "Deploying"
    /\ conf' = [conf EXCEPT ![d] = Protect(s)] /\ status' = [status EXCEPT ![d] = "Deploying"]
    /\ UNCHANGED <<text, digest, release, work, current, made, stack, applied, verified, node, events>>

Claim(w, d) ==
    /\ work[w] = Idle /\ status[d] = "Deploying" /\ \A v \in Workers : ~Mine(v, d)
    /\ work' = [work EXCEPT ![w] = [Idle EXCEPT !.at = "Validate", !.d = d, !.t = d]]
    /\ UNCHANGED <<conf, status, text, digest, release, current, made, stack, applied, verified, node, events>>

\* Its lease has run out: another worker takes over, and does again what was being done.
TakeOver(w, v) ==
    LET early == work[v].at \in {"Provision", "Generate"} IN
    /\ work[w] = Idle
    /\ early \/ work[v].at \in {"Ensure", "Clear", "Digest", "Materialize", "Reread", "Apply"}
    /\ status[work[v].d] = "Deploying"
    /\ work' = [work EXCEPT ![w] = [Idle EXCEPT !.at = IF early THEN "Provision" ELSE "Ensure", !.d = work[v].d, !.t = work[v].t],
                            ![v] = IF early /\ "late" \notin Cases THEN Idle ELSE @]
    /\ UNCHANGED <<conf, status, text, digest, release, current, made, stack, applied, verified, node, events>>

Settle(d, s) == status' = [status EXCEPT ![d] = IF @ = "Deploying" THEN s ELSE @]

\* validateDomains, and what passes though it fails
Validate(w) ==
    LET d == work[w].d IN
    /\ work[w].at = "Validate"
    /\ \/ (AnyHost(conf[d]) = {} \/ verified \/ ResourcesOnly(d)) /\ Goes(w, "Provision") /\ UNCHANGED status
       \/ ~(AnyHost(conf[d]) = {} \/ verified \/ ResourcesOnly(d)) /\ Settle(d, "Failed") /\ Leave(w)
    /\ UNCHANGED <<conf, text, digest, release, current, made, stack, applied, verified, node, events>>

\* provisionArtifacts; provisionVolumes probes every ready node that is labelled for storage.
Probed == {n \in Nodes : node[n].ready /\ node[n].label}
VolumesReady(d) == (\E a \in Apps : conf[d].apps[a].vol) => Probed # {} /\ \A n \in Probed : node[n].mount
Provision(w) ==
    LET d == work[w].d IN
    /\ work[w].at = "Provision"
    /\ \/ VolumesReady(d) /\ made' = made \cup Uses(conf[d]) /\ Goes(w, "Generate") /\ UNCHANGED status
       \/ ~VolumesReady(d) /\ made' = made \cup Uses(conf[d]) /\ Settle(d, "Failed") /\ Leave(w)
    /\ UNCHANGED <<conf, text, digest, release, current, stack, applied, verified, node, events>>

\* The phase GeneratingStack
Generate(w) ==
    LET d == work[w].d IN
    /\ work[w].at = "Generate" /\ Goes(w, "Ensure")
    /\ text' = [text EXCEPT ![d] = IF Protected(d) THEN @ ELSE release[w]]
    /\ digest' = [digest EXCEPT ![d] = IF Protected(d) THEN @ ELSE release[w]]
    /\ UNCHANGED <<conf, status, release, current, made, stack, applied, verified, node, events>>

\* Mutant: what was kept is applied as it is.
Trusted(d) == TRUE
\* deploymentArtifactMatches
Matches(d) == digest[d] = text[d]

\* ensureDeploymentArtifact reads the row once.
Ensure(w) ==
    LET t == work[w].t
        next == CASE Protected(t) /\ text[t] # 0 -> "Clear"
                  [] Protected(t) /\ text[t] = 0 -> "Apply"
                  [] ~Protected(t) /\ text[t] = 0 -> "Materialize"
                  [] ~Protected(t) /\ text[t] # 0 /\ digest[t] = 0 -> "Digest"
                  [] OTHER -> "Reread"
    IN
    /\ work[w].at = "Ensure"
    /\ \/ /\ next # "Reread" \/ Matches(t)
          /\ work' = [work EXCEPT ![w].at = next, ![w].text = IF next = "Apply" THEN release[w] ELSE text[t], ![w].digest = digest[t]]
          /\ UNCHANGED status
       \/ next = "Reread" /\ ~Matches(t) /\ Settle(work[w].d, "Failed") /\ Leave(w)
    /\ UNCHANGED <<conf, text, digest, release, current, made, stack, applied, verified, node, events>>

\* Mutant: what was kept in clear stays.
Leaves(t) == text[t]
\* What is kept of a deployment with protected values
Cleared(t) == 0
Clear(w) ==
    LET t == work[w].t IN
    /\ work[w].at = "Clear" /\ text' = [text EXCEPT ![t] = Cleared(t)] /\ digest' = [digest EXCEPT ![t] = 0]
    /\ work' = [work EXCEPT ![w].at = "Apply", ![w].text = release[w]]
    /\ UNCHANGED <<conf, status, release, current, made, stack, applied, verified, node, events>>

\* A digest is added to a text that has none.
Digest(w) ==
    LET t == work[w].t IN
    /\ work[w].at = "Digest" /\ Goes(w, "Reread")
    /\ digest' = [digest EXCEPT ![t] = IF text[t] = work[w].text /\ @ = 0 THEN text[t] ELSE @]
    /\ UNCHANGED <<conf, status, text, release, current, made, stack, applied, verified, node, events>>

\* Mutant: the worker keeps its own rendering, whatever another has kept meanwhile.
Overwrites(w, t) == release[w]
\* Only the first rendering is kept.
Kept(w, t) == IF text[t] = 0 THEN release[w] ELSE text[t]

Materialize(w) ==
    LET t == work[w].t IN
    /\ work[w].at = "Materialize" /\ Goes(w, "Reread")
    /\ text' = [text EXCEPT ![t] = Kept(w, t)] /\ digest' = [digest EXCEPT ![t] = IF text[t] = 0 \/ Kept(w, t) # text[t] THEN Kept(w, t) ELSE @]
    /\ UNCHANGED <<conf, status, release, current, made, stack, applied, verified, node, events>>

Reread(w) ==
    LET t == work[w].t IN
    /\ work[w].at = "Reread"
    /\ \/ /\ text[t] # 0 /\ digest[t] # 0 /\ Matches(t)
          /\ work' = [work EXCEPT ![w].at = "Apply", ![w].text = text[t]] /\ UNCHANGED status
       \/ ~(text[t] # 0 /\ digest[t] # 0 /\ Matches(t)) /\ Settle(work[w].d, "Failed") /\ Leave(w)
    /\ UNCHANGED <<conf, text, digest, release, current, made, stack, applied, verified, node, events>>

\* applyStack, of a deployment that has not settled or of what it rolls back to
Apply(w) ==
    LET t == work[w].t IN
    /\ work[w].at = "Apply"
    /\ "late" \in Cases \/ status[work[w].d] = "Deploying"
    /\ stack' = t /\ applied' = [applied EXCEPT ![t] = @ \cup {work[w].text}] /\ Goes(w, "Wait")
    /\ UNCHANGED <<conf, status, text, digest, release, current, made, verified, node, events>>

\* waitForRollout: it converged, or the last deployment that succeeded is applied again.
Target(d) == {e \in Versions : e < d /\ status[e] = "Succeeded" /\ \A f \in Versions : e < f /\ f < d => status[f] # "Succeeded"}
Wait(w) ==
    LET d == work[w].d  t == work[w].t IN
    /\ work[w].at = "Wait"
    /\ \/ /\ Settle(d, IF t = d THEN "Succeeded" ELSE "RolledBack") /\ Leave(w)
          /\ current' = IF status[d] = "Deploying" THEN t ELSE current
       \/ t = d /\ \E e \in Target(d) : work' = [work EXCEPT ![w].at = "Ensure", ![w].t = e] /\ UNCHANGED <<status, current>>
       \/ (t # d \/ Target(d) = {}) /\ Settle(d, "Failed") /\ Leave(w) /\ UNCHANGED current
    /\ UNCHANGED <<conf, text, digest, release, made, stack, applied, verified, node, events>>

\* A worker whose deployment another has settled goes on with nothing.
Stale(w) ==
    /\ work[w].d # 0 /\ status[work[w].d] # "Deploying" /\ Leave(w)
    /\ UNCHANGED <<conf, status, text, digest, release, current, made, stack, applied, verified, node, events>>

-----------------------------------------------------------------------------
\* migrateAll protects the snapshots of deployments that have settled: a list is read, then each is written.
Using(d) == \E w \in Workers : work[w].t = d
Migrate(d) ==
    /\ status[d] \notin {"None", "Deploying"}
    /\ conf[d].values = "Clear" \/ (Protected(d) /\ text[d] # 0)
    /\ "migrate" \in Cases \/ ~Using(d)
    /\ conf' = [conf EXCEPT ![d].values = "Protected"] /\ text' = [text EXCEPT ![d] = 0] /\ digest' = [digest EXCEPT ![d] = 0]
    /\ UNCHANGED <<status, release, work, current, made, stack, applied, verified, node, events>>

Update(w) ==
    /\ work[w] = Idle /\ release[w] = 1 /\ Bound /\ release' = [release EXCEPT ![w] = 2]
    /\ UNCHANGED <<conf, status, text, digest, work, current, made, stack, applied, verified, node>>

\* The text of a row is damaged, in the database or by a restore.
Damage(d) ==
    /\ text[d] \notin {0, Bad} /\ digest[d] # 0 /\ Bound /\ text' = [text EXCEPT ![d] = Bad]
    /\ UNCHANGED <<conf, status, digest, release, work, current, made, stack, applied, verified, node>>

Domain ==
    /\ Bound /\ verified' = ~verified
    /\ UNCHANGED <<conf, status, text, digest, release, work, current, made, stack, applied, node>>

\* A node is no longer used for storage, and loses the mount; one comes back.
Node(n) ==
    /\ Bound
    /\ \/ node' = [node EXCEPT ![n].label = FALSE, ![n].mount = FALSE]
       \/ "node" \in Cases /\ node' = [node EXCEPT ![n].ready = ~@, ![n].mount = FALSE]
    /\ UNCHANGED <<conf, status, text, digest, release, work, current, made, stack, applied, verified>>

Next ==
    \/ \E d \in Versions, s \in Configs : Request(d, s)
    \/ \E w \in Workers :
        \/ \E d \in Versions : Claim(w, d)
        \/ \E v \in Workers : TakeOver(w, v)
        \/ Validate(w) \/ Provision(w) \/ Generate(w) \/ Ensure(w) \/ Clear(w) \/ Digest(w) \/ Materialize(w)
        \/ Reread(w) \/ Apply(w) \/ Wait(w) \/ Stale(w) \/ Update(w)
    \/ \E d \in Versions : Migrate(d) \/ Damage(d)
    \/ Domain \/ \E n \in Nodes : Node(n)

Spec == Init /\ [][Next]_vars

-----------------------------------------------------------------------------
TypeOK ==
    /\ \A d \in Versions : text[d] \in {0, 1, 2, Bad} /\ digest[d] \in {0, 1, 2, Bad}
    /\ current \in Versions /\ stack \in Versions /\ verified \in BOOLEAN

\* Whatever applies a deployment again, after an update, a recovery or for a rollback, applies what was applied
\* first, byte for byte (ensureDeploymentArtifact).
AppliedIsKept ==
    \A d \in Versions : ~Protected(d) => Cardinality(applied[d]) <= 1

\* A text that was damaged is not applied (deploymentArtifactMatches).
DamageIsNotApplied == \A d \in Versions : Bad \notin applied[d]

\* When a deployment with protected values is applied nothing of it is kept in clear.
NothingInClear ==
    \A w \in Workers : work[w].at \in {"Apply", "Wait"} /\ Protected(work[w].t) => text[work[w].t] = 0

\* What was applied finds its secrets and configs, and its volumes on every node where it may run.
StackCanRun ==
    /\ Uses(conf[stack]) \subseteq made
    /\ \A a \in Apps, n \in Nodes : conf[stack].apps[a].vol /\ n \in Places(conf[stack], a) => node[n].mount

\* A deployment that was let through though its domains are not proven publishes none (isStoppedResourceOnlyUpdate).
UnprovenIsSilent ==
    \A w \in Workers : work[w].at = "Validate" /\ work'[w].at = "Provision" /\ ~verified => Routed(conf[work[w].d]) = {}
=============================================================================
