----------------------------- MODULE RemoteLan -----------------------------
(***************************************************************************)
(* Remote LAN attachments: an application gets a leg in the LAN behind a   *)
(* gate.  The gate's agent polls the API and sets up tunnels, node agents  *)
(* set up the other ends from a policy in their Swarm service, and the     *)
(* critical lane of the worker deploys the gateway, publishes the policy,  *)
(* and believes an attachment active, or revoked, only on the evidence of  *)
(* both sides.                                                             *)
(***************************************************************************)
EXTENDS Naturals, FiniteSets

CONSTANTS
    Atts,           \* attachments of one gate
    Nodes,          \* nodes of the Swarm
    Cases,          \* windows that are open: "edit" (an attachment is revoked while its address changes),
                    \* "handshake" (the agent reports while its handshake is stale), "kill"
                    \* (it dies between a tunnel and its record), "task" (an application's
                    \* task starts while its attachment is revoked)
    Enrolled,       \* whether the agent is enrolled from the start
    MaxRev,         \* bound: addressings of an attachment
    MaxRequests,    \* bound: requests
    MaxEvents,      \* bound: failures, lost heartbeats, evidence that expires
    None

VARIABLES
    row,        \* RemoteLanAttachment: status, configurationRevision, time of its revocation
    gate,       \* ResourcePortalGate: status, revokedAt, whether it has a public key, its
                \* agent's token, whether its gateway is deployed
    enrollment, \* the newest enrollment, whether it is unused, the one an agent presents
    agent,      \* the gate's agent: token, step, report, configuration, tunnels, unrecorded
                \* tunnels, time of its last apply
    seen,       \* observedL2: fresh, proofs, observedL2AppliedAt
    policy,     \* revisions the node service grants, None when it is switched off
    node,       \* per node: links in applications, the last fresh log of its task
    lane,       \* the worker's critical lane: step and what it has read
    edit,       \* the addressing request between its check and its write
    running,    \* attachments whose application may have one
    clock,      \* revocations so far: the time that evidence is compared with
    requests, events

vars == <<row, gate, enrollment, agent, seen, policy, node, lane, edit, running, clock, requests, events>>

Nothing == [a \in Atts |-> 0]       \* no tunnel, grant or proof; else the revision it is for
Idle == [pc |-> "Gate", gate |-> None, rows |-> None, logs |-> None, healthy |-> TRUE, todo |-> {}]

NotSeen == [fresh |-> FALSE, proofs |-> Nothing, at |-> 0]

Init ==
    /\ row = [a \in Atts |-> [status |-> "None", rev |-> 1, at |-> 0]]
    /\ gate = [status |-> IF Enrolled THEN "Ready" ELSE "PendingEnrollment", revoked |-> FALSE,
               key |-> Enrolled, token |-> IF Enrolled THEN 1 ELSE 0, stack |-> FALSE]
    /\ enrollment = [id |-> 1, unused |-> ~Enrolled, presented |-> 0]
    /\ agent = [token |-> gate.token, pc |-> "Collect", report |-> Nothing, reportAt |-> 0, config |-> Nothing,
                tunnel |-> Nothing, stray |-> {}, at |-> 0]
    /\ seen = NotSeen
    /\ policy = Nothing
    /\ node = [n \in Nodes |-> [link |-> Nothing, log |-> None, at |-> 0]]
    /\ lane = Idle /\ edit = None /\ running = Atts
    /\ clock = 0 /\ requests = 0 /\ events = 0

Exists == gate.status # "Gone"
\* Mutant: what is being revoked is still granted.
GrantedUntilRevoked(rows) ==
    [a \in Atts |-> IF rows[a].status \in {"Provisioning", "Active", "Revoking"} THEN rows[a].rev ELSE 0]
\* What agentConfig and the reconcilers grant.
Granted(rows) == [a \in Atts |-> IF rows[a].status \in {"Provisioning", "Active"} THEN rows[a].rev ELSE 0]
Request == requests < MaxRequests /\ requests' = requests + 1
Event == events < MaxEvents /\ events' = events + 1

-----------------------------------------------------------------------------
(* Requests *)

\* createGateEnrollment makes the enrollments and the token before it worthless.
RotateEnrollment ==
    /\ Request /\ Exists /\ ~gate.revoked /\ enrollment.id < 2
    /\ enrollment' = [enrollment EXCEPT !.id = @ + 1, !.unused = TRUE]
    /\ gate' = [gate EXCEPT !.status = "PendingEnrollment", !.key = FALSE, !.token = 0]
    /\ UNCHANGED <<row, agent, seen, policy, node, lane, edit, running, clock, events>>

RevokeGate ==
    /\ Request /\ Exists /\ ~gate.revoked
    /\ gate' = [gate EXCEPT !.status = "Deleting", !.revoked = TRUE, !.token = 0]
    /\ enrollment' = [enrollment EXCEPT !.unused = FALSE]
    /\ UNCHANGED <<row, agent, seen, policy, node, lane, edit, running, clock, events>>

\* enrollGate reads the enrollment ...
Present ==
    /\ Request /\ Exists /\ ~gate.revoked /\ enrollment.unused /\ enrollment.presented = 0
    /\ enrollment' = [enrollment EXCEPT !.presented = enrollment.id]
    /\ UNCHANGED <<row, gate, agent, seen, policy, node, lane, edit, running, clock, events>>

\* Mutant: it is not claimed.
AnyEnrollment == Exists
\* ... and claims it: usedAt is still null.
Claimed == Exists /\ enrollment.unused /\ enrollment.presented = enrollment.id

Enroll ==
    /\ enrollment.presented # 0
    /\ enrollment' = [enrollment EXCEPT !.unused = @ /\ ~Claimed, !.presented = 0]
    /\ IF ~Claimed THEN UNCHANGED <<gate, agent>> ELSE
         /\ gate' = [gate EXCEPT !.status = "Ready", !.key = TRUE, !.token = enrollment.presented]
         /\ agent' = [agent EXCEPT !.token = enrollment.presented]
    /\ UNCHANGED <<row, seen, policy, node, lane, edit, running, clock, requests, events>>

CreateAttachment(a) ==
    /\ Request /\ Exists /\ ~gate.revoked /\ row[a].status = "None" /\ a \in running
    /\ row' = [row EXCEPT ![a].status = "Pending"]
    /\ UNCHANGED <<gate, enrollment, agent, seen, policy, node, lane, edit, running, clock, events>>

\* updateAddressing checks the status before its transaction ...
AskForAddress(a) ==
    /\ Request /\ edit = None /\ row[a].rev < MaxRev
    /\ row[a].status \in {"Pending", "Provisioning", "Active"}
    /\ edit' = a
    /\ UNCHANGED <<row, gate, enrollment, agent, seen, policy, node, lane, running, clock, events>>

\* ... which does not look at it.
UpdateAddressing ==
    /\ edit # None /\ edit' = None
    /\ row' = IF row[edit].status = "None" THEN row
              ELSE [row EXCEPT ![edit].status = "Pending", ![edit].rev = @ + 1]
    /\ UNCHANGED <<gate, enrollment, agent, seen, policy, node, lane, running, clock, requests, events>>

\* No addressing of it is in progress, and the agent has none but the last.
AddressingDone(a) == edit = None /\ {agent.tunnel[a], agent.config[a], agent.report[a]} \subseteq {0, row[a].rev}

RevokeAttachment(a) ==
    /\ Request /\ row[a].status # "None" /\ ("edit" \in Cases \/ AddressingDone(a))
    /\ row' = [row EXCEPT ![a].status = "Revoking", ![a].at = clock + 1] /\ clock' = clock + 1
    /\ UNCHANGED <<gate, enrollment, agent, seen, policy, node, lane, edit, running, events>>

\* The application is stopped or scaled, so that desiredReplicas is no longer 1, or comes back.
AppChanges(a) ==
    /\ Event /\ running' \in {running \ {a}} \union IF "task" \in Cases THEN {running \union {a}} ELSE {}
    /\ UNCHANGED <<row, gate, enrollment, agent, seen, policy, node, lane, edit, clock, requests>>

-----------------------------------------------------------------------------
(* The agent of the gate *)

AgentOnly == UNCHANGED <<row, gate, enrollment, policy, node, lane, edit, running, clock, requests>>

\* observed_attachment_proofs: nothing is reported while the handshake is stale.
Collect ==
    /\ agent.token # 0 /\ agent.pc = "Collect"
    /\ \E stale \in IF "handshake" \in Cases THEN BOOLEAN ELSE {FALSE} :
         agent' = [agent EXCEPT !.pc = "Send", !.reportAt = agent.at,
                                !.report = IF stale THEN Nothing ELSE agent.tunnel]
    /\ AgentOnly /\ UNCHANGED <<seen, events>>

\* gateHeartbeat keeps the proofs that are of the rows' revisions.
Bound(report) == [a \in Atts |-> IF /\ row[a].status \in {"Provisioning", "Active", "Revoking"}
                                    /\ row[a].rev = report[a] THEN report[a] ELSE 0]
Heard == [fresh |-> TRUE, proofs |-> Bound(agent.report), at |-> agent.reportAt]

Authenticated == Exists /\ gate.token # 0 /\ agent.token = gate.token

Heartbeat ==
    /\ agent.pc = "Send" /\ Authenticated
    /\ seen' = Heard
    /\ agent' = [agent EXCEPT !.pc = "Apply", !.config = Granted(row), !.report = Nothing, !.reportAt = 0]
    /\ AgentOnly /\ UNCHANGED events

\* --revoke-all, which returns at once when no attachment is recorded.
Revoked(ag) == [ag EXCEPT !.pc = "Collect", !.tunnel = Nothing, !.config = Nothing,
                          !.report = Nothing, !.reportAt = 0,
                          !.at = IF ag.tunnel = Nothing THEN @ ELSE clock]

\* The API refuses the token, or the request or its answer is lost.
HeartbeatFails ==
    /\ agent.pc = "Send"
    /\ \/ ~Authenticated /\ UNCHANGED <<seen, events>>
       \/ Event /\ seen' \in {seen, IF Authenticated THEN Heard ELSE seen}
    /\ agent' = Revoked(agent) /\ AgentOnly

\* apply_config: remove what is no longer granted, replace what has a new revision.
Apply ==
    /\ agent.pc = "Apply"
    /\ agent' = IF agent.config = Nothing THEN Revoked(agent)
                ELSE [agent EXCEPT !.pc = "Collect", !.tunnel = agent.config, !.config = Nothing, !.at = clock]
    /\ agent.config # Nothing => \A a \in agent.stray : agent.config[a] = 0
    /\ AgentOnly /\ UNCHANGED <<seen, events>>

\* A tunnel that exists but is not recorded makes it fail too.
ApplyFails ==
    /\ agent.pc = "Apply" /\ agent.config # Nothing
    /\ \/ Event
       \/ (\E a \in agent.stray : agent.config[a] # 0) /\ UNCHANGED events
    /\ agent' = Revoked(agent) /\ AgentOnly /\ UNCHANGED seen

\* The agent is killed after apply_one and before save_state.
Killed(a) ==
    /\ "kill" \in Cases /\ Event /\ agent.pc = "Apply" /\ agent.config[a] # 0 /\ agent.tunnel[a] = 0
    /\ agent' = [agent EXCEPT !.pc = "Collect", !.config = Nothing, !.stray = @ \union {a}]
    /\ AgentOnly /\ UNCHANGED seen

Expires == Event /\ seen.fresh /\ seen' = NotSeen
           /\ UNCHANGED agent /\ AgentOnly

-----------------------------------------------------------------------------
(* The agents of the nodes *)

\* reconcile of the node runner: revoke what is not granted and links of no owner, attach
\* what is, and log proofs and the marker of the cycle.
NodeReconcile(n) ==
    /\ policy # None
    /\ \E here \in IF "task" \in Cases THEN SUBSET running ELSE {running} :
         LET links == [a \in Atts |-> IF a \in here THEN policy[a] ELSE 0] IN
         node' = [node EXCEPT ![n] = [link |-> links, log |-> links, at |-> clock]]
    /\ UNCHANGED <<row, gate, enrollment, agent, seen, policy, lane, edit, running, clock, requests, events>>

LogExpires(n) ==
    /\ Event /\ node[n].log # None /\ node' = [node EXCEPT ![n].log = None, ![n].at = 0]
    /\ UNCHANGED <<row, gate, enrollment, agent, seen, policy, lane, edit, running, clock, requests>>

\* A service update replaces the tasks: an old one detaches its links, or is killed, and
\* what it has logged is not of a current task.
Publish(p) ==
    /\ policy' = p
    /\ IF p = policy THEN UNCHANGED node
       ELSE \E kept \in SUBSET Nodes :
              node' = [n \in Nodes |-> [link |-> IF n \in kept THEN node[n].link ELSE Nothing,
                                        log |-> None, at |-> 0]]

-----------------------------------------------------------------------------
(* The critical lane of the worker *)

LaneOnly == UNCHANGED <<enrollment, agent, seen, edit, running, clock, requests>>
ToLane(pc) == lane' = [Idle EXCEPT !.pc = pc]
\* An attachment's application runs, and once.
Authorized(a) == a \in running

\* GateRuntimeReconcilerService.reconcile reads the gates with their granted attachments.
ReadGate ==
    /\ lane.pc = "Gate" /\ lane.gate = None /\ Exists
    /\ lane' = [lane EXCEPT !.gate = gate, !.rows = row]
    /\ LaneOnly /\ UNCHANGED <<row, gate, policy, node, events>>

\* A revoked gate loses its stack and its row, and with it those of its attachments.
RemoveGate ==
    /\ lane.pc = "Gate" /\ lane.gate # None /\ lane.gate.revoked
    /\ gate' = [gate EXCEPT !.status = "Gone", !.stack = FALSE, !.token = 0]
    /\ row' = [a \in Atts |-> [row[a] EXCEPT !.status = "None"]]
    /\ ToLane("Lifecycle") /\ LaneOnly /\ UNCHANGED <<policy, node, events>>

\* Without a key or attachments its stack is removed, else it is deployed.
DeployGate ==
    /\ lane.pc = "Gate" /\ lane.gate # None /\ ~lane.gate.revoked
    /\ LET wanted == lane.gate.key /\ Granted(lane.rows) # Nothing
           bad == wanted /\ \E a \in Atts : Granted(lane.rows)[a] # 0 /\ ~Authorized(a)
       IN \/ /\ ~bad
             /\ gate' = [gate EXCEPT !.stack = wanted,
                                     !.status = IF lane.gate.key THEN "Ready" ELSE "PendingEnrollment"]
             /\ UNCHANGED events
          \/ bad /\ gate' = [gate EXCEPT !.status = "Error"] /\ UNCHANGED events
          \/ Event /\ gate' = [gate EXCEPT !.status = "Error"]
    /\ ToLane("Lifecycle") /\ LaneOnly /\ UNCHANGED <<row, policy, node>>

\* No gate is left to reconcile.
NoGate ==
    /\ lane.pc = "Gate" /\ lane.gate = None /\ ~Exists
    /\ ToLane("Lifecycle") /\ LaneOnly /\ UNCHANGED <<row, gate, policy, node, events>>

\* RemoteLanLifecycleService.reconcile reads the pending attachments ...
ReadPending ==
    /\ lane.pc = "Lifecycle"
    /\ lane' = [lane EXCEPT !.pc = "Provision",
                  !.todo = {a \in Atts : /\ row[a].status = "Pending" /\ Authorized(a)
                                         /\ ~gate.revoked /\ gate.status = "Ready"}]
    /\ LaneOnly /\ UNCHANGED <<row, gate, policy, node, events>>

\* ... and takes those that are still so.
Provision ==
    /\ lane.pc = "Provision"
    /\ row' = [a \in Atts |-> IF a \in lane.todo /\ row[a].status = "Pending"
                              THEN [row[a] EXCEPT !.status = "Provisioning"] ELSE row[a]]
    /\ ToLane("Node") /\ LaneOnly /\ UNCHANGED <<gate, policy, node, events>>

\* reconcileAuthorized reads what is granted ...
ReadGrants ==
    /\ lane.pc = "Node" /\ lane.rows = None
    /\ lane' = [lane EXCEPT !.rows = row,
                  !.healthy = Granted(row) = Nothing
                     \/ /\ ~gate.revoked /\ gate.status = "Ready" /\ gate.stack
                        /\ \A a \in Atts : Granted(row)[a] # 0 => Authorized(a)]
    /\ LaneOnly /\ UNCHANGED <<row, gate, policy, node, events>>

\* ... publishes it, or withdraws every grant when one is not authorized or an update
\* fails (revokeNodeGrants), unless that fails as well.
PublishGrants ==
    /\ lane.pc = "Node" /\ lane.rows # None
    /\ \/ lane.healthy /\ Publish(Granted(lane.rows)) /\ ToLane("Activation") /\ UNCHANGED events
       \/ /\ lane' = [Idle EXCEPT !.pc = "Activation", !.healthy = FALSE]
          /\ \/ ~lane.healthy /\ Publish(None) /\ UNCHANGED events
             \/ Event /\ (Publish(None) \/ UNCHANGED <<policy, node>>)
    /\ LaneOnly /\ UNCHANGED <<row, gate>>

\* reconcileActivation reads the attachments with their gate and its evidence ...
ReadRows ==
    /\ lane.pc = "Activation" /\ lane.rows = None
    /\ lane' = [lane EXCEPT !.rows = row,
                  !.gate = IF ~gate.revoked /\ gate.status = "Ready" /\ seen.fresh THEN seen ELSE None,
                  !.todo = {a \in Atts : row[a].status \in {"Provisioning", "Active", "Revoking"}}]
    /\ LaneOnly /\ UNCHANGED <<row, gate, policy, node, events>>

\* ... then the logs of the nodes, one of every current task.
ReadLogs ==
    /\ lane.pc = "Activation" /\ lane.rows # None
    /\ lane' = [lane EXCEPT !.pc = "Settle",
                  !.logs = IF lane.healthy /\ \A n \in Nodes : node[n].log # None
                           THEN node ELSE None]
    /\ LaneOnly /\ UNCHANGED <<row, gate, policy, node, events>>

\* Mutant: the gate's report need not be of an apply after the revocation.
ReportedGone(a) == lane.gate # None /\ lane.gate.proofs[a] = 0
\* The gate has applied a configuration since the revocation and reports no tunnel ...
GateRemoved(a) == lane.gate # None /\ lane.gate.at >= lane.rows[a].at /\ lane.gate.proofs[a] = 0
\* ... and every node has reconciled since, and has no link.
NodesRemoved(a) == lane.logs # None
    /\ \A n \in Nodes : lane.logs[n].at >= lane.rows[a].at /\ lane.logs[n].log[a] = 0

\* Mutant: evidence of any revision will do.
ProvenOnce(a) == /\ lane.gate # None /\ lane.logs # None
                 /\ lane.gate.proofs[a] # 0 /\ \E n \in Nodes : lane.logs[n].log[a] # 0
\* validateLanActivationProof: both are of the revision.
Proven(a) ==
    /\ lane.gate # None /\ lane.logs # None /\ Authorized(a)
    /\ lane.gate.proofs[a] = lane.rows[a].rev
    /\ Cardinality({n \in Nodes : lane.logs[n].log[a] = lane.rows[a].rev}) = 1

\* Mutant: an update without conditions.
Anyway(a, from) == TRUE
\* The conditional update: status and revision are still those.
Unchanged(a, from) == row[a].status \in from /\ row[a].rev = lane.rows[a].rev

\* What the rows become.  The proof of a lease may be missing too.
Settled(a) ==
    IF lane.rows[a].status = "Revoking"
    THEN {IF GateRemoved(a) /\ NodesRemoved(a) /\ Unchanged(a, {"Revoking"}) THEN "Revoked" ELSE row[a].status}
    ELSE {IF proven THEN IF Unchanged(a, {"Provisioning", "Active"}) THEN "Active" ELSE row[a].status
          ELSE IF lane.rows[a].status = "Active" /\ Unchanged(a, {"Active"}) THEN "Provisioning" ELSE row[a].status
          : proven \in {Proven(a)} \union {FALSE}}

Settle(a) ==
    /\ lane.pc = "Settle" /\ a \in lane.todo
    /\ \E s \in Settled(a) : row' = [row EXCEPT ![a].status = s]
    /\ lane' = [lane EXCEPT !.todo = @ \ {a}]
    /\ LaneOnly /\ UNCHANGED <<gate, policy, node, events>>

CycleEnds ==
    /\ lane.pc = "Settle" /\ lane.todo = {}
    /\ ToLane("Gate") /\ LaneOnly /\ UNCHANGED <<row, gate, policy, node, events>>

Lane ==
    \/ ReadGate \/ RemoveGate \/ DeployGate \/ NoGate \/ ReadPending \/ Provision
    \/ ReadGrants \/ PublishGrants \/ ReadRows \/ ReadLogs \/ CycleEnds
    \/ \E a \in Atts : Settle(a)

Agent == Collect \/ Heartbeat \/ HeartbeatFails \/ Apply \/ ApplyFails

Next ==
    \/ RotateEnrollment \/ RevokeGate \/ Present \/ Enroll \/ UpdateAddressing
    \/ \E a \in Atts : \/ CreateAttachment(a) \/ AskForAddress(a) \/ RevokeAttachment(a)
                       \/ AppChanges(a) \/ Killed(a)
    \/ Agent \/ Expires
    \/ \E n \in Nodes : NodeReconcile(n) \/ LogExpires(n)
    \/ Lane

Spec == Init /\ [][Next]_vars
FairSpec == Spec /\ WF_vars(Agent) /\ WF_vars(Lane) /\ \A n \in Nodes : WF_vars(NodeReconcile(n))

-----------------------------------------------------------------------------
(* Properties *)

Rev == 0..MaxRev
Revs == [Atts -> Rev]
TypeOK ==
    /\ \A a \in Atts : row[a].status \in {"None", "Pending", "Provisioning", "Active", "Revoking", "Revoked"}
    /\ row \in [Atts -> [status : STRING, rev : 1..MaxRev, at : 0..MaxRequests]]
    /\ gate.status \in {"PendingEnrollment", "Ready", "Error", "Deleting", "Gone"}
    /\ gate.token \in 0..2 /\ agent.token \in 0..2
    /\ agent.tunnel \in Revs /\ agent.config \in Revs /\ agent.report \in Revs /\ agent.stray \subseteq Atts
    /\ agent.pc \in {"Collect", "Send", "Apply"}
    /\ seen.proofs \in Revs /\ policy \in Revs \union {None}
    /\ \A n \in Nodes : node[n].link \in Revs /\ node[n].log \in Revs \union {None}
    /\ lane.pc \in {"Gate", "Lifecycle", "Provision", "Node", "Activation", "Settle"} /\ lane.todo \subseteq Atts
    /\ edit \in Atts \union {None} /\ running \subseteq Atts
    /\ clock \in 0..MaxRequests /\ requests \in 0..MaxRequests /\ events \in 0..MaxEvents

\* An attachment is shown as revoked only when nothing is left of it: no tunnel at the
\* gate, none that the agent is about to make, no link at a node (reconcileActivation,
\* "never infer cleanup from desired state").
RevokedIsRemoved ==
    \A a \in Atts : row[a].status = "Revoked" =>
        /\ agent.tunnel[a] = 0 /\ a \notin agent.stray
        /\ agent.pc = "Apply" => agent.config[a] = 0
        /\ \A n \in Nodes : node[n].link[a] = 0

\* An attachment is active on no other revision than its own: where its ends exist they
\* are of the revision whose evidence was seen, though its addressing is changed meanwhile
\* (configurationRevision in the conditional updates).
ActiveIsCurrent ==
    \A a \in Atts : row[a].status = "Active" =>
        /\ agent.tunnel[a] \in {0, row[a].rev}
        /\ \A n \in Nodes : node[n].link[a] \in {0, row[a].rev}

\* The token in force was given for the newest enrollment, and a revoked gate has none,
\* whatever runs between the check of an enrollment and its use (enrollGate).
TokenIsOfNewest == gate.token \in {0, enrollment.id} /\ (gate.revoked => gate.token = 0)

\* A revocation is not undone by the reconcilers, which have read the attachment before.
RevocationIsFinal ==
    \A a \in Atts : row[a].status \in {"Revoking", "Revoked"} =>
        row'[a].status \in {"Revoking", "Revoked", "None"}

\* A revoked gate goes in the end (removeGateRuntime).
RevokedGateGoes == gate.revoked ~> gate.status = "Gone"

\* What is being revoked is cut at both ends in the end, though a node's or the gate's
\* updates fail (reconcileAuthorized, apply_config).
RevokingIsCut == \A a \in Atts :
    row[a].status = "Revoking" ~>
        \/ row[a].status \notin {"Revoking", "Revoked"}
        \/ agent.tunnel[a] = 0 /\ \A n \in Nodes : node[n].link[a] = 0

=============================================================================
