------------------------------ MODULE Endpoints ------------------------------
(***************************************************************************)
(* What is drafted for an app besides its size: HTTP endpoints, the domains   *)
(* that point to them and its environment. Requests read before their          *)
(* transaction; a domain moves between groups, each of which is deployed and    *)
(* discarded for itself.                                                        *)
(***************************************************************************)
EXTENDS Naturals

CONSTANTS
    Groups,       \* app groups of a tenant, each with one app
    Endpoints,    \* rows of endpoints, see GroupOf
    GroupOf(_),
    Hosts,        \* rows of domains
    Names,        \* names in an environment
    Callers,      \* requests in progress
    Cases,        \* windows that are open, see the README
    MaxWrites     \* bound: requests that are made

EndpointsAssumption ==
    /\ \A e \in Endpoints : GroupOf(e) \in Groups
    /\ MaxWrites \in Nat /\ Cases \subseteq {"steal", "move", "merge", "inuse", "stale"}

VARIABLES
    port,     \* containerPort and protocolMode of each endpoint, 0 without a row
    domain,   \* the endpoint of each domain, Free, New before and Gone after it has a row
    env,      \* environment of each app
    pending,  \* pendingDeletion of each app
    dirty,    \* hasPendingChanges
    current,  \* snapshot of the current deployment
    active,   \* the deployment in progress: its snapshot, whether the draft was edited since, and whether
              \* its completing transaction has read that it was
    missed,   \* ghost: the draft was edited while the last deployment was being completed
    call,     \* what each request has read
    writes

vars == <<port, domain, env, pending, dirty, current, active, missed, call, writes>>

Ports == 1..2
NoSnapshot == <<>>
NoCall == [pc |-> "Idle"]
NoDeployment == [snapshot |-> NoSnapshot, edited |-> FALSE, read |-> "None"]

Init ==
    /\ port = [e \in Endpoints |-> 0] /\ domain = [h \in Hosts |-> "New"]
    /\ env = [g \in Groups |-> [n \in Names |-> 0]] /\ pending = [g \in Groups |-> FALSE]
    /\ dirty = [g \in Groups |-> TRUE]
    /\ current = [g \in Groups |-> NoSnapshot] /\ active = [g \in Groups |-> NoDeployment]
    /\ missed = [g \in Groups |-> FALSE]
    /\ call = [c \in Callers |-> NoCall] /\ writes = 0

EndpointsOf(g) == {e \in Endpoints : GroupOf(e) = g}
Attached(e) == {h \in Hosts : domain[h] = e}
Draft(g) == [ports |-> [e \in EndpointsOf(g) |-> port[e]], hosts |-> [e \in EndpointsOf(g) |-> Attached(e)], env |-> env[g]]

\* markAppGroupDraftChanged
Mark(groups) ==
    /\ dirty' = [g \in Groups |-> dirty[g] \/ g \in groups]
    /\ active' = [g \in Groups |-> IF g \in groups /\ active[g] # NoDeployment THEN [active[g] EXCEPT !.edited = TRUE] ELSE active[g]]

Begin(c, record) ==
    /\ call[c] = NoCall /\ writes < MaxWrites /\ writes' = writes + 1
    /\ call' = [call EXCEPT ![c] = record]
    /\ UNCHANGED <<port, domain, env, pending, dirty, current, active, missed>>
End(c) == call' = [call EXCEPT ![c] = NoCall] /\ UNCHANGED <<pending, current, writes>>
Refused(c) == End(c) /\ UNCHANGED <<port, domain, env, dirty, active, missed>>

-----------------------------------------------------------------------------
(* Endpoints *)

CreateEndpoint(c, e, p) ==
    /\ ~pending[GroupOf(e)] /\ port[e] = 0
    /\ Begin(c, [pc |-> "Create", endpoint |-> e, port |-> p])

UpdateEndpoint(c, e, p) ==
    /\ ~pending[GroupOf(e)] /\ port[e] \notin {0, p}
    /\ Begin(c, [pc |-> "Update", endpoint |-> e, port |-> p])

\* Mutant: an endpoint is deleted with its domains.
Deletes(e) == TRUE
\* HttpEndpointInUse
Unused(e) == Attached(e) = {}
DeleteEndpoint(c, e) ==
    /\ ~pending[GroupOf(e)] /\ port[e] # 0 /\ Unused(e)
    /\ Begin(c, [pc |-> "Delete", endpoint |-> e, port |-> 0])

\* A domain is set free when its endpoint goes (onDelete: SetNull).
WriteEndpoint(c) ==
    /\ call[c].pc \in {"Create", "Update", "Delete"}
    /\ LET e == call[c].endpoint
           possible == IF call[c].pc = "Create" THEN port[e] = 0 ELSE port[e] # 0
       IN
       \/ /\ possible
          /\ call[c].pc = "Delete" => "inuse" \in Cases \/ Unused(e)
          /\ port' = [port EXCEPT ![e] = call[c].port]
          /\ domain' = [h \in Hosts |-> IF call[c].pc = "Delete" /\ domain[h] = e THEN "Free" ELSE domain[h]]
          /\ Mark({GroupOf(e)}) /\ End(c) /\ UNCHANGED <<env, missed>>
       \/ ~possible /\ Refused(c)

-----------------------------------------------------------------------------
(* Domains *)

\* createDomain, updateDomain and deleteDomain read the groups of the endpoints before their transaction.
AskDomain(c, h, target) ==
    /\ domain[h] \notin {"Gone", target}
    /\ target \in Endpoints => port[target] # 0
    /\ domain[h] = "New" => target # "Gone"
    /\ Begin(c, [pc |-> "Domain", host |-> h, target |-> target, seen |-> domain[h]])

\* Mutant: only the group that gets the domain is marked.
MarksNew(seen, target) == {GroupOf(e) : e \in Endpoints \cap {target}}
Changed(seen, target) == {GroupOf(e) : e \in Endpoints \cap {seen, target}}

WriteDomain(c) ==
    /\ call[c].pc = "Domain"
    /\ LET h == call[c].host
           target == call[c].target
           \* the row is not there yet, or still, and so is the endpoint
           possible == /\ (call[c].seen = "New") = (domain[h] = "New") /\ domain[h] # "Gone"
                       /\ target \in Endpoints => port[target] # 0
       IN
       \/ /\ possible
          /\ "move" \in Cases \/ domain[h] = call[c].seen
          /\ domain' = [domain EXCEPT ![h] = target]
          /\ Mark(Changed(call[c].seen, target)) /\ End(c) /\ UNCHANGED <<port, env, missed>>
       \/ ~(possible /\ ("move" \in Cases \/ domain[h] = call[c].seen)) /\ Refused(c)

-----------------------------------------------------------------------------
(* The environment *)

\* Mutant: the environment is what the request says.
Replaced(e, n, v) == [m \in Names |-> IF m = n THEN v ELSE 0]
\* mergeEnvironment: 0 removes a name.
Merged(e, n, v) == [e EXCEPT ![n] = v]

UpdateRuntimeConfig(c, g, n, v) ==
    /\ ~pending[g] /\ env[g][n] # v
    /\ Begin(c, [pc |-> "Env", group |-> g, name |-> n, seen |-> env[g], env |-> Merged(env[g], n, v)])

WriteRuntimeConfig(c) ==
    /\ call[c].pc = "Env"
    /\ LET g == call[c].group IN
       /\ "merge" \in Cases \/ env[g] = call[c].seen
       /\ env' = [env EXCEPT ![g] = call[c].env]
       /\ Mark({g}) /\ End(c) /\ UNCHANGED <<port, domain, missed>>

-----------------------------------------------------------------------------
(* The group *)

MarkForDeletion(g) ==
    /\ ~pending[g] /\ writes < MaxWrites /\ writes' = writes + 1
    /\ pending' = [pending EXCEPT ![g] = TRUE] /\ Mark({g})
    /\ UNCHANGED <<port, domain, env, current, missed, call>>

\* assertDraftCanBeDeployed
Deploy(g) ==
    /\ dirty[g] /\ ~pending[g] /\ active[g] = NoDeployment /\ writes < MaxWrites /\ writes' = writes + 1
    /\ active' = [active EXCEPT ![g] = [NoDeployment EXCEPT !.snapshot = Draft(g)]]
    /\ UNCHANGED <<port, domain, env, pending, dirty, current, missed, call>>

\* The completing transaction reads whether the draft has been edited since the snapshot was taken ...
ReadDraft(g) ==
    /\ active[g].snapshot # NoSnapshot /\ active[g].read = "None"
    /\ active' = [active EXCEPT ![g].read = IF active[g].edited THEN "edited" ELSE "same"]
    /\ UNCHANGED <<port, domain, env, pending, dirty, current, missed, call, writes>>

\* ... and writes what follows from it; or the deployment fails.
Finish(g, succeeds) ==
    /\ active[g].snapshot # NoSnapshot
    /\ active' = [active EXCEPT ![g] = NoDeployment]
    /\ IF succeeds
       THEN /\ active[g].read # "None"
            /\ current' = [current EXCEPT ![g] = active[g].snapshot]
            /\ dirty' = [dirty EXCEPT ![g] = active[g].read = "edited"]
            /\ missed' = [missed EXCEPT ![g] = active[g].edited /\ active[g].read = "same"]
       ELSE UNCHANGED <<current, dirty, missed>>
    /\ UNCHANGED <<port, domain, env, pending, call, writes>>

\* discardDraftChanges
ReadSnapshot(c, g) ==
    /\ dirty[g] /\ current[g] # NoSnapshot
    /\ Begin(c, [pc |-> "Discard", group |-> g, snapshot |-> current[g]])

\* restoreHttpEndpoints: domains are taken back from whatever endpoint they are at.
Restored(g, snapshot) == [h \in Hosts |->
    CASE \E e \in EndpointsOf(g) : h \in snapshot.hosts[e] -> CHOOSE e \in EndpointsOf(g) : h \in snapshot.hosts[e]
      [] domain[h] \in EndpointsOf(g) -> "Free"
      [] OTHER -> domain[h]]
Taken(g, snapshot) == {h \in Hosts : Restored(g, snapshot)[h] # domain[h] /\ domain[h] \in Endpoints \ EndpointsOf(g)}

Discard(c) ==
    /\ call[c].pc = "Discard"
    /\ LET g == call[c].group
           s == call[c].snapshot
           possible == (active[g] = NoDeployment) /\ \A e \in EndpointsOf(g), h \in Hosts : h \in s.hosts[e] => domain[h] # "Gone"
       IN
       \/ /\ possible
          /\ "stale" \in Cases \/ s = current[g]
          /\ "steal" \in Cases \/ Taken(g, s) = {}
          /\ port' = [e \in Endpoints |-> IF e \in EndpointsOf(g) THEN s.ports[e] ELSE port[e]]
          /\ domain' = Restored(g, s) /\ env' = [env EXCEPT ![g] = s.env]
          /\ pending' = [pending EXCEPT ![g] = FALSE] /\ dirty' = [dirty EXCEPT ![g] = FALSE]
          /\ missed' = [missed EXCEPT ![g] = FALSE]
          /\ call' = [call EXCEPT ![c] = NoCall] /\ UNCHANGED <<current, active, writes>>
       \/ ~possible /\ Refused(c)

Next ==
    \/ \E c \in Callers :
        \/ \E e \in Endpoints : DeleteEndpoint(c, e) \/ \E p \in Ports : CreateEndpoint(c, e, p) \/ UpdateEndpoint(c, e, p)
        \/ \E h \in Hosts, target \in Endpoints \cup {"Free", "Gone"} : AskDomain(c, h, target)
        \/ \E g \in Groups, n \in Names, v \in 0..1 : UpdateRuntimeConfig(c, g, n, v)
        \/ \E g \in Groups : ReadSnapshot(c, g)
        \/ WriteEndpoint(c) \/ WriteDomain(c) \/ WriteRuntimeConfig(c) \/ Discard(c)
    \/ \E g \in Groups : MarkForDeletion(g) \/ Deploy(g) \/ ReadDraft(g) \/ \E succeeds \in BOOLEAN : Finish(g, succeeds)

Spec == Init /\ [][Next]_vars

-----------------------------------------------------------------------------
\* Rows and domains stay within what there is; a domain points to an endpoint that has a row.
TypeOK ==
    /\ port \in [Endpoints -> 0..2] /\ {dirty, pending, missed} \subseteq [Groups -> BOOLEAN]
    /\ \A h \in Hosts : domain[h] \in {"New", "Free", "Gone"} \/ port[domain[h]] # 0

\* A group without pending changes is deployed with the endpoints, domains and environment of its draft, whichever
\* group a domain came from or went to meanwhile, unless the last edit was lost between a read and a write of
\* the completing transaction (updateDomain, deleteDomain, restoreHttpEndpoints, runtimeDraftRevision).
CleanIsServed ==
    \A g \in Groups : ~dirty[g] /\ ~missed[g] /\ current[g] # NoSnapshot => Draft(g) = current[g] /\ ~pending[g]

\* A domain is set free by a request for it, or with the draft it was added to, never with an endpoint
\* (HttpEndpointInUse).
DetachedOnRequest ==
    \A h \in Hosts : domain[h] \in Endpoints /\ domain'[h] = "Free" =>
        \E c \in Callers : call[c].pc = "Discard" \/ (call[c].pc = "Domain" /\ call[c].host = h)

\* An update of one name of an environment leaves the others as they are (mergeEnvironment).
NoVariableIsLost ==
    \A g \in Groups, n \in Names : env'[g][n] # env[g][n] =>
        \E c \in Callers : call'[c] = NoCall /\ (call[c].pc = "Discard" \/ (call[c].pc = "Env" /\ call[c].group = g /\ call[c].name = n))
=============================================================================
