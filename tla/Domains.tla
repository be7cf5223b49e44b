------------------------------- MODULE Domains -------------------------------
(***************************************************************************)
(* Domains of tenants: roots whose ownership a TXT record proves, the host names   *)
(* below them, and the routes that deployments and the ingress reconciler give to   *)
(* them. A root is verified by an operation of the worker that looks the record up   *)
(* and then writes what it found; the zones belong to others and change at will.     *)
(***************************************************************************)
EXTENDS Naturals, FiniteSets

CONSTANTS
    Tenants,     \* each has an app group with one endpoint
    Hosts,       \* host names
    RootOf(_),   \* the root of a custom host name
    Cases,       \* windows that are open, see the README
    MaxRoots,    \* bound: roots that are made
    MaxCalls,    \* bound: calls for roots and domains
    MaxEvents    \* bound: changes of zones, protocols and groups

Roots == {RootOf(h) : h \in Hosts}

DomainsAssumption ==
    /\ Hosts # {} /\ MaxRoots \in Nat /\ MaxCalls \in Nat /\ MaxEvents \in Nat
    /\ Cases \subseteq {"between", "rollback"}

VARIABLES
    root,      \* CustomRootDomain of each name: its tenant, id and status
    domain,    \* Domain of each host name: its tenant, DNS status, endpoint and certificate
    group,     \* of each tenant: whether its group runs, its protocol and its deployments
    routes,    \* the host names in the labels of each group's service
    zone,      \* who holds the zone of a root, and the tokens in its TXT records
    points,    \* host names whose records point to the platform
    lookup,    \* an operation that verifies a root or a domain: what it has read
    rollout,   \* a deployment of each tenant that was validated
    desired,   \* what the ingress reconciler has read
    watched,   \* what the certificate reconciler has yet to look at
    seen,      \* ghost: roots whose token was found
    denied,    \* ghost: roots of which an answer, a refusal or a request said that they are not proven
    made, calls, events

vars == <<root, domain, group, routes, zone, points, lookup, rollout, desired, watched, seen, denied, made, calls, events>>
zones == <<zone, points>>
counters == <<made, calls, events>>
traffic == <<group, routes, rollout, desired>>

NoRoot == [t |-> "None", id |-> 0, status |-> "None"]
NoDomain == [t |-> "None", dns |-> "None", attached |-> FALSE, tls |-> FALSE, cert |-> "Pending"]
NoLookup == [at |-> "Idle", name |-> "None", id |-> 0, found |-> FALSE]

Init ==
    /\ root = [r \in Roots |-> NoRoot] /\ domain = [h \in Hosts |-> NoDomain]
    /\ group = [t \in Tenants |-> [runs |-> TRUE, https |-> TRUE, last |-> {}, deployed |-> FALSE]]
    /\ routes = [t \in Tenants |-> {}]
    /\ \E t \in Tenants : zone = [r \in Roots |-> [owner |-> t, tokens |-> {}]]
    /\ points = Hosts
    /\ lookup = NoLookup /\ rollout = [t \in Tenants |-> {"Idle"}]
    /\ desired = [t \in Tenants |-> {"Idle"}] /\ watched = {}
    /\ seen = {} /\ denied = {} /\ made = 0 /\ calls = 0 /\ events = 0

Call == calls < MaxCalls /\ calls' = calls + 1 /\ UNCHANGED <<made, events>>
Event == events < MaxEvents /\ events' = events + 1 /\ UNCHANGED <<made, calls>>

\* isDomainPublishable
Publishable(t, h) ==
    /\ domain[h].t = t /\ domain[h].dns = "Valid"
    /\ root[RootOf(h)].t = t /\ root[RootOf(h)].status = "Verified"

Attached(t) == {h \in Hosts : domain[h].t = t /\ domain[h].attached}
\* A route that is being made relies on what was read of the domain.
Quiet(h) == "between" \in Cases \/ \A t \in Tenants : h \notin rollout[t] \cup desired[t]

-----------------------------------------------------------------------------
(* Roots *)

\* createCustomRootDomain, and createCloudflareCustomRootDomain, which goes on to write the record
CreateRoot(t, r, cloudflare) ==
    /\ root[r] = NoRoot /\ made < MaxRoots /\ made' = made + 1 /\ UNCHANGED <<calls, events>>
    /\ root' = [root EXCEPT ![r] = [t |-> t, id |-> made + 1, status |-> "Pending"]]
    /\ IF cloudflare THEN lookup = NoLookup /\ lookup' = [at |-> "Txt", name |-> r, id |-> made + 1, found |-> FALSE]
       ELSE UNCHANGED lookup
    /\ UNCHANGED <<domain, zones, traffic, watched, seen, denied>>

Proves(r, id, found) ==
    /\ IF root[r].id = id
       THEN root' = [root EXCEPT ![r].status = IF found THEN "Verified" ELSE "Failed"]
       ELSE UNCHANGED root
    /\ lookup' = NoLookup

\* ensureVerificationTxt needs the authorization of who holds the zone.
WriteTxt ==
    LET r == lookup.name IN
    /\ lookup.at = "Txt"
    /\ \/ /\ zone[r].owner = root[r].t
          /\ zone' = [zone EXCEPT ![r].tokens = @ \cup {lookup.id}] /\ seen' = seen \cup {lookup.id}
          /\ lookup' = [lookup EXCEPT !.at = "Save", !.found = TRUE] /\ UNCHANGED <<root, denied>>
       \/ /\ Proves(r, lookup.id, FALSE) /\ denied' = denied \cup {lookup.id} /\ UNCHANGED <<zone, seen>>
    /\ UNCHANGED <<domain, points, traffic, watched, counters>>

\* isCompletedNegativeDnsAnswer
Answered(completed) == completed

\* validateCustomRootDomain: the record is looked up ...
LookupRoot(r, completed) ==
    LET found == completed /\ root[r].id \in zone[r].tokens IN
    /\ lookup = NoLookup /\ root[r] # NoRoot /\ Call
    /\ IF Answered(completed)
       THEN lookup' = [at |-> "Save", name |-> r, id |-> root[r].id, found |-> found]
       ELSE UNCHANGED lookup
    /\ seen' = IF found THEN seen \cup {root[r].id} ELSE seen
    /\ denied' = IF completed /\ ~found THEN denied \cup {root[r].id} ELSE denied
    /\ UNCHANGED <<root, domain, zones, traffic, watched>>

\* ... and what was found is written, unless the root was deleted.
SaveRoot ==
    /\ lookup.at = "Save" /\ \A h \in Hosts : RootOf(h) = lookup.name => Quiet(h)
    /\ Proves(lookup.name, lookup.id, lookup.found)
    /\ UNCHANGED <<domain, zones, traffic, watched, seen, denied, counters>>

\* updateCustomRootDomain cannot verify.
ResetRoot(r, status) ==
    /\ root[r] # NoRoot /\ \A h \in Hosts : RootOf(h) = r => Quiet(h)
    /\ Call /\ root' = [root EXCEPT ![r].status = status] /\ denied' = denied \cup {root[r].id}
    /\ UNCHANGED <<domain, zones, traffic, lookup, watched, seen>>

\* deleteCustomRootDomain, and its foreign key
DeleteRoot(r) ==
    /\ root[r] # NoRoot /\ \A h \in Hosts : RootOf(h) = r => domain[h] = NoDomain
    /\ Call /\ root' = [root EXCEPT ![r] = NoRoot]
    /\ UNCHANGED <<domain, zones, traffic, lookup, watched, seen, denied>>

-----------------------------------------------------------------------------
(* Domains *)

\* domainTlsState: to switch TLS off forgets the certificate.
WithTls(d, https) == IF https THEN [d EXCEPT !.tls = TRUE] ELSE [d EXCEPT !.tls = FALSE, !.cert = "Pending"]

Points(h) == IF h \in points THEN "Valid" ELSE "Invalid"

\* createDomain, with an endpoint
CreateDomain(t, h) ==
    /\ domain[h] = NoDomain /\ root[RootOf(h)].t = t /\ root[RootOf(h)].status = "Verified"
    /\ Quiet(h) /\ Call
    /\ domain' = [domain EXCEPT ![h] =
           [t |-> t, dns |-> Points(h), attached |-> TRUE, tls |-> group[t].https, cert |-> "Pending"]]
    /\ UNCHANGED <<root, zones, traffic, lookup, watched, seen, denied>>

\* updateDomain
AttachDomain(h, on) ==
    LET t == domain[h].t IN
    /\ domain[h] # NoDomain /\ domain[h].attached # on /\ Quiet(h)
    /\ on => root[RootOf(h)].t = t /\ root[RootOf(h)].status = "Verified"
    /\ Call
    /\ domain' = [domain EXCEPT ![h] = WithTls([@ EXCEPT !.attached = on], on /\ group[t].https)]
    /\ UNCHANGED <<root, zones, traffic, lookup, watched, seen, denied>>

DeleteDomain(h) ==
    /\ domain[h] # NoDomain /\ Quiet(h) /\ Call
    /\ domain' = [domain EXCEPT ![h] = NoDomain]
    /\ UNCHANGED <<root, zones, traffic, lookup, watched, seen, denied>>

\* validateDomain: what the resolver says is written; a root that is not verified makes it invalid.
ValidateDomain(h) ==
    LET t == domain[h].t IN
    /\ domain[h] # NoDomain /\ Quiet(h) /\ Call
    /\ domain' = [domain EXCEPT ![h].dns =
           IF root[RootOf(h)].t = t /\ root[RootOf(h)].status = "Verified" THEN Points(h) ELSE "Invalid"]
    /\ UNCHANGED <<root, zones, traffic, lookup, watched, seen, denied>>

-----------------------------------------------------------------------------
(* Routes *)

\* Mutant: a snapshot is as good as when it was deployed.
SnapshotIsGood(t, hosts) == TRUE
\* validateDomains: the domains of a snapshot are checked again.
StillGood(t, hosts) == \A h \in hosts : Publishable(t, h) /\ ~(domain[h].tls /\ domain[h].cert = "Error")

\* A deployment of the draft, or a rollback to an earlier one
Validate(t, hosts) ==
    /\ rollout[t] = {"Idle"} /\ group[t].runs
    /\ hosts = Attached(t) \/ (group[t].deployed /\ hosts = group[t].last)
    /\ Call /\ StillGood(t, hosts) /\ rollout' = [rollout EXCEPT ![t] = hosts]
    /\ UNCHANGED <<root, domain, zones, group, routes, lookup, desired, watched, seen, denied>>

\* The stack is applied with the labels of the snapshot; when it fails, the deployment before is put back.
Deploy(t, works) ==
    /\ rollout[t] # {"Idle"} /\ (works \/ "rollback" \in Cases)
    /\ rollout' = [rollout EXCEPT ![t] = {"Idle"}]
    /\ group' = IF works THEN [group EXCEPT ![t].last = rollout[t], ![t].deployed = TRUE] ELSE group
    /\ routes' = [routes EXCEPT ![t] = IF works THEN rollout[t] ELSE group[t].last]
    /\ UNCHANGED <<root, domain, zones, lookup, desired, watched, seen, denied, counters>>

\* Mutant: what is attached is routed.
AsDrafted(t) == IF group[t].runs THEN Attached(t) ELSE {}
\* Mutant: a group that was stopped keeps its routes.
StoppedToo(t) == {h \in Attached(t) : Publishable(t, h)}
\* reconcileBatch of the ingress: the domains that the database has now
Wanted(t) == IF group[t].runs THEN {h \in Attached(t) : Publishable(t, h)} ELSE {}

ReadRoutes(t) ==
    /\ desired[t] = {"Idle"} /\ group[t].deployed /\ routes[t] # Wanted(t)
    /\ desired' = [desired EXCEPT ![t] = Wanted(t)]
    /\ UNCHANGED <<root, domain, zones, group, routes, lookup, rollout, watched, seen, denied, counters>>

WriteRoutes(t) ==
    /\ desired[t] # {"Idle"}
    /\ routes' = [routes EXCEPT ![t] = desired[t]] /\ desired' = [desired EXCEPT ![t] = {"Idle"}]
    /\ UNCHANGED <<root, domain, zones, group, lookup, rollout, watched, seen, denied, counters>>

\* A group is started or stopped, or its endpoint gets another protocol.
ChangeGroup(t, runs, https) ==
    /\ group[t].deployed /\ <<runs, https>> # <<group[t].runs, group[t].https>> /\ rollout[t] = {"Idle"} /\ Event
    /\ group' = [group EXCEPT ![t].runs = runs, ![t].https = https]
    /\ UNCHANGED <<root, domain, zones, routes, lookup, rollout, desired, watched, seen, denied>>

-----------------------------------------------------------------------------
(* Certificates: reconcileBatch takes the domains and looks at one after the other. *)

NeedsTls(h) == domain[h].attached /\ group[domain[h].t].https

StartBatch ==
    /\ watched = {}
    /\ watched' = {[h |-> h, tls |-> NeedsTls(h), cert |-> domain[h].cert] : h \in {k \in Hosts : domain[k] # NoDomain}}
    /\ UNCHANGED <<root, domain, zones, traffic, lookup, seen, denied, counters>>

\* The handshake succeeds when the name leads to the platform and is routed.
Served(h) == h \in points /\ \E t \in Tenants : h \in routes[t] /\ group[t].https

\* Mutant: an error is kept until the handshake succeeds again.
StaysError(was) == IF was \in {"Active", "Error"} THEN "Error" ELSE "Issuing"
\* A certificate that was active is in error, once.
Unobserved(was) == IF was = "Active" THEN "Error" ELSE "Issuing"

\* A domain that was deleted in the meantime ends the batch.
Observe(w) ==
    /\ w \in watched
    /\ IF domain[w.h] = NoDomain THEN watched' = {} /\ UNCHANGED domain
       ELSE /\ watched' = watched \ {w}
            /\ domain' = [domain EXCEPT ![w.h] =
                   IF ~w.tls THEN WithTls(@, FALSE)
                   ELSE [@ EXCEPT !.tls = TRUE, !.cert = IF Served(w.h) THEN "Active" ELSE Unobserved(w.cert)]]
    /\ UNCHANGED <<root, zones, traffic, lookup, seen, denied, counters>>

Certificates == \E w \in watched : Observe(w)
Applies(t) == Deploy(t, TRUE)

-----------------------------------------------------------------------------
(* Others *)

\* The holder of a zone publishes a token, or removes it, or sells the zone.
ChangeTxt(r) ==
    /\ Event /\ UNCHANGED points
    /\ \/ /\ root[r].t = zone[r].owner /\ root[r].id \notin zone[r].tokens
          /\ zone' = [zone EXCEPT ![r].tokens = @ \cup {root[r].id}]
       \/ zone' = [zone EXCEPT ![r].tokens = {}]
       \/ \E t \in Tenants : zone' = [zone EXCEPT ![r] = [owner |-> t, tokens |-> {}]]
    /\ UNCHANGED <<root, domain, traffic, lookup, watched, seen, denied>>

Repoint(h) ==
    /\ Event /\ points' = IF h \in points THEN points \ {h} ELSE points \cup {h}
    /\ UNCHANGED <<root, domain, zone, traffic, lookup, watched, seen, denied>>

Next ==
    \/ WriteTxt \/ SaveRoot \/ StartBatch
    \/ \E r \in Roots :
        \/ \E t \in Tenants, b \in BOOLEAN : CreateRoot(t, r, b)
        \/ \E b \in BOOLEAN : LookupRoot(r, b)
        \/ \E s \in {"Pending", "Failed"} : ResetRoot(r, s)
        \/ DeleteRoot(r) \/ ChangeTxt(r)
    \/ \E h \in Hosts :
        \/ \E t \in Tenants : CreateDomain(t, h)
        \/ \E b \in BOOLEAN : AttachDomain(h, b)
        \/ DeleteDomain(h) \/ ValidateDomain(h) \/ Repoint(h)
    \/ \E t \in Tenants :
        \/ \E hosts \in SUBSET Hosts : Validate(t, hosts)
        \/ \E b \in BOOLEAN : Deploy(t, b)
        \/ ReadRoutes(t) \/ WriteRoutes(t)
        \/ \E b, s \in BOOLEAN : ChangeGroup(t, b, s)
    \/ Certificates

\* The worker runs its lanes again and again and works off what was asked for.
Fairness ==
    /\ WF_vars(SaveRoot) /\ WF_vars(WriteTxt) /\ WF_vars(StartBatch) /\ WF_vars(Certificates)
    /\ \A t \in Tenants : WF_vars(Applies(t)) /\ WF_vars(ReadRoutes(t)) /\ WF_vars(WriteRoutes(t))

Spec == Init /\ [][Next]_vars
FairSpec == Spec /\ Fairness

-----------------------------------------------------------------------------
TypeOK ==
    /\ \A r \in Roots : root[r].status \in {"None", "Pending", "Verified", "Failed"} /\ root[r].id \in 0..made
    /\ \A h \in Hosts : domain[h].t \in Tenants \cup {"None"} /\ domain[h].cert \in {"Pending", "Issuing", "Active", "Error"}
    /\ routes \in [Tenants -> SUBSET Hosts] /\ points \subseteq Hosts

\* A root is verified for a tenant only when the token of this tenant's claim was in the zone, and it fails only
\* when an answer, the provider or the tenant said so: an outage of the resolver changes nothing
\* (validateCustomRootDomain, createCloudflareCustomRootDomain).
StatusIsProven ==
    \A r \in Roots : /\ root[r].status = "Verified" => root[r].id \in seen
                     /\ root[r].status = "Failed" => root[r].id \in denied

\* A route that is added is of a domain of the tenant below a root that is verified for it, whether a draft, an
\* earlier deployment or the reconciler adds it (validateDomains, isDomainPublishable).
RoutesAreOwned ==
    \A t \in Tenants : \A h \in routes'[t] \ routes[t] : Publishable(t, h)

\* In the end the routes are those of the domains that may be published, for groups that run.
RoutesSettle ==
    \A t \in Tenants : \A h \in Hosts : <>[](h \in routes[t] => Publishable(t, h) /\ group[t].runs)

\* In the end a domain asks for TLS when its endpoint does, and an error of its certificate does not stay: it
\* would keep the group from being deployed (DomainCertificateReconcilerService, validateDomains).
CertificatesSettle ==
    \A h \in Hosts : <>[](domain[h] # NoDomain => domain[h].tls = NeedsTls(h) /\ domain[h].cert # "Error")
=============================================================================
