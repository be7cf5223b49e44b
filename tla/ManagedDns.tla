------------------------------ MODULE ManagedDns ------------------------------
(***************************************************************************)
(* Host names that the platform keeps in a zone at Cloudflare. A domain is made   *)
(* and deleted in two places, the zone and the database, one after the other,     *)
(* with a compensation when the second fails. An administrator connects the zone,  *)
(* changes it, and disables the service. Records of others are left alone.          *)
(***************************************************************************)
EXTENDS Naturals

CONSTANTS
    Hosts,       \* host names under the managed base domain
    Callers,     \* requests in flight
    Zones,       \* zones at Cloudflare
    Foreign,     \* hosts whose record somebody else may replace by another
    Legacy,      \* hosts of domains of an older release, whose record lacks the comment
    Cases,       \* windows that are open, see the README
    MaxCalls,    \* bound: requests
    MaxFailures  \* bound: calls of the API or the database that fail

ManagedDnsAssumption ==
    /\ MaxCalls \in Nat /\ MaxFailures \in Nat
    /\ Foreign \subseteq Hosts /\ Legacy \subseteq Hosts \ Foreign
    /\ Cases \subseteq {"race", "lost", "zone", "outage"}

VARIABLES
    row,      \* Domain.dnsStatus of each host, or None
    record,   \* records of each host in each zone
    platform, \* PlatformDnsIntegration
    calls,    \* what the requests are doing
    blocked,  \* ghost: hosts for which a record was reported as unmanaged
    made, failures

vars == <<row, record, platform, calls, blocked, made, failures>>

AZone == CHOOSE z \in Zones : TRUE
Idle == [at |-> "Idle", h |-> "None", zone |-> AZone, did |-> FALSE, on |-> FALSE, left |-> {}]

Init ==
    /\ row = [h \in Hosts |-> IF h \in Legacy THEN "Valid" ELSE "None"]
    /\ record = [z \in Zones |->
           [h \in Hosts |-> IF h \in Legacy THEN "Legacy" ELSE "None"]]
    /\ platform = [zone |-> AZone, enabled |-> FALSE, ok |-> FALSE]
    /\ calls = [c \in Callers |-> Idle]
    /\ blocked = {} /\ made = 0 /\ failures = 0

Step(c, changes) == calls' = [calls EXCEPT ![c] = changes]
Go(c, at) == calls' = [calls EXCEPT ![c].at = at]
Leave(c) == Step(c, Idle)
Fault == failures < MaxFailures /\ failures' = failures + 1

\* isAvailable
Available == platform.enabled /\ platform.ok
Managed == {h \in Hosts : row[h] # "None"}

Moving(c) == calls[c].at \in {"Connect", "Reconcile", "Apply"} /\ calls[c].zone # platform.zone
\* A new request
Starts(c, h, changes) ==
    /\ calls[c] = Idle /\ made < MaxCalls /\ made' = made + 1
    /\ "race" \in Cases \/ h = "None" \/ \A d \in Callers : calls[d].h # h
    /\ "zone" \in Cases \/ \A d \in Callers : ~Moving(d)
    /\ "outage" \in Cases \/ \A d \in Callers :
         IF h = "None" THEN calls[d].at \notin {"Remove", "DeleteRow", "Restore"}
         ELSE changes.at = "Remove" => calls[d].at \notin {"Connect", "Reconcile", "Apply"}
    /\ Step(c, changes)

-----------------------------------------------------------------------------
(* The zone *)

\* Mutant: what points to the platform is taken for its own.
PointsHere(r) == r \in {"Ours", "Legacy", "Foreign"}
\* The record has the comment of the platform (deleteManagedCname).
IsOurs(r) == r = "Ours"
\* Mutant: records of an older release are not known.
OnlyOurs(r) == r = "Ours"
\* findOwnedManagedCname, findLegacyManagedCname: without a comment, it is adopted.
Adoptable(r) == r \in {"Ours", "Legacy"}

Put(z, h) == record' = [record EXCEPT ![z][h] = "Ours"]
Take(z, h) == record' = [record EXCEPT ![z][h] = IF IsOurs(@) THEN "None" ELSE @]

\* ensureManagedCname finds the record of another.
Conflict(z, h) == record[z][h] # "None" /\ ~Adoptable(record[z][h])
Reports(h) == blocked' = blocked \cup {h}

-----------------------------------------------------------------------------
(* Domains of tenants *)

\* createDomain
StartCreate(c, h) ==
    /\ Available
    /\ Starts(c, h, [Idle EXCEPT !.at = "Ensure", !.h = h, !.zone = platform.zone])
    /\ UNCHANGED <<row, record, platform, blocked, failures>>

\* provisionManagedDomain; an answer that is lost leaves a record without a domain.
Ensure(c) ==
    LET h == calls[c].h  z == calls[c].zone IN
    /\ calls[c].at = "Ensure"
    /\ \/ /\ ~Conflict(z, h) /\ Put(z, h)
          /\ Step(c, [calls[c] EXCEPT !.at = "Insert", !.did = record[z][h] = "None"])
          /\ UNCHANGED <<blocked, failures>>
       \/ Conflict(z, h) /\ Reports(h) /\ Leave(c) /\ UNCHANGED <<record, failures>>
       \/ ~Conflict(z, h) /\ Fault /\ Leave(c) /\ (Put(z, h) \/ UNCHANGED record) /\ UNCHANGED blocked
    /\ UNCHANGED <<row, platform, made>>

\* The transaction of createDomain; the name may be taken.
Insert(c) ==
    /\ calls[c].at = "Insert"
    /\ \/ row[calls[c].h] = "None" /\ row' = [row EXCEPT ![calls[c].h] = "Valid"] /\ Leave(c) /\ UNCHANGED failures
       \/ /\ (row[calls[c].h] # "None" /\ UNCHANGED failures) \/ Fault
          /\ Go(c, "Undo") /\ UNCHANGED row
    /\ UNCHANGED <<record, platform, blocked, made>>

\* Mutant: the record is removed whoever made it.
UndoesAll(c) == TRUE
\* Only what this request has made is removed.
Undoes(c) == calls[c].did

Undo(c) ==
    /\ calls[c].at = "Undo" /\ Leave(c)
    /\ IF Undoes(c)
       THEN (Take(calls[c].zone, calls[c].h) /\ UNCHANGED failures) \/ (Fault /\ UNCHANGED record)
       ELSE UNCHANGED <<record, failures>>
    /\ UNCHANGED <<row, platform, blocked, made>>

\* deleteDomain
StartDelete(c, h) ==
    /\ row[h] # "None" /\ ("outage" \in Cases \/ Available)
    /\ Starts(c, h, [Idle EXCEPT !.at = "Remove", !.h = h, !.zone = platform.zone])
    /\ UNCHANGED <<row, record, platform, blocked, failures>>

\* deleteManagedDomain
Remove(c) ==
    LET h == calls[c].h  z == calls[c].zone IN
    /\ calls[c].at = "Remove"
    /\ \/ /\ Take(z, h) /\ UNCHANGED failures
          /\ Step(c, [calls[c] EXCEPT !.at = "DeleteRow", !.did = record[z][h] = "Ours"])
       \/ Fault /\ Leave(c) /\ (UNCHANGED record \/ ("lost" \in Cases /\ Take(z, h)))
    /\ UNCHANGED <<row, platform, blocked, made>>

\* The transaction of deleteDomain
DeleteRow(c) ==
    LET h == calls[c].h IN
    /\ calls[c].at = "DeleteRow"
    /\ \/ row[h] # "None" /\ row' = [row EXCEPT ![h] = "None"] /\ Leave(c) /\ UNCHANGED failures
       \/ ((row[h] = "None" /\ UNCHANGED failures) \/ Fault) /\ Go(c, "Restore") /\ UNCHANGED row
    /\ UNCHANGED <<record, platform, blocked, made>>

\* Mutant: a deletion that fails is left half done.
NeverRestores(c) == FALSE
Restores(c) == calls[c].did /\ Available

Restore(c) ==
    LET h == calls[c].h IN
    /\ calls[c].at = "Restore" /\ Leave(c)
    /\ IF Restores(c) /\ ~Conflict(platform.zone, h)
       THEN (Put(platform.zone, h) /\ UNCHANGED failures) \/ (Fault /\ UNCHANGED record)
       ELSE UNCHANGED <<record, failures>>
    /\ UNCHANGED <<row, platform, blocked, made>>

\* validateDomain: managedDomainExists adopts a record, too, ...
Look(c, h) ==
    LET r == record[platform.zone][h] IN
    /\ row[h] # "None"
    /\ record' = IF Adoptable(r) THEN [record EXCEPT ![platform.zone][h] = "Ours"] ELSE record
    /\ Starts(c, h, [Idle EXCEPT !.at = "Write", !.h = h, !.did = Adoptable(r)])
    /\ UNCHANGED <<row, platform, blocked, failures>>

\* ... and what it has found is written.
Write(c) ==
    LET h == calls[c].h IN
    /\ calls[c].at = "Write" /\ Leave(c)
    /\ row' = IF row[h] = "None" THEN row ELSE [row EXCEPT ![h] = IF calls[c].did THEN "Valid" ELSE "Invalid"]
    /\ UNCHANGED <<record, platform, blocked, made, failures>>

\* The API process dies.
Dies(c) ==
    /\ calls[c].at \in {"Insert", "Undo"} \cup (IF "lost" \in Cases THEN {"DeleteRow", "Restore"} ELSE {})
    /\ Fault /\ Leave(c)
    /\ UNCHANGED <<row, record, platform, blocked, made>>

-----------------------------------------------------------------------------
(* The administrator *)

\* The zone stays as long as there are domains (updatePlatformState).
MayMove(z) == z = platform.zone \/ Managed = {}

\* updatePlatformState; to disable needs no connection.
Configure(c, z, on) ==
    /\ MayMove(z)
    /\ z = platform.zone \/ "zone" \in Cases \/ \A d \in Callers : calls[d] = Idle
    /\ Starts(c, "None", [Idle EXCEPT !.at = IF on THEN "Connect" ELSE "Apply", !.zone = IF on THEN z ELSE platform.zone, !.on = on])
    /\ UNCHANGED <<row, record, platform, blocked, failures>>

Broken(c) == platform' = [platform EXCEPT !.ok = FALSE] /\ Leave(c)

\* validateConnection
Connect(c) ==
    /\ calls[c].at = "Connect"
    /\ \/ Step(c, [calls[c] EXCEPT !.at = "Reconcile", !.left = Managed]) /\ UNCHANGED <<platform, failures>>
       \/ Fault /\ Broken(c)
    /\ UNCHANGED <<row, record, blocked, made>>

Reconciled(c) == calls[c].at = "Reconcile" /\ calls[c].left = {}

\* reconcileExistingManagedDomains
Reconcile(c) ==
    LET z == calls[c].zone IN
    \/ /\ Reconciled(c) /\ Go(c, "Apply")
       /\ UNCHANGED <<row, record, platform, blocked, made, failures>>
    \/ /\ calls[c].at = "Reconcile"
       /\ \E h \in calls[c].left :
           \/ /\ ~Conflict(z, h) /\ Put(z, h)
              /\ Step(c, [calls[c] EXCEPT !.left = @ \ {h}]) /\ UNCHANGED <<platform, blocked>>
           \/ Conflict(z, h) /\ Reports(h) /\ Broken(c) /\ UNCHANGED record
       /\ UNCHANGED <<row, made, failures>>

Apply(c) ==
    /\ calls[c].at = "Apply" /\ Leave(c)
    /\ platform' = [zone |-> calls[c].zone, enabled |-> calls[c].on, ok |-> calls[c].on \/ platform.ok]
    /\ UNCHANGED <<row, record, blocked, made, failures>>

\* validatePlatformConnection
Verify(c, works) ==
    /\ Starts(c, "None", Idle) /\ platform' = [platform EXCEPT !.ok = works]
    /\ UNCHANGED <<row, record, blocked, failures>>

\* Somebody else puts a record of that name into the zone.
Replace(h) ==
    /\ h \in Foreign /\ record[platform.zone][h] # "Foreign"
    /\ record' = [record EXCEPT ![platform.zone][h] = "Foreign"]
    /\ UNCHANGED <<row, platform, calls, blocked, made, failures>>

Next ==
    \/ \E h \in Hosts : Replace(h)
    \/ \E c \in Callers :
        \/ \E h \in Hosts : StartCreate(c, h) \/ StartDelete(c, h) \/ Look(c, h)
        \/ Ensure(c) \/ Insert(c) \/ Undo(c) \/ Remove(c) \/ DeleteRow(c) \/ Restore(c) \/ Write(c)
        \/ Dies(c) \/ Connect(c) \/ Reconcile(c) \/ Apply(c)
        \/ \E z \in Zones, b \in BOOLEAN : Configure(c, z, b)
        \/ \E b \in BOOLEAN : Verify(c, b)

Spec == Init /\ [][Next]_vars

-----------------------------------------------------------------------------
TypeOK ==
    /\ row \in [Hosts -> {"None", "Valid", "Invalid"}]
    /\ record \in [Zones -> [Hosts -> {"None", "Ours", "Legacy", "Foreign"}]]
    /\ platform.zone \in Zones /\ made \in 0..MaxCalls /\ failures \in 0..MaxFailures

Deleting(h) == \E c \in Callers : calls[c].h = h /\ calls[c].at \in {"DeleteRow", "Restore"}

\* While managed domains are available, one that is shown as valid has its record in the zone of the platform,
\* unless somebody else replaced it, whatever failed on the way (createDomain, deleteDomain, updatePlatformState).
ValidHasRecord ==
    Available => \A h \in Hosts : row[h] = "Valid" /\ ~Deleting(h) => record[platform.zone][h] \in {"Ours", "Foreign"}

\* Records of others are neither changed nor removed (ensureManagedCname, deleteManagedCname).
ForeignIsKept == \A z \in Zones, h \in Hosts : record[z][h] = "Foreign" => record'[z][h] = "Foreign"

\* What the platform or an older release has left in a zone does not keep anyone from using the name
\* (findLegacyManagedCname).
OursDoNotBlock == blocked \subseteq Foreign
=============================================================================
