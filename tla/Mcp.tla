--------------------------------- MODULE Mcp ---------------------------------
(***************************************************************************)
(* The gateways that give agents the API as tools: one of a tenant, one of the        *)
(* platform. A tool is a request that the gateway sends to its own API with the        *)
(* caller's token; who may call is decided by reads that other requests come           *)
(* between, at the gateway and again at the API. Clients register themselves at the     *)
(* provider of logins through the gateway.                                               *)
(***************************************************************************)
EXTENDS Naturals, Sequences, FiniteSets

CONSTANTS
    Users,
    Via(_),       \* where the token of a user comes from: "native", "tenant" or "platform"
    Calls,        \* tool calls
    Admins,       \* settings updates in progress
    Clients,      \* registrations of clients
    Cases,        \* windows that are open, see the README
    MaxChanges,   \* bound: changes of members, roles, policy, settings
    MaxFaults     \* bound: timeouts, lost answers and failed writes

McpAssumption ==
    /\ \A u \in Users : Via(u) \in {"native", "tenant", "platform"}
    /\ Cases \subseteq {"parallel", "lost"} /\ MaxChanges \in Nat /\ MaxFaults \in Nat

VARIABLES
    settings,   \* TenantMcpSettings with its allowed members
    member,     \* status of each membership
    can,        \* permissions through roles and groups
    policy,     \* TenantAuthPolicy
    trusted,    \* enabled providers of logins
    operators,  \* platform administrators
    edit,       \* what an update of the settings has read
    call,       \* where a call is at the gateway, and at the API
    since,      \* ghost: what has spoken against a call from its arrival on
    audit,      \* entries about a call
    effect,     \* how often the API did what a call asked
    client,     \* registrations
    changes, faults

access == <<member, can, policy, trusted, operators>>
vars == <<settings, access, edit, call, since, audit, effect, client, changes, faults>>

TenantTools == {"profile", "read", "write", "self", "bugs"}
Tools == TenantTools \cup {"admin"}
Permissions == {"read", "write"}
Policies == {"open", "tenantOnly", "noTenant", "closed"}
Idle == [at |-> "Idle", api |-> "None", user |-> "None", tool |-> "None", ok |-> FALSE, cut |-> FALSE, unwritten |-> FALSE]
NoEdit == [at |-> "Idle"]
NoClient == [at |-> "Idle", made |-> FALSE, jwt |-> FALSE]

Init ==
    /\ settings \in {[enabled |-> FALSE, all |-> FALSE, allowed |-> {}], [enabled |-> TRUE, all |-> FALSE, allowed |-> Users]}
    /\ member = [u \in Users |-> "Active"] /\ can = [u \in Users |-> Permissions]
    /\ policy = "open" /\ trusted = {"tenant", "platform"} /\ operators \in SUBSET Users
    /\ edit = [a \in Admins |-> NoEdit] /\ call = [c \in Calls |-> Idle]
    /\ since = [c \in Calls |-> {}] /\ audit = [c \in Calls |-> <<>>] /\ effect = [c \in Calls |-> 0]
    /\ client = [k \in Clients |-> NoClient] /\ changes = 0 /\ faults = 0

\* assertTenantProviderPolicy
ProviderAllowed(u) ==
    \/ policy = "open"
    \/ policy = "tenantOnly" /\ Via(u) = "tenant" /\ Via(u) \in trusted
    \/ policy = "noTenant" /\ (Via(u) = "native" \/ (Via(u) = "platform" /\ Via(u) \in trusted))

Listed(u) == settings.all \/ u \in settings.allowed

\* Everything that speaks against a call at this moment
Bars(u, t) ==
    {b \in {"disabled", "unlisted", "inactive", "provider"} :
        /\ t \in TenantTools
        /\ CASE b = "disabled" -> ~settings.enabled [] b = "unlisted" -> ~Listed(u)
             [] b = "inactive" -> member[u] # "Active" [] b = "provider" -> ~ProviderAllowed(u)}
    \cup (IF t \in Permissions /\ t \notin can[u] THEN {"forbidden"} ELSE {})
    \cup (IF t \in {"bugs", "admin"} /\ u \notin operators THEN {"noAdmin"} ELSE {})

\* What speaks against the calls in progress after a change
Watch ==
    /\ UNCHANGED call
    /\ since' = [c \in Calls |-> IF call[c] = Idle THEN {} ELSE since[c] \cap Bars(call[c].user, call[c].tool)']
Change == changes < MaxChanges /\ changes' = changes + 1
Fault == faults < MaxFaults /\ faults' = faults + 1
-----------------------------------------------------------------------------
\* updateSettings reads, then validates the members it was given.
ReadSettings(a, enabled, all, list) ==
    /\ edit[a] = NoEdit /\ Change
    /\ "parallel" \in Cases \/ \A b \in Admins : edit[b] = NoEdit
    /\ \A u \in list.of : list.given /\ member[u] # "None"
    /\ edit' = [edit EXCEPT ![a] = [at |-> "Write", read |-> settings, enabled |-> enabled, all |-> all, list |-> list, gone |-> {}]]
    /\ UNCHANGED <<settings, access, call, since, audit, effect, client, faults>>

\* Mutant: the list is kept for the day when members are selected again.
KeepsList(e, all) == IF e.list.given THEN e.list.of ELSE e.read.allowed
\* allowedMembershipIds
NewList(e, all) == IF all THEN {} ELSE IF e.list.given THEN e.list.of ELSE e.read.allowed

\* The transaction fails when one of the memberships has gone.
WriteSettings(a) ==
    LET e == edit[a]
        Named(value, old) == IF value = "same" THEN old ELSE value = "on"
        all == Named(e.all, e.read.all)
    IN
    /\ e # NoEdit /\ edit' = [edit EXCEPT ![a] = NoEdit]
    /\ IF NewList(e, all) \cap e.gone = {}
       THEN settings' = [enabled |-> Named(e.enabled, e.read.enabled), all |-> all, allowed |-> NewList(e, all)]
       ELSE UNCHANGED settings
    /\ UNCHANGED access /\ Watch
    /\ UNCHANGED <<audit, effect, client, changes, faults>>

\* A membership that goes takes its row of the list with it, one that is made again is new.
ChangeMember(u, status) ==
    /\ Change /\ member[u] # status /\ member' = [member EXCEPT ![u] = status]
    /\ settings' = IF status = "None" THEN [settings EXCEPT !.allowed = @ \ {u}] ELSE settings
    /\ edit' = [a \in Admins |-> IF status = "None" /\ edit[a] # NoEdit THEN [edit[a] EXCEPT !.gone = @ \cup {u}] ELSE edit[a]]
    /\ UNCHANGED <<can, policy, trusted, operators>> /\ Watch
    /\ UNCHANGED <<audit, effect, client, faults>>

ChangeRoles(u, to) ==
    /\ Change /\ can' = [can EXCEPT ![u] = to]
    /\ UNCHANGED <<settings, member, policy, trusted, operators>> /\ Watch
    /\ UNCHANGED <<edit, audit, effect, client, faults>>

ChangePolicy(to) ==
    /\ Change /\ policy' = to
    /\ UNCHANGED <<settings, member, can, trusted, operators>> /\ Watch
    /\ UNCHANGED <<edit, audit, effect, client, faults>>

ChangeProviders(to) ==
    /\ Change /\ trusted' = to
    /\ UNCHANGED <<settings, member, can, policy, operators>> /\ Watch
    /\ UNCHANGED <<edit, audit, effect, client, faults>>

ChangeOperators(to) ==
    /\ Change /\ operators' = to
    /\ UNCHANGED <<settings, member, can, policy, trusted>> /\ Watch
    /\ UNCHANGED <<edit, audit, effect, client, faults>>
-----------------------------------------------------------------------------
UnchangedByCalls == UNCHANGED <<settings, access, edit, client, changes>>

Goes(c, at) == call' = [call EXCEPT ![c].at = at]

\* A request of a signed-in user arrives: PlatformMaintenanceGuard, DevAuthGuard.
Arrive(c, u, t) ==
    /\ call[c] = Idle
    /\ call' = [call EXCEPT ![c] = [Idle EXCEPT !.at = IF t = "admin" THEN "Admin" ELSE "Enabled", !.user = u, !.tool = t]]
    /\ since' = [since EXCEPT ![c] = Bars(u, t)]
    /\ UnchangedByCalls /\ UNCHANGED <<audit, effect, faults>>

\* One read of a guard: the call goes on, or is refused without an entry.
Guard(c, at, holds, next) ==
    /\ call[c].at = at /\ Goes(c, IF holds THEN next ELSE "Done")
    /\ UnchangedByCalls /\ UNCHANGED <<since, audit, effect, faults>>

AssertEnabled(c) == Guard(c, "Enabled", settings.enabled, "Listed")

\* Mutant: whoever is a member may use the gateway.
AnyMember(u) == settings.enabled
\* assertUserCanUseMcp, its read of the settings
MayUse(u) == settings.enabled /\ Listed(u)

AssertListed(c) == Guard(c, "Listed", MayUse(call[c].user), "Member")
AssertMember(c) == Guard(c, "Member", member[call[c].user] = "Active", "Provider")
AssertProvider(c) == Guard(c, "Provider", ProviderAllowed(call[c].user), "Call")
AssertAdmin(c) == Guard(c, "Admin", call[c].user \in operators, "Call")

\* recordToolCall, which never fails the call
Record(c, ok) ==
    /\ \/ audit' = [audit EXCEPT ![c] = Append(@, ok)] /\ call' = [call EXCEPT ![c].at = "Done"] /\ UNCHANGED faults
       \/ Fault /\ call' = [call EXCEPT ![c].at = "Done", ![c].unwritten = TRUE] /\ UNCHANGED audit

\* callTool of both gateways: what is forwarded, and what the gateway answers itself.
CallTool(c) ==
    LET t == call[c].tool IN
    /\ call[c].at = "Call"
    /\ CASE t = "profile" -> Record(c, TRUE)
         [] t \in {"bugs", "admin"} /\ call[c].user \notin operators -> Record(c, FALSE)
         [] OTHER -> Goes(c, "Send") /\ UNCHANGED <<audit, faults>>
    /\ UnchangedByCalls /\ UNCHANGED <<since, effect>>

\* Arguments that name no request are refused without an entry.
Malformed(c) == call[c].at = "Call" /\ Guard(c, "Call", FALSE, "Call")

\* callTenantApi, callPlatformApi, callApi: the gateway does not call itself.
Send(c) ==
    /\ call[c].at = "Send"
    /\ IF call[c].tool = "self" THEN Record(c, FALSE)
       ELSE call' = [call EXCEPT ![c].at = "Wait", ![c].api = "Sent"] /\ UNCHANGED <<audit, faults>>
    /\ UnchangedByCalls /\ UNCHANGED <<since, effect>>

\* TenantContextGuard and PermissionsGuard, or PlatformAdminGuard, of the request that was sent
Admitted(u, t) ==
    CASE t \in {"bugs", "admin"} -> u \in operators
      [] OTHER -> member[u] = "Active" /\ ProviderAllowed(u) /\ t \in can[u]

Enter(c) ==
    /\ call[c].api = "Sent"
    /\ call' = [call EXCEPT ![c].api = IF Admitted(call[c].user, call[c].tool) THEN "Working" ELSE "Answered"]
    /\ UnchangedByCalls /\ UNCHANGED <<since, audit, effect, faults>>

\* The handler does it, or refuses.
Serve(c) ==
    /\ call[c].api = "Working"
    /\ \/ effect' = [effect EXCEPT ![c] = @ + 1] /\ call' = [call EXCEPT ![c].api = "Answered", ![c].ok = TRUE]
       \/ call' = [call EXCEPT ![c].api = "Answered"] /\ UNCHANGED effect
    /\ UnchangedByCalls /\ UNCHANGED <<since, audit, faults>>

\* executeTenantApiCall, executePlatformApiCall, executeJsonCall, executeImageCall
Answered(c) ==
    /\ call[c].at = "Wait" /\ call[c].api = "Answered" /\ Record(c, call[c].ok)
    /\ UnchangedByCalls /\ UNCHANGED <<since, effect>>

\* Mutant: a call that was cut off leaves no entry.
Forgets(c) == UNCHANGED audit
\* The entry of a call that was cut off
RecordCut(c) == audit' = [audit EXCEPT ![c] = Append(@, FALSE)]

\* The answer does not arrive in time, the API goes on.
CutOff(c) ==
    /\ call[c].at = "Wait" /\ Fault /\ RecordCut(c)
    /\ call' = [call EXCEPT ![c].at = "Done", ![c].cut = TRUE]
    /\ UnchangedByCalls /\ UNCHANGED <<since, effect>>
-----------------------------------------------------------------------------
Registers(k, to) ==
    /\ client' = [client EXCEPT ![k] = to]
    /\ UNCHANGED <<settings, access, edit, call, since, audit, effect, changes>>

\* register
Register(k) ==
    /\ client[k].at = "Idle"
    /\ \/ Registers(k, [at |-> "Made", made |-> TRUE, jwt |-> FALSE]) /\ UNCHANGED faults
       \/ Registers(k, [NoClient EXCEPT !.at = "Failed"]) /\ UNCHANGED faults
       \/ "lost" \in Cases /\ Fault /\ Registers(k, [at |-> "Failed", made |-> TRUE, jwt |-> FALSE])

\* forceJwtAccessToken: the project and the application are found in the time that is left, then changed.
ForceJwt(k) ==
    /\ client[k].at = "Made"
    /\ \/ Registers(k, [client[k] EXCEPT !.at = "Given", !.jwt = TRUE]) /\ UNCHANGED faults
       \/ \E changed \in BOOLEAN : Fault /\ Registers(k, [client[k] EXCEPT !.at = "Undo", !.jwt = changed])

\* Mutant: the registration is reported as failed and stays.
Leaves(k) == [client[k] EXCEPT !.at = "Failed"]
\* rollbackRegistration
Undone(k) == [NoClient EXCEPT !.at = "Failed"]

\* Whether the provider refuses is not looked at.
Rollback(k) ==
    /\ client[k].at = "Undo"
    /\ \/ Registers(k, Undone(k)) /\ UNCHANGED faults
       \/ "lost" \in Cases /\ Fault /\ Registers(k, [client[k] EXCEPT !.at = "Failed"])
-----------------------------------------------------------------------------
Lists == {[given |-> FALSE, of |-> {}]} \cup {[given |-> TRUE, of |-> us] : us \in SUBSET Users}

Next ==
    \/ \E a \in Admins : \/ WriteSettings(a)
                         \/ \E e, m \in {"same", "on", "off"}, l \in Lists : ReadSettings(a, e, m, l)
    \/ \E u \in Users, s \in {"None", "Active", "Suspended"} : ChangeMember(u, s)
    \/ \E u \in Users, p \in SUBSET Permissions : ChangeRoles(u, p)
    \/ \E p \in Policies : ChangePolicy(p)
    \/ \E ps \in SUBSET {Via(u) : u \in Users} : ChangeProviders(ps)
    \/ \E us \in SUBSET Users : ChangeOperators(us)
    \/ \E c \in Calls :
        \/ \E u \in Users, t \in Tools : Arrive(c, u, t)
        \/ AssertEnabled(c) \/ AssertListed(c) \/ AssertMember(c) \/ AssertProvider(c) \/ AssertAdmin(c)
        \/ CallTool(c) \/ Malformed(c) \/ Send(c) \/ Enter(c) \/ Serve(c) \/ Answered(c) \/ CutOff(c)
    \/ \E k \in Clients : Register(k) \/ ForceJwt(k) \/ Rollback(k)

Spec == Init /\ [][Next]_vars
-----------------------------------------------------------------------------
\* Settings list members of the tenant, calls have their records.
TypeOK ==
    /\ settings \in [enabled : BOOLEAN, all : BOOLEAN, allowed : SUBSET {u \in Users : member[u] # "None"}]
    /\ policy \in Policies /\ operators \subseteq Users
    /\ \A c \in Calls : effect[c] \in 0..1 /\ audit[c] \in {<<>>, <<TRUE>>, <<FALSE>>}
    /\ \A k \in Clients : client[k].at \in {"Idle", "Made", "Undo", "Given", "Failed"}

\* Nothing comes of a call against which something has spoken since it arrived: that the
\* gateway is disabled, that its user is not listed, is no active member, has no permission
\* or is no administrator any more, or comes from a provider the tenant does not take.
LateCallsDoNothing == \A c \in Calls : effect[c] > 0 => since[c] = {}

\* The entry about a call tells what came of it, unless the answer was cut off; what was
\* done has an entry, unless it could not be written.
RecordsTellTheTruth ==
    \A c \in Calls :
        /\ audit[c] = <<TRUE>> => effect[c] = 1 \/ call[c].tool = "profile"
        /\ (audit[c] = <<FALSE>> /\ effect[c] = 1) => call[c].cut
        /\ (call[c].at = "Done" /\ effect[c] = 1) => audit[c] # <<>> \/ call[c].unwritten

\* A request for settings leaves what it does not name as it was, and whoever is on the
\* list then was named by it or was on the list: opening the gateway to all members and
\* closing it again lists nobody.
SettingsAreAsAsked ==
    \A a \in Admins : (edit[a] # NoEdit /\ edit'[a] = NoEdit /\ settings' # settings) =>
        /\ edit[a].enabled = "same" => settings'.enabled = settings.enabled
        /\ edit[a].all = "same" => settings'.all = settings.all
        /\ settings'.allowed \subseteq edit[a].list.of \cup (IF settings.all \/ settings'.all THEN {} ELSE settings.allowed)

\* A client that was handed out gets tokens the API accepts, of a registration that
\* failed nothing is left at the provider.
RegistrationsAreWhole ==
    \A k \in Clients : /\ client[k].at = "Given" => client[k].made /\ client[k].jwt
                       /\ client[k].at = "Failed" => ~client[k].made
=============================================================================
