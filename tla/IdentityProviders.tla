-------------------------- MODULE IdentityProviders --------------------------
(***************************************************************************)
(* External identity providers of the platform and of tenants. Each is a template     *)
(* at the provider of logins, linked to its login policy when it is enabled, and a     *)
(* row; the template is written first, then the row. A provider whose protocol          *)
(* changes gets a template of its own, and the one before is removed afterwards.         *)
(***************************************************************************)
EXTENDS Naturals, FiniteSets

CONSTANTS
    Providers,   \* names of providers
    Callers,     \* requests in flight
    Cases,       \* windows that are open, see the README
    MaxCalls,    \* bound: requests
    MaxFailures  \* bound: calls of the provider of logins or the database that fail

IdentityProvidersAssumption ==
    /\ MaxCalls \in Nat /\ MaxFailures \in Nat
    /\ Cases \subseteq {"parallel", "partial"}

VARIABLES
    row,       \* IdentityProvider: template, protocol, configuration, and whether it is enabled
    template,  \* templates at the provider of logins
    allowed,   \* the login policy allows external providers
    call,      \* what the requests are doing
    stray,     \* ghost: templates whose removal has failed
    made, failures

vars == <<row, template, allowed, call, stray, made, failures>>

Ids == 1..MaxCalls
NoRow == [id |-> 0, protocol |-> "None", conf |-> 0, on |-> FALSE]
NoTemplate == [protocol |-> "None", conf |-> 0, linked |-> FALSE]
Idle == [at |-> "Idle", p |-> "None", new |-> NoRow, old |-> NoRow, ids |-> {}]

Init ==
    /\ row = [p \in Providers |-> NoRow] /\ template = [i \in Ids |-> NoTemplate]
    /\ allowed = FALSE /\ call = [c \in Callers |-> Idle]
    /\ stray = {} /\ made = 0 /\ failures = 0

Fault == failures < MaxFailures /\ failures' = failures + 1
Goes(c, at) == call' = [call EXCEPT ![c].at = at]
Leave(c) == call' = [call EXCEPT ![c] = Idle]

Begin(c, p, at, new) ==
    /\ call[c] = Idle /\ made < MaxCalls /\ made' = made + 1
    /\ "parallel" \in Cases \/ \A d \in Callers : call[d].p # p
    /\ call' = [call EXCEPT ![c] = [at |-> at, p |-> p, new |-> new, old |-> row[p], ids |-> {}]]
    /\ UNCHANGED <<row, template, allowed, stray, failures>>

\* A template is made anew when the protocol changes (updateTenantIdentityProvider).
NeedsProvisioning(c) == call[c].new.protocol # call[c].old.protocol
IdOf(c) == IF NeedsProvisioning(c) THEN call[c].new.id ELSE call[c].old.id

StartCreate(c, p, protocol, on) ==
    row[p] = NoRow /\ Begin(c, p, "Provision", [id |-> made + 1, protocol |-> protocol, conf |-> made + 1, on |-> on])

StartUpdate(c, p, protocol, on) ==
    /\ row[p] # NoRow
    /\ Begin(c, p, IF protocol = row[p].protocol THEN "Put" ELSE "Provision",
             [id |-> IF protocol = row[p].protocol THEN row[p].id ELSE made + 1,
              protocol |-> protocol, conf |-> made + 1, on |-> on])

StartDelete(c, p) == row[p] # NoRow /\ Begin(c, p, "Remove", NoRow)

\* provision
Provision(c) ==
    LET new == call[c].new IN
    /\ call[c].at = "Provision"
    /\ \/ /\ template' = [template EXCEPT ![new.id] = [protocol |-> new.protocol, conf |-> new.conf, linked |-> FALSE]]
          /\ call' = [call EXCEPT ![c].at = IF new.on THEN "Allow" ELSE "Commit", ![c].ids = {new.id}]
          /\ UNCHANGED failures
       \/ Fault /\ Leave(c) /\ UNCHANGED template
    /\ UNCHANGED <<row, allowed, stray, made>>

\* ensureExternalIdpAllowed: a policy that was inherited is made the organization's own.
Allow(c) ==
    /\ call[c].at \in {"Allow", "AllowEnabled"}
    /\ \/ allowed' = TRUE /\ Goes(c, "Link") /\ UNCHANGED failures
       \/ call[c].at = "Allow" /\ Fault /\ Goes(c, "Undo") /\ UNCHANGED allowed
       \/ call[c].at = "AllowEnabled" /\ "partial" \in Cases /\ Fault /\ Leave(c) /\ UNCHANGED allowed
    /\ UNCHANGED <<row, template, stray, made>>

\* setLoginPolicyLink
Link(c) ==
    /\ call[c].at = "Link"
    /\ \/ template' = [template EXCEPT ![IdOf(c)].linked = TRUE] /\ Goes(c, "Commit") /\ UNCHANGED failures
       \/ NeedsProvisioning(c) /\ Fault /\ Goes(c, "Undo") /\ UNCHANGED template
    /\ UNCHANGED <<row, allowed, stray, made>>

\* update: the template is overwritten, and linked or unlinked when that has changed.
Put(c) ==
    LET new == call[c].new  i == call[c].old.id IN
    /\ call[c].at = "Put"
    /\ \/ /\ template[i] # NoTemplate
          /\ template' = [template EXCEPT ![i].conf = new.conf, ![i].linked = new.on /\ @]
          /\ Goes(c, IF new.on /\ ~call[c].old.on THEN "AllowEnabled" ELSE "Commit") /\ UNCHANGED failures
       \/ Fault /\ Leave(c) /\ UNCHANGED template
       \/ template[i] = NoTemplate /\ Leave(c) /\ UNCHANGED <<template, failures>>
    /\ UNCHANGED <<row, allowed, stray, made>>

\* Mutant: nothing is removed.
NothingUndone(c) == {}
\* Mutant: the template of the row is removed, as after a success.
Replaced(c) == {call[c].old.id} \ {0}
\* What is removed when the transaction has failed: what this request has made.
Compensates(c) == call[c].ids

\* The transaction of a creation or an update
Commit(c) ==
    LET p == call[c].p IN
    /\ call[c].at = "Commit"
    /\ \/ /\ (row[p] = NoRow) = (call[c].old = NoRow)
          /\ row' = [row EXCEPT ![p] = call[c].new]
          /\ call' = [call EXCEPT ![c].at = "Clean",
                                  ![c].ids = IF NeedsProvisioning(c) THEN {call[c].old.id} \ {0} ELSE {}]
          /\ UNCHANGED failures
       \/ /\ \/ (row[p] = NoRow) # (call[c].old = NoRow) /\ UNCHANGED failures
             \/ ("partial" \in Cases \/ NeedsProvisioning(c)) /\ Fault
          /\ call' = [call EXCEPT ![c].at = "Undo", ![c].ids = Compensates(c)] /\ UNCHANGED row
    /\ UNCHANGED <<template, allowed, stray, made>>

\* deleteRemoteIgnoringFailure, of what was made in vain or was replaced
Discard(c) ==
    /\ call[c].at \in {"Undo", "Clean"} /\ Leave(c)
    /\ \/ template' = [i \in Ids |-> IF i \in call[c].ids THEN NoTemplate ELSE template[i]] /\ UNCHANGED <<stray, failures>>
       \/ call[c].ids # {} /\ Fault /\ stray' = stray \cup call[c].ids /\ UNCHANGED template
    /\ UNCHANGED <<row, allowed, made>>

\* delete unlinks the template and removes it; the row goes last.
Remove(c) ==
    /\ call[c].at = "Remove"
    /\ \/ template' = [template EXCEPT ![call[c].old.id] = NoTemplate] /\ Goes(c, "DeleteRow") /\ UNCHANGED failures
       \/ /\ Fault /\ Leave(c)
          /\ \/ UNCHANGED template
             \/ "partial" \in Cases /\ template' = [template EXCEPT ![call[c].old.id].linked = FALSE]
    /\ UNCHANGED <<row, allowed, stray, made>>

DeleteRow(c) ==
    /\ call[c].at = "DeleteRow" /\ Leave(c)
    /\ \/ row' = [row EXCEPT ![call[c].p] = NoRow] /\ UNCHANGED failures
       \/ "partial" \in Cases /\ Fault /\ UNCHANGED row
    /\ UNCHANGED <<template, allowed, stray, made>>

Next ==
    \E c \in Callers :
        \/ \E p \in Providers, protocol \in {"OIDC", "SAML"}, on \in BOOLEAN :
            StartCreate(c, p, protocol, on) \/ StartUpdate(c, p, protocol, on)
        \/ \E p \in Providers : StartDelete(c, p)
        \/ Provision(c) \/ Allow(c) \/ Link(c) \/ Put(c) \/ Commit(c) \/ Discard(c) \/ Remove(c) \/ DeleteRow(c)

Spec == Init /\ [][Next]_vars

-----------------------------------------------------------------------------
TypeOK ==
    /\ \A p \in Providers : row[p].id \in 0..MaxCalls /\ row[p].protocol \in {"None", "OIDC", "SAML"}
    /\ allowed \in BOOLEAN /\ stray \subseteq Ids /\ made \in 0..MaxCalls

Busy(p) == \E c \in Callers : call[c].p = p

\* What is shown of a provider is what logins use: its template has the protocol and the configuration of the
\* row, and is linked to a policy that allows it if the row is enabled, whatever failed on the way
\* (IdentityProvidersService, PlatformIdentityProvidersService).
ShownIsUsed ==
    \A p \in Providers : row[p] # NoRow /\ ~Busy(p) =>
        /\ template[row[p].id] = [protocol |-> row[p].protocol, conf |-> row[p].conf, linked |-> row[p].on]
        /\ row[p].on => allowed

\* No template is left that neither a row nor a request knows, unless its removal has failed.
NoTemplateIsLost ==
    \A i \in Ids : template[i] # NoTemplate =>
        \/ i \in stray \/ \E p \in Providers : row[p].id = i
        \/ \E c \in Callers : i \in call[c].ids \cup {call[c].new.id, call[c].old.id}
=============================================================================
