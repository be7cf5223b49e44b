------------------------------- MODULE Bindings -------------------------------
(***************************************************************************)
(* What an app is given besides its image: secrets, configs, variables and  *)
(* the registry its image comes from.  They are rows of their own that are   *)
(* edited while apps use them; a deployment takes a snapshot of them and     *)
(* turns secrets and configs into Docker objects named by id and version,    *)
(* which are never written again.  Requests read before their transaction.   *)
(***************************************************************************)
EXTENDS Naturals, FiniteSets

CONSTANTS
    Items,          \* what one app of one group may use
    KindOf(_),      \* "Secret", "Config", "Variable" or "Registry"
    Contents,       \* values, configurations, credentials
    Good,           \* credentials that the registry accepts
    Callers,        \* requests in progress
    Cases,          \* windows that are open, see the README
    MaxVersion,     \* bound: versions of an item
    MaxWrites,      \* bound: committed requests
    None

BindingsAssumption ==
    /\ \A i \in Items : KindOf(i) \in {"Secret", "Config", "Variable", "Registry"}
    /\ Good \subseteq Contents /\ MaxVersion \in Nat /\ MaxWrites \in Nat
    /\ Cases \subseteq {"stale", "delete", "used", "reuse", "validate"}

VARIABLES
    row,        \* rows of the items: version, content, and whether the registry is Valid
    attached,   \* attachments of the app, and its registryId
    dirty, rev, \* hasPendingChanges and runtimeDraftRevision of the group
    current,    \* snapshot of the current deployment
    active,     \* the deployment in progress: its snapshot, its revision and phase, and the revision
                \* that its completing transaction has read
    missed,     \* ghost: the draft was edited while the last deployment was being completed
    object,     \* Docker secrets and configs: the content under each id and version
    running,    \* what the services of the group run with
    call,       \* what each request has read
    writes

vars == <<row, attached, dirty, rev, current, active, missed, object, running, call, writes>>

NoRow == [version |-> 0, content |-> None, valid |-> FALSE]
NoCall == [pc |-> "Idle", item |-> None, content |-> None, seen |-> NoRow, inUse |-> FALSE]
NoDeployment == [pc |-> "None", snapshot |-> None, rev |-> 0, read |-> 0]

Exists(i) == row[i].version > 0
OfKind(kinds) == {i \in Items : KindOf(i) \in kinds}
\* These become Docker objects.
Provisioned(snapshot) == DOMAIN snapshot \cap OfKind({"Secret", "Config"})

Init ==
    /\ row = [i \in Items |-> NoRow] /\ attached = {}
    /\ dirty = FALSE /\ rev = 0
    /\ current = None /\ active = NoDeployment /\ missed = FALSE
    /\ object = [i \in Items |-> [v \in 1..MaxVersion |-> None]]
    /\ running = None
    /\ call = [c \in Callers |-> NoCall]
    /\ writes = 0

\* The snapshot holds the version and the content; of a registry only its id.
SnapshotOf(i) == IF KindOf(i) = "Registry" THEN [version |-> 0, content |-> None]
                 ELSE [version |-> row[i].version, content |-> row[i].content]
Uses(snapshot, i) == IF snapshot = None THEN FALSE ELSE i \in DOMAIN snapshot

MarkDraftChanged == dirty' = TRUE /\ rev' = rev + 1
Count == writes < MaxWrites /\ writes' = writes + 1
Begin(c, record) ==
    /\ call[c] = NoCall
    /\ call' = [call EXCEPT ![c] = record]
End(c) == call' = [call EXCEPT ![c] = NoCall]

-----------------------------------------------------------------------------
(* Requests of users *)

Create(i, x) ==
    /\ ~Exists(i) /\ Count
    /\ ~Uses(current, i) /\ ~Uses(active.snapshot, i)      \* a new row has a new id
    /\ \A v \in 1..MaxVersion, c \in Callers : object[i][v] = None /\ call[c].item # i
    /\ row' = [row EXCEPT ![i] = [version |-> 1, content |-> x, valid |-> FALSE]]
    /\ UNCHANGED <<attached, dirty, rev, current, active, missed, object, running, call>>

\* attachSecret, attachConfig, attachVariable, and an update of the app's registryId
Attach(i) ==
    /\ Exists(i) /\ i \notin attached /\ Count
    /\ attached' = attached \cup {i}
    /\ MarkDraftChanged
    /\ UNCHANGED <<row, current, active, missed, object, running, call>>

Detach(i) ==
    /\ i \in attached /\ Count
    /\ attached' = attached \ {i}
    /\ MarkDraftChanged
    /\ UNCHANGED <<row, current, active, missed, object, running, call>>

\* An update first reads the row and its attachments.
ReadForUpdate(c, i, x) ==
    /\ Exists(i)
    /\ Begin(c, [pc |-> "Update", item |-> i, content |-> x, seen |-> row[i], inUse |-> i \in attached])
    /\ UNCHANGED <<row, attached, dirty, rev, current, active, missed, object, running, writes>>

\* A new value of a secret is always a new version; others are compared with what was read.
Changed(request) == KindOf(request.item) = "Secret" \/ request.content # request.seen.content

\* Mutant: a changed config keeps its version.
SameVersion(request) == IF KindOf(request.item) = "Secret" THEN 1 ELSE 0
VersionStep(request) == IF Changed(request) /\ KindOf(request.item) \in {"Secret", "Config"} THEN 1 ELSE 0

\* Mutant: an edit of what is in use does not mark the draft.
NeverMarks(request) == FALSE
\* By what the request read of the attachments before its transaction.
Marks(request) == Changed(request) /\ request.inUse

Update(c) == LET request == call[c] IN LET i == request.item IN
    /\ request.pc = "Update" /\ KindOf(i) # "Registry" /\ Count
    /\ "stale" \in Cases \/ (request.seen = row[i] /\ request.inUse = (i \in attached))
    /\ row[i].version + VersionStep(request) <= MaxVersion
    /\ IF Exists(i)
       THEN /\ row' = [row EXCEPT ![i].version = @ + VersionStep(request), ![i].content = request.content]
            /\ IF Marks(request) THEN MarkDraftChanged ELSE UNCHANGED <<dirty, rev>>
       ELSE UNCHANGED <<row, dirty, rev>>
    /\ End(c)
    /\ UNCHANGED <<attached, current, active, missed, object, running>>

\* Mutant: the registry stays valid.
StillValid(i) == row[i].valid
ValidAfterUpdate(i) == FALSE

\* updateRegistry writes the row, then marks the groups that use it.
UpdateRegistry(c) == LET request == call[c] IN LET i == request.item IN
    /\ request.pc = "Update" /\ KindOf(i) = "Registry" /\ Count
    /\ "validate" \in Cases \/ \A d \in Callers : call[d].pc # "Validate"
    /\ IF Exists(i)
       THEN /\ row' = [row EXCEPT ![i].content = request.content, ![i].valid = ValidAfterUpdate(i)]
            /\ call' = [call EXCEPT ![c].pc = "Mark"]
       ELSE UNCHANGED row /\ End(c)
    /\ UNCHANGED <<attached, dirty, rev, current, active, missed, object, running>>

\* markUsingAppGroupsPending leaves the revision of the draft as it is.
MarkUsing(c) ==
    /\ call[c].pc = "Mark"
    /\ dirty' = (dirty \/ call[c].item \in attached)
    /\ End(c)
    /\ UNCHANGED <<row, attached, rev, current, active, missed, object, running, writes>>

\* validateRegistry pings with the credentials it read.
Validate(c, i) ==
    /\ Exists(i) /\ KindOf(i) = "Registry"
    /\ Begin(c, [NoCall EXCEPT !.pc = "Validate", !.item = i, !.seen = row[i]])
    /\ row' = [row EXCEPT ![i].valid = FALSE]
    /\ UNCHANGED <<attached, dirty, rev, current, active, missed, object, running, writes>>

Validated(c) == LET i == call[c].item IN
    /\ call[c].pc = "Validate"
    /\ row' = [row EXCEPT ![i].valid = Exists(i) /\ call[c].seen.content \in Good]
    /\ End(c)
    /\ UNCHANGED <<attached, dirty, rev, current, active, missed, object, running, writes>>

\* Mutant: a secret that is only deployed may be deleted.
NotAttached(i) == i \notin attached
\* isSecretInCurrentDeployment: only secrets are looked up in what is deployed.
Free(i) == i \notin attached /\ (KindOf(i) = "Secret" => ~Uses(current, i))

\* Nothing looks whether a deployment on its way or, for a registry, the current one uses the item.
Overlooked(i) == Uses(active.snapshot, i) \/ (KindOf(i) = "Registry" /\ Uses(current, i))

\* Whether the item is in use is read before the row is deleted.
ReadForDelete(c, i) ==
    /\ Exists(i) /\ Free(i)
    /\ "used" \in Cases \/ ~Overlooked(i)
    /\ Begin(c, [NoCall EXCEPT !.pc = "Delete", !.item = i])
    /\ UNCHANGED <<row, attached, dirty, rev, current, active, missed, object, running, writes>>

\* The attachments refer to the row and keep it.
Delete(c) == LET i == call[c].item IN
    /\ call[c].pc = "Delete" /\ Count
    /\ "delete" \in Cases \/ Free(i)
    /\ "used" \in Cases \/ ~Overlooked(i)
    /\ IF Exists(i) /\ i \notin attached
       THEN row' = [row EXCEPT ![i] = NoRow]
       ELSE UNCHANGED row
    /\ End(c)
    /\ UNCHANGED <<attached, dirty, rev, current, active, missed, object, running>>

\* hasStage3SecretVersionDrift
SecretDrift == \E i \in DOMAIN current \cap OfKind({"Secret"}) : row[i].version # current[i].version

\* Rows that the snapshot names are made as they were, deleted ones again; not those of secrets.
Restorable == \A i \in DOMAIN current \cap OfKind({"Secret", "Registry"}) : Exists(i)
Newer(i) == \E v \in 1..MaxVersion : v > current[i].version /\ object[i][v] # None
Discard ==
    /\ dirty /\ current # None /\ active = NoDeployment /\ Restorable /\ Count
    /\ "reuse" \in Cases \/ \A i \in Provisioned(current) \cap OfKind({"Config"}) : ~Newer(i)
    /\ attached' = DOMAIN current
    /\ row' = [i \in Items |->
                IF i \in DOMAIN current \cap OfKind({"Config", "Variable"})
                THEN [version |-> current[i].version, content |-> current[i].content, valid |-> FALSE]
                ELSE row[i]]
    /\ dirty' = SecretDrift /\ missed' = FALSE
    /\ rev' = rev + 1
    /\ UNCHANGED <<current, active, object, running, call>>

-----------------------------------------------------------------------------
(* A deployment of the group *)

RequestDeployment ==
    /\ active = NoDeployment /\ (dirty \/ current = None) /\ Count
    /\ active' = [pc |-> "Validate", snapshot |-> [i \in attached |-> SnapshotOf(i)], rev |-> rev, read |-> 0]
    /\ UNCHANGED <<row, attached, dirty, rev, current, missed, object, running, call>>

\* validateRegistries
RegistryIsUsable == \A i \in DOMAIN active.snapshot \cap OfKind({"Registry"}) : Exists(i) /\ row[i].valid
Admit ==
    /\ active.pc = "Validate" /\ RegistryIsUsable
    /\ active' = [active EXCEPT !.pc = "Provision"]
    /\ UNCHANGED <<row, attached, dirty, rev, current, missed, object, running, call, writes>>

\* provisionSecrets reads the row of a secret; a config is in the snapshot.
Expected(i) == KindOf(i) = "Secret" => (Exists(i) /\ row[i].version = active.snapshot[i].version)
ContentOf(i) == IF KindOf(i) = "Secret" THEN row[i].content ELSE active.snapshot[i].content

\* An object that exists is taken as it is.
Made(S) == [i \in Items |-> [v \in 1..MaxVersion |->
    IF i \in S /\ v = active.snapshot[i].version /\ object[i][v] = None THEN ContentOf(i) ELSE object[i][v]]]

Provision ==
    /\ active.pc = "Provision"
    /\ \A i \in Provisioned(active.snapshot) : Expected(i)
    /\ object' = Made(Provisioned(active.snapshot))
    /\ active' = [active EXCEPT !.pc = "Apply"]
    /\ UNCHANGED <<row, attached, dirty, rev, current, missed, running, call, writes>>

Fail == active' = NoDeployment

\* A docker command fails after some objects were made, or the snapshot cannot be provisioned.
ProvisionFails ==
    /\ active.pc \in {"Validate", "Provision"} /\ Fail
    /\ \E S \in SUBSET Provisioned(active.snapshot) :
        /\ S # {} => active.pc = "Provision"
        /\ \A i \in S : Expected(i)
        /\ object' = Made(S)
    /\ UNCHANGED <<row, attached, dirty, rev, current, missed, running, call, writes>>

\* resolveRegistryLogins: the credentials of the moment, for an apply and for its rollback
LoginPossible(snapshot) == \A i \in DOMAIN snapshot \cap OfKind({"Registry"}) : Exists(i)

\* The services see the objects, variables are part of the stack, images are pulled with the credentials.
Effective(snapshot) == [i \in DOMAIN snapshot |->
    CASE KindOf(i) \in {"Secret", "Config"} -> object[i][snapshot[i].version]
      [] KindOf(i) = "Registry" -> row[i].content
      [] OTHER -> snapshot[i].content]

Apply ==
    /\ active.pc = "Apply" /\ LoginPossible(active.snapshot)
    /\ running' = Effective(active.snapshot)
    /\ active' = [active EXCEPT !.pc = "Rollout"]
    /\ UNCHANGED <<row, attached, dirty, rev, current, missed, object, call, writes>>

\* The completing transaction reads the revision ...
ReadDraft ==
    /\ active.pc = "Rollout"
    /\ active' = [active EXCEPT !.pc = "Complete", !.read = rev]
    /\ UNCHANGED <<row, attached, dirty, rev, current, missed, object, running, call, writes>>

EditedSince == active.read # active.rev

\* ... and writes what follows from it.
Succeed ==
    /\ active.pc = "Complete"
    /\ current' = active.snapshot /\ Fail
    /\ dirty' = EditedSince /\ missed' = (rev # active.read)
    /\ UNCHANGED <<row, attached, rev, object, running, call, writes>>

\* The apply or the rollout fails: the artifact of the last deployment is applied again.
RollBack ==
    /\ active.pc \in {"Apply", "Rollout"} /\ Fail
    /\ running' = IF current # None /\ LoginPossible(current) THEN Effective(current) ELSE running
    /\ UNCHANGED <<row, attached, dirty, rev, current, missed, object, call, writes>>

Bind(i) == Attach(i) \/ Detach(i)
User ==
    \/ \E i \in Items : Bind(i)
    \/ \E i \in Items, x \in Contents : Create(i, x)
    \/ Discard \/ RequestDeployment
Request(c) ==
    \/ Update(c) \/ UpdateRegistry(c) \/ MarkUsing(c) \/ Validated(c) \/ Delete(c)
    \/ \E i \in Items : Validate(c, i) \/ ReadForDelete(c, i)
    \/ \E i \in Items, x \in Contents : ReadForUpdate(c, i, x)
Deployment == Admit \/ Provision \/ ProvisionFails \/ Apply \/ ReadDraft \/ Succeed \/ RollBack
Next == User \/ Deployment \/ \E c \in Callers : Request(c)

Spec == Init /\ [][Next]_vars

-----------------------------------------------------------------------------
Records == [version : 0..MaxVersion, content : Contents \cup {None}, valid : BOOLEAN]

\* Rows, requests and objects stay within the versions and contents there are.
TypeOK ==
    /\ row \in [Items -> Records] /\ attached \subseteq Items
    /\ {dirty, missed} \subseteq BOOLEAN /\ rev \in 0..MaxWrites
    /\ active.pc \in {"None", "Validate", "Provision", "Apply", "Rollout", "Complete"}
    /\ \A c \in Callers : call[c].pc \in {"Idle", "Update", "Mark", "Validate", "Delete"}
    /\ object \in [Items -> [1..MaxVersion -> Contents \cup {None}]]

\* What is deployed is the draft: a secret by its version, the rest by its content.
Deployed(i) ==
    CASE KindOf(i) = "Secret" -> current[i].version = row[i].version
      [] KindOf(i) = "Registry" -> TRUE
      [] OTHER -> current[i].content = row[i].content

\* A group without pending changes runs what its draft says: an edit of an item that is in use marks
\* the group, whichever deployment was on its way, unless it fell between the read and the write of the
\* completing transaction, which loses it (markAppGroupDraftChanged, updateSecret, updateConfig).
CleanIsDeployed ==
    ~dirty /\ ~missed /\ current # None /\ (\A c \in Callers : call[c].pc # "Mark") =>
        /\ attached = DOMAIN current
        /\ \A i \in attached : Deployed(i)

\* The app is given the contents that its deployment names, though objects are never written again
\* and versions are counted per row (provisionConfigs, provisionSecrets, configName, secretName).
ObjectsAreTrue ==
    current # None /\ running # None /\ active.pc \notin {"Rollout", "Complete"} =>
        \A i \in DOMAIN current \cap DOMAIN running :
            KindOf(i) # "Registry" => running[i] = current[i].content

\* Whatever the current deployment needs that is not in its snapshot is still there, so that it can be
\* applied again and its draft restored (isSecretInCurrentDeployment, resolveRegistryLogins).
CurrentIsRestorable == current # None => Restorable

\* A registry that is shown as valid accepts the credentials that are stored for it (validateRegistry).
ValidIsGood == \A i \in Items : row[i].valid => row[i].content \in Good
=============================================================================
