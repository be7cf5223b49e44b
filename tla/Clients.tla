------------------------------- MODULE Clients -------------------------------
(***************************************************************************)
(* The clients of the platform's API that a tenant or an administrator makes: OAuth      *)
(* applications and service identities. Each is an application or a user at the           *)
(* provider of logins and a row. The provider is changed first, then the row in a           *)
(* transaction; an identity has roles, which nobody may give, change or take over who        *)
(* has not their permissions himself.                                                          *)
(***************************************************************************)
EXTENDS Naturals, FiniteSets

CONSTANTS
    Ids,         \* ids of clients
    KindOf(_),   \* "application" or "identity"
    Actors,      \* members that manage clients, one request at a time each
    Cases,       \* windows that are open, see the README
    MaxCalls,    \* bound: requests
    MaxEvents    \* bound: failures, and changes of a member's permissions

ClientsAssumption ==
    /\ \A c \in Ids : KindOf(c) \in {"application", "identity"}
    /\ MaxCalls \in Nat /\ MaxEvents \in Nat
    /\ Cases \subseteq {"parallel", "partial"}

VARIABLES
    row,     \* OAuthApplication, ServiceIdentity: level of its roles, status, stored secret
    remote,  \* what the provider of logins has of it
    level,   \* permissions of the members, 0 for one who is none; an identity's roles ask for as many
    call,    \* what the requests are doing
    stray,   \* ghost: clients whose removal from the provider failed
    told,    \* clients whose secret was shown with the warning that it is not stored
    made, events

vars == <<row, remote, level, call, stray, told, made, events>>

Levels == 1..2
NoRow == [level |-> 0, on |-> FALSE, secret |-> 0]
NoRemote == [made |-> FALSE, on |-> FALSE, secret |-> 0]
Idle == [at |-> "Idle", c |-> "None", level |-> 0, on |-> FALSE, read |-> NoRow, n |-> 0]

Init ==
    /\ row = [c \in Ids |-> NoRow] /\ remote = [c \in Ids |-> NoRemote]
    /\ level \in [Actors -> Levels] /\ call = [a \in Actors |-> Idle]
    /\ stray = {} /\ told = {} /\ made = 0 /\ events = 0

Fault == events < MaxEvents /\ events' = events + 1
Goes(a, at) == call' = [call EXCEPT ![a].at = at]
Leave(a) == call' = [call EXCEPT ![a] = Idle]

\* validateRoles: the applications of a tenant have no roles.
May(a, c, l) == KindOf(c) = "identity" => level[a] >= l /\ level[a] > 0

\* Mutant: the transaction relies on the check before the provider was called.
Trusts(a, l) == TRUE
\* validateRoles in the transaction
MayStill(a, l) == May(a, call[a].c, l)

Begin(a, c, at, l, on) ==
    /\ call[a] = Idle /\ made < MaxCalls /\ made' = made + 1
    /\ "parallel" \in Cases \/ \A b \in Actors : call[b].c # c
    /\ call' = [call EXCEPT ![a] = [at |-> at, c |-> c, level |-> l, on |-> on, read |-> row[c], n |-> made + 1]]
    /\ UNCHANGED <<row, remote, level, stray, told, events>>

StartCreate(a, c, l) ==
    row[c] = NoRow /\ ~remote[c].made /\ May(a, c, l) /\ Begin(a, c, "Make", l, TRUE)

StartUpdate(a, c, l, on) ==
    /\ row[c] # NoRow /\ KindOf(c) = "identity" /\ May(a, c, row[c].level) /\ May(a, c, l)
    /\ Begin(a, c, IF on # row[c].on THEN "Set" ELSE "Write", l, on)

StartDelete(a, c) == row[c] # NoRow /\ May(a, c, row[c].level) /\ Begin(a, c, "Disable", 0, FALSE)
StartRotate(a, c) == row[c] # NoRow /\ May(a, c, row[c].level) /\ Begin(a, c, "Rotate", 0, FALSE)

\* provision; create, whose second step makes the secret of a user
Make(a) ==
    LET c == call[a].c IN
    /\ call[a].at = "Make"
    /\ \/ remote' = [remote EXCEPT ![c] = [made |-> TRUE, on |-> TRUE, secret |-> call[a].n]] /\ Goes(a, "Insert") /\ UNCHANGED events
       \/ Fault /\ Leave(a) /\ UNCHANGED remote
       \/ /\ KindOf(c) = "identity" /\ Fault /\ Goes(a, "Undo")
          /\ remote' = [remote EXCEPT ![c] = [made |-> TRUE, on |-> TRUE, secret |-> 0]]
    /\ UNCHANGED <<row, level, stray, told, made>>

Insert(a) ==
    LET c == call[a].c IN
    /\ call[a].at = "Insert"
    /\ \/ /\ MayStill(a, call[a].level) /\ Leave(a)
          /\ row' = [row EXCEPT ![c] = [level |-> call[a].level, on |-> TRUE, secret |-> remote[c].secret]] /\ UNCHANGED events
       \/ ~MayStill(a, call[a].level) /\ Goes(a, "Undo") /\ UNCHANGED <<row, events>>
       \/ Fault /\ Goes(a, "Undo") /\ UNCHANGED row
    /\ UNCHANGED <<remote, level, stray, told, made>>

\* Mutant: the user of an identity loses its secret only.
SecretOnly(c) == IF KindOf(c) = "identity" THEN [remote[c] EXCEPT !.secret = 0] ELSE NoRemote
\* delete, disable: a user loses its secret and is deactivated.
Removed(c) == IF KindOf(c) = "identity" THEN [made |-> TRUE, on |-> FALSE, secret |-> 0] ELSE NoRemote

\* deleteRemoteIgnoringFailure, disableRemoteIgnoringFailure, deactivateIgnoringFailure
Undo(a) ==
    LET c == call[a].c IN
    /\ call[a].at = "Undo" /\ Leave(a)
    /\ \/ remote' = [remote EXCEPT ![c] = Removed(c)] /\ UNCHANGED <<stray, events>>
       \/ Fault /\ stray' = stray \cup {c} /\ UNCHANGED remote
    /\ UNCHANGED <<row, level, told, made>>

\* setActive
Set(a) ==
    /\ call[a].at = "Set"
    /\ \/ remote' = [remote EXCEPT ![call[a].c].on = call[a].on] /\ Goes(a, "Write") /\ UNCHANGED events
       \/ Fault /\ Leave(a) /\ UNCHANGED remote
    /\ UNCHANGED <<row, level, stray, told, made>>

\* The transaction of an update. One that activates may fail only where the case is open.
Activates(a) == call[a].at \in {"Set", "Write"} /\ call[a].on /\ ~call[a].read.on
Write(a) ==
    LET c == call[a].c  ok == MayStill(a, call[a].read.level) /\ MayStill(a, call[a].level) IN
    /\ call[a].at = "Write" /\ Leave(a)
    /\ \/ /\ ok /\ UNCHANGED events
          /\ row' = [row EXCEPT ![c] = IF @ = NoRow THEN @ ELSE [@ EXCEPT !.level = call[a].level, !.on = call[a].on]]
       \/ ~ok /\ UNCHANGED <<row, events>>
       \/ ("partial" \in Cases \/ ~Activates(a)) /\ Fault /\ UNCHANGED row
    /\ UNCHANGED <<remote, level, stray, told, made>>

Disable(a) ==
    /\ call[a].at = "Disable"
    /\ \/ remote' = [remote EXCEPT ![call[a].c] = Removed(call[a].c)] /\ Goes(a, "DeleteRow") /\ UNCHANGED events
       \/ Fault /\ Leave(a) /\ UNCHANGED remote
    /\ UNCHANGED <<row, level, stray, told, made>>

DeleteRow(a) ==
    LET c == call[a].c IN
    /\ call[a].at = "DeleteRow" /\ Leave(a)
    /\ \/ /\ MayStill(a, call[a].read.level) /\ row' = [row EXCEPT ![c] = NoRow]
          /\ told' = told \ {c} /\ UNCHANGED events
       \/ ~MayStill(a, call[a].read.level) /\ UNCHANGED <<row, told, events>>
       \/ Fault /\ UNCHANGED <<row, told>>
    /\ UNCHANGED <<remote, level, stray, made>>

\* rotateSecret
Rotate(a) ==
    /\ call[a].at = "Rotate"
    /\ \/ /\ remote' = [remote EXCEPT ![call[a].c].secret = call[a].n]
          /\ Goes(a, "Save") /\ UNCHANGED events
       \/ Fault /\ Leave(a) /\ UNCHANGED remote
    /\ UNCHANGED <<row, level, stray, told, made>>

\* Mutant: a secret that could not be stored is reported like one that was.
Untold(c) == told
\* persistenceStatus Failed
Warned(c) == told \cup {c}

Save(a) ==
    LET c == call[a].c IN
    /\ call[a].at = "Save" /\ Leave(a)
    /\ \/ row[c] # NoRow /\ row' = [row EXCEPT ![c].secret = call[a].n] /\ told' = told \ {c} /\ UNCHANGED events
       \/ row[c] = NoRow /\ told' = Warned(c) /\ UNCHANGED <<row, events>>
       \/ Fault /\ told' = Warned(c) /\ UNCHANGED row
    /\ UNCHANGED <<remote, level, stray, made>>

\* Another member of the tenant changes the roles of this one.
Demote(a) ==
    /\ level[a] > 0 /\ Fault /\ level' = [level EXCEPT ![a] = @ - 1]
    /\ "partial" \in Cases \/ ~Activates(a)
    /\ UNCHANGED <<row, remote, call, stray, told, made>>

Next ==
    \E a \in Actors :
        \/ \E c \in Ids :
            \/ \E l \in Levels : StartCreate(a, c, l) \/ \E on \in BOOLEAN : StartUpdate(a, c, l, on)
            \/ StartDelete(a, c) \/ StartRotate(a, c)
        \/ Make(a) \/ Insert(a) \/ Undo(a) \/ Set(a) \/ Write(a) \/ Disable(a) \/ DeleteRow(a)
        \/ Rotate(a) \/ Save(a) \/ Demote(a)

Spec == Init /\ [][Next]_vars

-----------------------------------------------------------------------------
TypeOK ==
    /\ \A c \in Ids : row[c].level \in 0..2 /\ row[c].secret \in 0..MaxCalls /\ remote[c].secret \in 0..MaxCalls
    /\ level \in [Actors -> 0..2] /\ stray \subseteq Ids /\ told \subseteq Ids

Busy(c) == \E a \in Actors : call[a].c = c

\* A client that was deleted, suspended or never stored cannot log in, unless its removal failed (update, delete,
\* disableRemoteIgnoringFailure).
GoneCannotLogIn ==
    \A c \in Ids : ~row[c].on /\ ~Busy(c) /\ c \notin stray => ~(remote[c].made /\ remote[c].on)

\* A secret that the provider takes is the one that is stored, or who has it was told that it is not (rotate).
AcceptedIsStored ==
    \A c \in Ids : row[c] # NoRow /\ ~Busy(c) /\ c \notin told => remote[c].secret \in {0, row[c].secret}

\* Who gives, changes or takes the roles or the status of an identity has its permissions, before and after, when he
\* does and not only when he asked (validateRoles).
ManagedWithinPermissions ==
    \A c \in Ids : KindOf(c) = "identity" /\ (row'[c].level # row[c].level \/ row'[c].on # row[c].on) =>
        \E a \in Actors : call[a].c = c /\ level[a] >= row[c].level /\ level[a] >= row'[c].level
=============================================================================
