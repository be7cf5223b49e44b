----------------------------- MODULE BotSettings ----------------------------
(***************************************************************************)
(* The platform's ResourceBot configuration (PlatformResourceBotService):  *)
(* one row that administrators change and validate.  A request reads the   *)
(* row, asks the provider, and writes; nothing ties the three together.    *)
(* Whether the provider accepts a key for a model may change between calls.*)
(***************************************************************************)
EXTENDS Naturals

CONSTANTS Admins, Keys, Models, None,
          Blank,            \* a key of blanks, which is long enough to be taken and is empty without them
          MaxRequests       \* bound: requests of administrators

BotSettingsAssumption == None \notin Keys /\ Blank \notin Keys /\ Blank # None /\ None \notin Models

VARIABLES
    state,      \* the row: enabled, apiKeyCiphertext, generationModel,
                \* lastValidatedAt and lastError (whether each is set)
    pc, req,    \* a request: its step; its patch, and what it resolved to
    valid,      \* history: the key and model pairs a provider call accepted
    mixed,      \* history: whether the row was written by a request that was crossed
    requests

vars == <<state, pc, req, valid, mixed, requests>>

NoPatch == [key |-> None, model |-> None]
NoReq == [patch |-> NoPatch, key |-> None, model |-> None, enabled |-> FALSE]

Init ==
    /\ \E m \in Models :
         state = [enabled |-> TRUE, key |-> None, model |-> m, validated |-> FALSE,
                  error |-> FALSE]
    /\ pc = [a \in Admins |-> "Idle"]
    /\ req = [a \in Admins |-> NoReq]
    /\ valid = {} /\ mixed = FALSE /\ requests = 0

Or(x, default) == IF x = None THEN default ELSE x

\* dto.apiKey?.trim() || the stored key: the key that is validated.
KeyOf(k) == IF k \in Keys THEN k ELSE IF state.key = Blank THEN None ELSE state.key

\* isAvailable
IsAvailable == state.enabled /\ state.key # None /\ state.validated /\ ~state.error

\* Mutant: only a new key is worth a validation.
NeedsNewKey(patch, enabled) == patch.key # None
\* configurationChanged, or a first activation.
NeedsValidation(patch, enabled) ==
    patch.key # None \/ patch.model # None \/ (enabled /\ ~state.validated)

\* updatePlatformState up to the call of the provider.
Update(a) ==
    /\ pc[a] = "Idle" /\ requests < MaxRequests
    /\ requests' = requests + 1
    /\ \E k \in Keys \cup {None, Blank}, m \in Models \cup {None}, on \in BOOLEAN :
         LET patch == [key |-> k, model |-> m] IN
         /\ on \/ NeedsValidation(patch, on) => KeyOf(k) # None
         /\ req' = [req EXCEPT ![a] = [patch |-> patch, key |-> KeyOf(k),
                                       model |-> Or(m, state.model), enabled |-> on]]
         /\ pc' = [pc EXCEPT ![a] = IF NeedsValidation(patch, on) THEN "Validate" ELSE "Write"]
    /\ UNCHANGED <<state, valid, mixed>>

\* validateCredential succeeds.
Accepted(a) ==
    /\ pc[a] = "Validate"
    /\ valid' = valid \cup {<<req[a].key, req[a].model>>}
    /\ pc' = [pc EXCEPT ![a] = "WriteValidated"]
    /\ UNCHANGED <<state, req, mixed, requests>>

Done(a) ==
    /\ pc' = [pc EXCEPT ![a] = "Idle"]
    /\ req' = [req EXCEPT ![a] = NoReq]
    /\ UNCHANGED requests

\* It fails: only lastError is written.
Rejected(a) ==
    /\ pc[a] \in {"Validate", "Check"}
    /\ state' = [state EXCEPT !.error = TRUE]
    /\ Done(a)
    /\ UNCHANGED <<valid, mixed>>

\* What the request took from the row was changed by another one since.
Crossed(a) ==
    \/ req[a].patch.key \notin Keys /\ req[a].key # KeyOf(None)
    \/ req[a].patch.model = None /\ req[a].model # state.model

\* The transaction.  Every field but the key is written as it was resolved; the key is
\* written as it came, without its blanks.
Save(a) ==
    /\ pc[a] \in {"Write", "WriteValidated"}
    /\ state' = [enabled |-> req[a].enabled,
                 key |-> Or(req[a].patch.key, state.key),
                 model |-> req[a].model,
                 validated |-> state.validated \/ pc[a] = "WriteValidated",
                 error |-> IF pc[a] = "WriteValidated" THEN FALSE ELSE state.error]
    /\ mixed' = (Crossed(a) \/ (mixed /\ pc[a] = "Write"))
    /\ Done(a)
    /\ UNCHANGED valid

\* validatePlatformConnection
Check(a) ==
    /\ pc[a] = "Idle" /\ requests < MaxRequests /\ state.key # None
    /\ requests' = requests + 1
    /\ req' = [req EXCEPT ![a] = [patch |-> NoPatch, key |-> KeyOf(None), model |-> state.model,
                                  enabled |-> state.enabled]]
    /\ pc' = [pc EXCEPT ![a] = "Check"]
    /\ UNCHANGED <<state, valid, mixed>>

\* The provider accepts the key, which it does not when there is none left of it.
Checked(a) ==
    /\ pc[a] = "Check" /\ req[a].key # None
    /\ valid' = valid \cup {<<req[a].key, req[a].model>>}
    /\ state' = [state EXCEPT !.validated = TRUE, !.error = FALSE]
    /\ mixed' = Crossed(a)
    /\ Done(a)

Next == \E a \in Admins : Update(a) \/ Accepted(a) \/ Rejected(a) \/ Save(a) \/ Check(a) \/ Checked(a)

Spec == Init /\ [][Next]_vars

-----------------------------------------------------------------------------
\* A configuration that is offered to tenants is one the provider accepted, key and
\* model together (PlatformResourceBotService), with two exceptions that its code leaves
\* open: a key of blanks was stored, after the key before it was validated; or a request
\* wrote what it had taken from the row after another one had changed that.
AvailableWasValidated ==
    IsAvailable /\ state.key # Blank /\ ~mixed => <<state.key, state.model>> \in valid
=============================================================================
