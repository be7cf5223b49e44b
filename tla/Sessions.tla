------------------------------- MODULE Sessions -------------------------------
(***************************************************************************)
(* Browser sessions of the portal. A login at the identity provider ends in a   *)
(* callback that creates a session; a request with the session's cookie looks    *)
(* whether it is usable, and refreshes its tokens when they have expired. The     *)
(* provider takes a refresh token once and answers with the next one, so the API  *)
(* processes take turns under an advisory lock. One user; one login, which can be  *)
(* completed more than once.                                                        *)
(***************************************************************************)
EXTENDS Naturals, FiniteSets

CONSTANTS
    Sessions,     \* ids of sessions, in no order
    Callers,      \* requests in flight, each in an API process of its own
    Providers,    \* external identity providers, besides the accounts of the platform
    Cases,        \* windows that are open, see the README
    MaxTokens,    \* bound: refresh tokens that the provider issues for a session
    MaxEvents,    \* bound: expiries, revocations at the provider, and the cutover
    None

SessionsAssumption ==
    /\ MaxTokens \in Nat /\ MaxEvents \in Nat
    /\ Cases \subseteq {"timeout", "rotation"}

VARIABLES
    login,    \* the login: the provider that was selected, the one that was used, codes not redeemed yet
    proof,    \* FederationLoginProof of its nonce
    row,      \* PortalSession, or None
    token,    \* at the provider: the refresh token of each session that it accepts, 0 for none
    lock,     \* who holds the advisory lock of a session
    calls,    \* what the requests are doing
    active,   \* User.status
    native,   \* native-only login, once cut over
    replayed, \* whether the provider was sent a token that it had replaced
    ended,    \* sessions that were revoked although the provider would have taken their token
    events

vars == <<login, proof, row, token, lock, calls, active, native, replayed, ended, events>>

Idle == [at |-> "Idle", s |-> None, seen |-> 0, new |-> 0, late |-> FALSE, idp |-> None, proven |-> FALSE, why |-> "None"]

Init ==
    /\ login = [chosen |-> None, used |-> None, codes |-> 0, started |-> FALSE]
    /\ proof = [of |-> None, spent |-> FALSE]
    /\ row = [s \in Sessions |-> None] /\ token = [s \in Sessions |-> 0]
    /\ lock = [s \in Sessions |-> None]
    /\ calls = [c \in Callers |-> Idle]
    /\ active = TRUE /\ native = FALSE /\ replayed = FALSE /\ ended = {} /\ events = 0

Step(c, changes) == calls' = [calls EXCEPT ![c] = changes]
Go(c, at) == calls' = [calls EXCEPT ![c].at = at]

-----------------------------------------------------------------------------
(* Login *)

\* resolveLoginSelection; the policy of a tenant can only refuse more.
Selectable(p) == native => p = None

\* createAuthorizationRequest
StartLogin(p) ==
    /\ ~login.started /\ Selectable(p)
    /\ login' = [login EXCEPT !.started = TRUE, !.chosen = p]
    /\ UNCHANGED <<proof, row, token, lock, calls, active, native, replayed, ended, events>>

\* The user signs in at the provider, perhaps in another way than was selected, and can go back.
SignIn(p) ==
    /\ login.started /\ login.codes = 0
    /\ login.used \in {None, p}
    /\ login' = [login EXCEPT !.used = p, !.codes = 1]
    /\ UNCHANGED <<proof, row, token, lock, calls, active, native, replayed, ended, events>>

\* FederationProofService.record: the provider reports, perhaps again, who was used in a login that had
\* a provider selected.
Attest ==
    /\ login.chosen # None /\ login.used # None /\ proof.of = None
    /\ proof' = [of |-> login.used, spent |-> FALSE]
    /\ UNCHANGED <<login, row, token, lock, calls, active, native, replayed, ended, events>>

\* Mutant: the proof of any provider will do.
TakesAny(p) == proof.of # None /\ ~proof.spent
\* FederationProofService.consume
Consumable(p) == proof.of = p /\ ~proof.spent

\* verifiedAuthenticationIdpId: the ID token names the external provider, if the action that adds it is there.
Claim(there) == IF there THEN login.used ELSE None

\* authenticateBrowserTokens: what was selected was used, by the token or by a proof.
Proves(claim) == claim = None /\ login.chosen # None
Authentic(claim) == IF Proves(claim) THEN Consumable(login.chosen) ELSE login.chosen \in {None, claim}

\* findOrProvisionUser: who has not verified the email is not active.
Provision(verified) == active' = verified

\* handleCallback, with the code's exchange
Callback(c, there, verified) ==
    LET claim == Claim(there)
        idp == IF claim = None THEN login.chosen ELSE claim
        ok == /\ native => login.chosen = None
              /\ Authentic(claim)
              /\ native => idp = None
    IN
    /\ calls[c] = Idle /\ login.codes > 0
    /\ login' = [login EXCEPT !.codes = 0]
    /\ proof' = IF Proves(claim) /\ Authentic(claim) THEN [proof EXCEPT !.spent = TRUE] ELSE proof
    /\ IF ok THEN Provision(verified) ELSE UNCHANGED active
    /\ IF ok /\ verified
       THEN Step(c, [Idle EXCEPT !.at = "Create", !.idp = idp, !.proven = Proves(claim)])
       ELSE UNCHANGED calls
    /\ UNCHANGED <<row, token, lock, native, replayed, ended, events>>

\* createSession
Create(c) ==
    /\ calls[c].at = "Create"
    /\ \E s \in Sessions :
        /\ row[s] = None
        /\ row' = [row EXCEPT ![s] =
               [idp |-> calls[c].idp, proven |-> calls[c].proven, token |-> 1, fresh |-> TRUE, over |-> FALSE, revoked |-> FALSE]]
        /\ token' = [token EXCEPT ![s] = 1]
    /\ Step(c, Idle)
    /\ UNCHANGED <<login, proof, lock, active, native, replayed, ended, events>>

-----------------------------------------------------------------------------
(* Requests *)

Usable(s) == ~row[s].revoked /\ ~row[s].over /\ active
Revoked(s) == [row EXCEPT ![s].revoked = TRUE]

\* authenticateSession
Begin(c, s) ==
    /\ calls[c] = Idle /\ row[s] # None /\ lock[s] # c
    /\ "rotation" \in Cases \/ \A d \in Callers : ~(calls[d].s = s /\ calls[d].at = "Logout")
    /\ IF ~Usable(s) \/ (row[s].idp # None /\ native)
       THEN row' = Revoked(s) /\ UNCHANGED calls
       ELSE /\ UNCHANGED row
            /\ Step(c, [Idle EXCEPT !.s = s, !.seen = row[s].token, !.late = native,
                        !.at = IF row[s].fresh THEN "Answer" ELSE "Wait"])
    /\ UNCHANGED <<login, proof, token, lock, active, native, replayed, ended, events>>

\* The request is served.
Answer(c) ==
    /\ calls[c].at = "Answer"
    /\ Step(c, Idle)
    /\ UNCHANGED <<login, proof, row, token, lock, active, native, replayed, ended, events>>

\* Mutant: the token that was read before the lock is used.
TokenRead(c) == calls[c].seen
\* refreshSessionTokensLocked: the session is read again under the lock.
TokenUsed(c) == row[calls[c].s].token
Refreshed(c) == row[calls[c].s].fresh

Fails(c, why) == Step(c, [calls[c] EXCEPT !.at = "Failed", !.why = why])

Lock(c) ==
    LET s == calls[c].s IN
    /\ calls[c].at = "Wait" /\ lock[s] = None
    /\ \/ ~Usable(s) /\ Fails(c, "Invalid") /\ UNCHANGED lock
       \/ Usable(s) /\ Refreshed(c) /\ Go(c, "Answer") /\ UNCHANGED lock
       \/ /\ Usable(s) /\ ~Refreshed(c) /\ lock' = [lock EXCEPT ![s] = c]
          /\ Step(c, [calls[c] EXCEPT !.at = "Exchange", !.new = TokenUsed(c)])
    /\ UNCHANGED <<login, proof, row, token, active, native, replayed, ended, events>>

Unlock(c) == lock' = [s \in Sessions |-> IF lock[s] = c THEN None ELSE lock[s]]
\* getDiscovery, fetchDiscovery, or the token endpoint: no answer says nothing about the token.
NoAnswer(c) == Fails(c, "Unavailable") /\ Unlock(c) /\ UNCHANGED token

\* exchangeRefreshToken: invalid_grant is final.
Exchange(c) ==
    LET s == calls[c].s IN
    /\ calls[c].at = "Exchange"
    /\ replayed' = (replayed \/ calls[c].new < token[s])
    /\ \/ /\ calls[c].new = token[s] /\ token[s] < MaxTokens
          /\ token' = [token EXCEPT ![s] = @ + 1]
          /\ Step(c, [calls[c] EXCEPT !.at = "Save", !.new = @ + 1]) /\ UNCHANGED lock
       \/ /\ calls[c].new # token[s] /\ UNCHANGED token
          /\ Fails(c, "Rejected") /\ Unlock(c)
       \/ NoAnswer(c)
    /\ UNCHANGED <<login, proof, row, active, native, ended, events>>

\* The transaction commits; without the lock it has been ended.
Save(c) ==
    LET s == calls[c].s IN
    /\ calls[c].at = "Save"
    /\ IF lock[s] = c
       THEN /\ row' = [row EXCEPT ![s].token = calls[c].new, ![s].fresh = TRUE]
            /\ lock' = [lock EXCEPT ![s] = None] /\ Go(c, "Answer")
       ELSE UNCHANGED <<row, lock>> /\ Fails(c, "Unavailable")
    /\ UNCHANGED <<login, proof, token, active, native, replayed, ended, events>>

\* The transaction is at its timeout of 20 seconds, or its API process dies.
LoseLock(c) ==
    LET s == calls[c].s IN
    /\ "timeout" \in Cases
    /\ calls[c].at \in {"Exchange", "Save"} /\ lock[s] = c
    /\ lock' = [lock EXCEPT ![s] = None]
    /\ UNCHANGED <<login, proof, row, token, calls, active, native, replayed, ended, events>>

\* Mutant: every failure ends the session.
AnyIsFinal(c) == TRUE
\* What proves that the session is over
IsFinal(c) == calls[c].why # "Unavailable"

\* The guard revokes the session unless the failure is temporary (authenticateOidcRequest).
Refuse(c) == IF IsFinal(c) THEN row' = Revoked(calls[c].s) ELSE UNCHANGED row

\* refreshSessionTokensLocked, when it fails: another may have succeeded.
Failed(c) ==
    LET s == calls[c].s
        other == ~row[s].revoked /\ row[s].token # calls[c].seen /\ row[s].fresh
    IN
    /\ calls[c].at = "Failed"
    /\ IF other THEN Go(c, "Answer") /\ UNCHANGED <<row, ended>>
       ELSE /\ Step(c, Idle) /\ Refuse(c)
            /\ ended' = IF IsFinal(c) /\ calls[c].why # "Invalid" /\ Usable(s) /\ row[s].token = token[s]
                        THEN ended \cup {s} ELSE ended
    /\ UNCHANGED <<login, proof, token, lock, active, native, replayed, events>>

\* prepareProviderLogout reads the session, ...
StartLogout(c, s) ==
    /\ calls[c] = Idle /\ row[s] # None
    /\ "rotation" \in Cases \/ \A d \in Callers : calls[d].s # s
    /\ Step(c, [Idle EXCEPT !.at = "Logout", !.s = s, !.seen = row[s].token])
    /\ UNCHANGED <<login, proof, row, token, lock, active, native, replayed, ended, events>>

\* Mutant: the access token is revoked, which leaves the refresh token.
RevokesAccess(c) == FALSE
\* Whether the provider accepts the token that is sent to be revoked.
RevokesRefresh(c) == calls[c].seen = token[calls[c].s]

\* ... revokes its refresh token at the provider, as far as that answers, ...
RevokeToken(c, answers) ==
    /\ calls[c].at = "Logout"
    /\ token' = IF answers /\ RevokesRefresh(c) THEN [token EXCEPT ![calls[c].s] = 0] ELSE token
    /\ Step(c, [calls[c] EXCEPT !.at = "LoggedOut", !.new = IF answers THEN 1 ELSE 0])
    /\ UNCHANGED <<login, proof, row, lock, active, native, replayed, ended, events>>

\* ... and revokes the session.
EndLogout(c) ==
    /\ calls[c].at = "LoggedOut"
    /\ row' = Revoked(calls[c].s) /\ Step(c, [calls[c] EXCEPT !.at = "Reported"])
    /\ UNCHANGED <<login, proof, token, lock, active, native, replayed, ended, events>>

Report(c) ==
    /\ calls[c].at = "Reported" /\ Step(c, Idle)
    /\ UNCHANGED <<login, proof, row, token, lock, active, native, replayed, ended, events>>

-----------------------------------------------------------------------------
(* Time and administrators *)

Event == events < MaxEvents /\ events' = events + 1

\* The access token expires.
AccessExpires(s) ==
    /\ Event /\ row[s] # None /\ row[s].fresh
    /\ row' = [row EXCEPT ![s].fresh = FALSE]
    /\ UNCHANGED <<login, proof, token, lock, calls, active, native, replayed, ended>>

\* The session has reached its age, or was idle for too long.
SessionEnds(s) ==
    /\ Event /\ row[s] # None /\ ~row[s].over
    /\ row' = [row EXCEPT ![s].over = TRUE]
    /\ UNCHANGED <<login, proof, token, lock, calls, active, native, replayed, ended>>

\* pruneExpiredSessions
Prune ==
    /\ \E s \in Sessions : row[s] # None /\ row[s].over /\ ~row[s].revoked
    /\ row' = [s \in Sessions |->
           IF row[s] # None /\ row[s].over THEN [row[s] EXCEPT !.revoked = TRUE] ELSE row[s]]
    /\ UNCHANGED <<login, proof, token, lock, calls, active, native, replayed, ended, events>>

\* An administrator of the provider ends the grant.
ProviderRevokes(s) ==
    /\ Event /\ token[s] # 0 /\ token' = [token EXCEPT ![s] = 0]
    /\ UNCHANGED <<login, proof, row, lock, calls, active, native, replayed, ended>>

\* RP_NATIVE_LOGIN_ONLY
Cutover ==
    /\ Event /\ ~native /\ native' = TRUE
    /\ UNCHANGED <<login, proof, row, token, lock, calls, active, replayed, ended>>

Login ==
    \/ \E p \in Providers \cup {None} : StartLogin(p) \/ SignIn(p)
    \/ Attest
    \/ \E c \in Callers : Create(c) \/ \E b \in BOOLEAN, d \in BOOLEAN : Callback(c, b, d)

Request ==
    \E c \in Callers :
        \/ \E s \in Sessions : Begin(c, s) \/ StartLogout(c, s)
        \/ Answer(c) \/ Lock(c) \/ Exchange(c) \/ Save(c) \/ LoseLock(c) \/ Failed(c)
        \/ EndLogout(c) \/ Report(c)
        \/ \E b \in BOOLEAN : RevokeToken(c, b)

Environment ==
    \/ \E s \in Sessions : AccessExpires(s) \/ SessionEnds(s) \/ ProviderRevokes(s)
    \/ Prune \/ Cutover

Next == Login \/ Request \/ Environment

Spec == Init /\ [][Next]_vars

-----------------------------------------------------------------------------
TypeOK ==
    /\ \A s \in Sessions : row[s] = None \/ row[s].token \in 1..MaxTokens
    /\ \A s \in Sessions : token[s] \in 0..MaxTokens /\ lock[s] \in Callers \cup {None}
    /\ events \in 0..MaxEvents

\* The provider is never sent a refresh token that it has replaced: two API processes do not refresh a
\* session at the same time (refreshSessionTokensLocked).
NoTokenIsReplayed == ~replayed

\* A refresh that fails ends a session only when the provider would not take its token any more: outages and
\* requests that come late do not log anyone out (refreshSessionTokensLocked, exchangeRefreshToken).
LiveIsNotEnded == ended = {}

\* A session of an external provider comes from a login that used that provider, and one proof makes one
\* session (authenticateBrowserTokens, FederationProofService).
FederatedIsAttested ==
    /\ \A s \in Sessions : row[s] # None /\ row[s].idp # None => row[s].idp = login.used
    /\ \A s, t \in Sessions : row[s] # None /\ row[t] # None /\ row[s].proven /\ row[t].proven => s = t

\* No request that came after the cutover is served for a session of an external provider
\* (authenticateSession).
CutoverHolds ==
    \A c \in Callers : calls[c].at = "Answer" /\ calls[c].late => row[calls[c].s].idp = None

\* A logout that reports the token as revoked leaves none that the provider would take
\* (prepareProviderLogout).
LogoutEndsGrant ==
    \A c \in Callers : calls[c].at = "Reported" /\ calls[c].new = 1 => token[calls[c].s] = 0
=============================================================================
