------------------------------- MODULE CliAuth --------------------------------
(***************************************************************************)
(* How the command line keeps its credentials: a login polls the provider for   *)
(* a device authorization, every command reads the file with the tokens and       *)
(* refreshes them when they have expired, and a logout revokes them. The file      *)
(* is read once by a command and written as a whole; nothing locks it.              *)
(***************************************************************************)
EXTENDS Naturals, FiniteSets

CONSTANTS
    Clis,         \* commands that run, each a process of its own
    Apis,         \* portals
    Cases,        \* windows that are open, see the README
    MaxLogins,    \* bound: grants
    MaxTokens,    \* bound: refresh tokens of a grant
    MaxEvents,    \* bound: answers slow_down, expiries, revocations
    None

CliAuthAssumption ==
    /\ {MaxLogins, MaxTokens, MaxEvents} \subseteq Nat
    /\ Cases \subseteq {"parallel", "validate"}

VARIABLES
    file,     \* ~/.resourceportal/config.json
    accepted, \* at the provider: the refresh token of each grant that it takes, 0 for none
    device,   \* device authorizations, by the command that polls for it
    cli,      \* what the commands are doing
    granted,  \* grants so far
    of,       \* ghost: the portal that each grant was made for
    mine,     \* ghost: the grant of the login that was saved last, 0 after a logout
    ended,    \* ghost: grants whose logout was reported without a warning
    sent,     \* ghost: grants and the portals that got their tokens
    events

vars == <<file, accepted, device, cli, granted, of, mine, ended, sent, events>>

Grants == 1..MaxLogins
NoFile == [api |-> None, grant |-> 0, n |-> 0, fresh |-> FALSE]
Idle == [at |-> "Idle", api |-> None, grant |-> 0, n |-> 0, interval |-> 0]
NoDevice == [state |-> "None", wants |-> 0]

Init ==
    /\ file = NoFile /\ accepted = [g \in Grants |-> 0]
    /\ device = [c \in Clis |-> NoDevice] /\ cli = [c \in Clis |-> Idle]
    /\ granted = 0 /\ of = [g \in Grants |-> None]
    /\ mine = 0 /\ ended = {} /\ sent = {} /\ events = 0

Step(c, changes) == cli' = [cli EXCEPT ![c] = changes]
Event == events < MaxEvents /\ events' = events + 1
\* A command that read the file and will change it
Holding(c) == cli[c].at \in {"Refresh", "Check", "Revoke"}
Alone(c) == "parallel" \in Cases \/ \A d \in Clis \ {c} : ~Holding(d)

\* writeConfig
Write(a, g, n, fresh) == file' = [api |-> a, grant |-> g, n |-> n, fresh |-> fresh]

-----------------------------------------------------------------------------
(* rp login *)

\* fetchCliAuthConfig, fetchOidcDiscovery, requestDeviceAuthorization
RequestDevice(c, a) ==
    /\ cli[c] = Idle /\ granted + Cardinality({d \in Clis : cli[d].at = "Poll"}) < MaxLogins
    /\ device' = [device EXCEPT ![c] = [state |-> "Pending", wants |-> 1]]
    /\ Step(c, [Idle EXCEPT !.at = "Poll", !.api = a, !.interval = 1])
    /\ UNCHANGED <<file, accepted, granted, of, mine, ended, sent, events>>

\* The user approves or denies the code, or lets it expire.
Decide(c, state) ==
    /\ device[c].state = "Pending"
    /\ device' = [device EXCEPT ![c].state = state]
    /\ UNCHANGED <<file, accepted, cli, granted, of, mine, ended, sent, events>>

Leave(c) == Step(c, Idle) /\ device' = [device EXCEPT ![c] = NoDevice]
\* After slow_down
NextInterval(c) == cli[c].interval + 1

\* pollDeviceToken
Poll(c) ==
    /\ cli[c].at = "Poll"
    /\ CASE device[c].state = "Approved" ->
              /\ granted' = granted + 1
              /\ accepted' = [accepted EXCEPT ![granted + 1] = 1] /\ of' = [of EXCEPT ![granted + 1] = cli[c].api]
              /\ Step(c, [cli[c] EXCEPT !.at = "Save", !.grant = granted + 1, !.n = 1])
              /\ device' = [device EXCEPT ![c] = NoDevice] /\ UNCHANGED events
         [] device[c].state = "Pending" -> \* slow_down
              /\ Event /\ device' = [device EXCEPT ![c].wants = @ + 1]
              /\ Step(c, [cli[c] EXCEPT !.interval = NextInterval(c)])
              /\ UNCHANGED <<granted, accepted, of>>
         [] OTHER -> Leave(c) /\ UNCHANGED <<granted, accepted, of, events>>
    /\ UNCHANGED <<file, mine, ended, sent>>

Sent(c) == sent' = sent \cup {<<cli[c].grant, cli[c].api>>}

\* interactiveLogin, with validateResourcePortalToken: what the portal does not take is not saved.
SaveLogin(c) ==
    /\ cli[c].at = "Save" /\ Alone(c) /\ Sent(c) /\ Step(c, Idle)
    /\ \/ Write(cli[c].api, cli[c].grant, 1, TRUE) /\ mine' = cli[c].grant
       \/ UNCHANGED <<file, mine>>
    /\ UNCHANGED <<accepted, device, granted, of, ended, events>>

\* manualTokenLogin: a token without a grant; the file forgets the one it had.
ManualLogin(c, a) ==
    /\ cli[c] = Idle /\ Alone(c)
    /\ Write(a, 0, 0, TRUE) /\ mine' = 0
    /\ UNCHANGED <<accepted, device, cli, granted, of, ended, sent, events>>

-----------------------------------------------------------------------------
(* Any other command *)

\* Mutant: the portal that the file names is not looked at.
AnyPortal(a) == file.grant # 0
\* The credentials of one portal are not sent to another.
ForPortal(a) == file.grant # 0 /\ file.api = a

\* resolveAuth
Use(c, a) ==
    /\ cli[c] = Idle /\ ForPortal(a) /\ Alone(c)
    /\ IF file.fresh
       THEN sent' = sent \cup {<<file.grant, a>>} /\ UNCHANGED cli
       ELSE Step(c, [Idle EXCEPT !.at = "Refresh", !.api = a, !.grant = file.grant, !.n = file.n]) /\ UNCHANGED sent
    /\ UNCHANGED <<file, accepted, device, granted, of, mine, ended, events>>

\* Mutant: every failure removes the credentials.
AnyFailure(c) == TRUE
\* Only invalid_grant says that the token is gone.
IsInvalidGrant(c) == cli[c].n # accepted[cli[c].grant]

\* refreshDeviceAuth
Refresh(c) ==
    LET g == cli[c].grant IN
    /\ cli[c].at = "Refresh"
    /\ \/ /\ cli[c].n = accepted[g] /\ cli[c].n < MaxTokens
          /\ accepted' = [accepted EXCEPT ![g] = @ + 1]
          /\ Step(c, [cli[c] EXCEPT !.at = "Check", !.n = @ + 1]) /\ UNCHANGED file
       \/ /\ IsInvalidGrant(c) /\ Write(file.api, 0, 0, FALSE)
          /\ Step(c, Idle) /\ UNCHANGED accepted
       \/ /\ ~IsInvalidGrant(c) /\ Step(c, Idle) /\ UNCHANGED <<file, accepted>> \* no answer
    /\ UNCHANGED <<device, granted, of, mine, ended, sent, events>>

\* ... and validates the new token before it is saved.
Check(c) ==
    /\ cli[c].at = "Check" /\ Sent(c) /\ Step(c, Idle)
    /\ \/ Write(cli[c].api, cli[c].grant, cli[c].n, TRUE)
       \/ "validate" \in Cases /\ UNCHANGED file
    /\ UNCHANGED <<accepted, device, granted, of, mine, ended, events>>

-----------------------------------------------------------------------------
(* rp logout *)

Logout(c) ==
    /\ cli[c] = Idle /\ file.grant # 0 /\ Alone(c)
    /\ Step(c, [Idle EXCEPT !.at = "Revoke", !.grant = file.grant, !.n = file.n])
    /\ UNCHANGED <<file, accepted, device, granted, of, mine, ended, sent, events>>

\* Mutant: the access token is revoked.
SendsAccess(c) == FALSE
\* The refresh token is sent: it ends the grant when it is the one that the provider takes.
SendsRefresh(c) == cli[c].n = accepted[cli[c].grant]

\* clearConfig, whatever the provider answers
Revoke(c, answers) ==
    LET g == cli[c].grant IN
    /\ cli[c].at = "Revoke"
    /\ accepted' = IF answers /\ SendsRefresh(c) THEN [accepted EXCEPT ![g] = 0] ELSE accepted
    /\ ended' = IF answers THEN ended \cup {g} ELSE ended
    /\ file' = NoFile /\ mine' = 0 /\ Step(c, Idle)
    /\ UNCHANGED <<device, granted, of, sent, events>>

-----------------------------------------------------------------------------
\* The access token expires.
Expires ==
    /\ Event /\ file.grant # 0 /\ file.fresh /\ file' = [file EXCEPT !.fresh = FALSE]
    /\ UNCHANGED <<accepted, device, cli, granted, of, mine, ended, sent>>

\* The user ends the grant at the provider.
ProviderRevokes(g) ==
    /\ Event /\ accepted[g] # 0 /\ accepted' = [accepted EXCEPT ![g] = 0]
    /\ UNCHANGED <<file, device, cli, granted, of, mine, ended, sent>>

Next ==
    \/ \E c \in Clis :
        \/ \E a \in Apis : RequestDevice(c, a) \/ ManualLogin(c, a) \/ Use(c, a)
        \/ \E s \in {"Approved", "Denied", "Expired"} : Decide(c, s)
        \/ Poll(c) \/ SaveLogin(c) \/ Refresh(c) \/ Check(c) \/ Logout(c)
        \/ \E b \in BOOLEAN : Revoke(c, b)
    \/ Expires \/ \E g \in Grants : ProviderRevokes(g)

Spec == Init /\ [][Next]_vars

-----------------------------------------------------------------------------
TypeOK ==
    /\ file.grant \in 0..MaxLogins /\ file.n \in 0..MaxTokens
    /\ accepted \in [Grants -> 0..MaxTokens] /\ granted \in 0..MaxLogins

\* What a login for one portal has saved is never sent to another (resolveAuth).
CredentialsStayHome == \A s \in sent : s[2] = of[s[1]]

\* As long as the provider takes the credentials of the last login, the file has them or a command is about to
\* write them: an outage during a refresh does not log the user out (refreshDeviceAuth).
LoginIsKept ==
    mine # 0 /\ accepted[mine] # 0 =>
        \/ file.grant = mine /\ file.n = accepted[mine]
        \/ \E c \in Clis : cli[c].at = "Check" /\ cli[c].grant = mine /\ cli[c].n = accepted[mine]

\* After a logout without a warning, the provider takes no token of the grant and the file has none (logout).
LogoutIsFinal == \A g \in ended : accepted[g] = 0 /\ file.grant # g

\* The command does not poll more often than the provider has asked it to (pollDeviceToken).
PollsAsAsked == \A c \in Clis : cli[c].at = "Poll" => cli[c].interval >= device[c].wants
=============================================================================
