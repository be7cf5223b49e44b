--------------------------- MODULE CloudflareGrant ---------------------------
(***************************************************************************)
(* The authorization that a member gives a tenant for zones at Cloudflare: a state    *)
(* that is used once, a code that is exchanged, a refresh token that the provider     *)
(* may rotate, and a disconnection that revokes it. No call holds a lock.              *)
(***************************************************************************)
EXTENDS Naturals

CONSTANTS
    States,     \* authorizations that are started
    Callers,    \* requests in flight
    Rotates,    \* whether the provider takes a refresh token once
    Cases,      \* windows that are open, see the README
    MaxTokens,  \* bound: tokens that the provider issues
    MaxCalls    \* bound: requests

CloudflareGrantAssumption ==
    /\ MaxTokens \in Nat /\ MaxCalls \in Nat /\ Rotates \in BOOLEAN
    /\ Cases \subseteq {"lost", "again", "race"}

VARIABLES
    state,    \* CloudflareOAuthState
    code,     \* whether the code of an authorization was exchanged
    conn,     \* CloudflareOAuthConnection: its id, refresh token, and whether the access token is fresh
    live,     \* refresh tokens that the provider takes
    call,     \* what the requests are doing
    issued, ids, made

vars == <<state, code, conn, live, call, issued, ids, made>>

NoConn == [id |-> 0, token |-> 0, fresh |-> FALSE]
Idle == [at |-> "Idle", s |-> "None", id |-> 0, token |-> 0]

Init ==
    /\ state = [s \in States |-> "None"] /\ code = [s \in States |-> "New"]
    /\ conn = NoConn /\ live = {} /\ call = [c \in Callers |-> Idle]
    /\ issued = 0 /\ ids = 0 /\ made = 0

Request == made < MaxCalls /\ made' = made + 1
Goes(c, changes) == call' = [call EXCEPT ![c] = changes]
Doing(what) == {c \in Callers : call[c].at \in what}
Issue == issued < MaxTokens /\ issued' = issued + 1

\* startAuthorization
Start(s) ==
    /\ state[s] = "None" /\ state' = [state EXCEPT ![s] = "Open"]
    /\ UNCHANGED <<code, conn, live, call, issued, ids, made>>

\* completeAuthorization; a browser may call it twice.
Begin(c, s) ==
    /\ call[c] = Idle /\ state[s] = "Open" /\ Request
    /\ "race" \in Cases \/ Doing({"Revoke", "Delete", "Refresh", "Update"}) = {}
    /\ "again" \in Cases \/ conn = NoConn
    /\ \A d \in Callers : call[d].at \in {"Exchange", "Save"} => call[d].s = s
    /\ Goes(c, [Idle EXCEPT !.at = "Exchange", !.s = s])
    /\ UNCHANGED <<state, code, conn, live, issued, ids>>

\* exchangeToken: a code is taken once; what comes back may be lost.
Exchange(c) ==
    /\ call[c].at = "Exchange"
    /\ \/ /\ code[call[c].s] = "New" /\ code' = [code EXCEPT ![call[c].s] = "Used"]
          /\ Issue /\ live' = live \cup {issued + 1}
          /\ \/ Goes(c, [call[c] EXCEPT !.at = "Save", !.token = issued + 1])
             \/ "lost" \in Cases /\ Goes(c, Idle)
       \/ Goes(c, Idle) /\ UNCHANGED <<code, live, issued>>
    /\ UNCHANGED <<state, conn, ids, made>>

\* The connection of a tenant and user is updated when there is one.
IdOf == IF conn = NoConn THEN ids + 1 ELSE conn.id

\* The state is consumed and the connection is written in one transaction.
Save(c) ==
    /\ call[c].at = "Save" /\ Goes(c, Idle)
    /\ IF state[call[c].s] = "Open"
       THEN /\ state' = [state EXCEPT ![call[c].s] = "Consumed"]
            /\ conn' = [id |-> IdOf, token |-> call[c].token, fresh |-> TRUE]
            /\ ids' = IF IdOf > ids THEN IdOf ELSE ids
       ELSE UNCHANGED <<state, conn, ids>>
    /\ UNCHANGED <<code, live, issued, made>>

\* accessToken: one that is about to expire is refreshed.
NeedToken(c) ==
    /\ call[c] = Idle /\ conn # NoConn /\ ~conn.fresh /\ Request
    /\ "race" \in Cases \/ Doing({"Revoke", "Delete", "Exchange", "Save"}) = {}
    /\ Goes(c, [Idle EXCEPT !.at = "Refresh", !.id = conn.id, !.token = conn.token])
    /\ UNCHANGED <<state, code, conn, live, issued, ids>>

Refresh(c) ==
    /\ call[c].at = "Refresh"
    /\ IF call[c].token \in live
       THEN \/ /\ Issue /\ Rotates /\ live' = (live \ {call[c].token}) \cup {issued + 1}
               /\ \/ Goes(c, [call[c] EXCEPT !.at = "Update", !.token = issued + 1])
                  \/ "lost" \in Cases /\ Goes(c, Idle)
            \/ ~Rotates /\ Goes(c, [call[c] EXCEPT !.at = "Update"]) /\ UNCHANGED <<live, issued>>
       ELSE Goes(c, Idle) /\ UNCHANGED <<live, issued>>
    /\ UNCHANGED <<state, code, conn, ids, made>>

\* Mutant: the token that was sent is kept.
KeepsToken(c) == conn.token
\* A refresh token that comes back replaces the one before.
NewToken(c) == call[c].token

\* The connection that was read is updated, if it is still there.
Update(c) ==
    /\ call[c].at = "Update" /\ Goes(c, Idle)
    /\ conn' = IF conn.id = call[c].id THEN [conn EXCEPT !.token = NewToken(c), !.fresh = TRUE] ELSE conn
    /\ UNCHANGED <<state, code, live, issued, ids, made>>

\* disconnect
Disconnect(c) ==
    /\ call[c] = Idle /\ conn # NoConn /\ Request
    /\ "race" \in Cases \/ Doing({"Refresh", "Update", "Exchange", "Save"}) = {}
    /\ Goes(c, [Idle EXCEPT !.at = "Revoke", !.token = conn.token])
    /\ UNCHANGED <<state, code, conn, live, issued, ids>>

\* Mutant: the access token alone is revoked.
AccessOnly(c) == {}
\* Both tokens are revoked, as far as the provider answers.
Tokens(c) == {call[c].token}

Revoke(c) ==
    /\ call[c].at = "Revoke" /\ Goes(c, [call[c] EXCEPT !.at = "Delete"])
    /\ live' = live \ Tokens(c) \/ ("lost" \in Cases /\ UNCHANGED live)
    /\ UNCHANGED <<state, code, conn, issued, ids, made>>

Delete(c) ==
    /\ call[c].at = "Delete" /\ Goes(c, Idle) /\ conn' = NoConn
    /\ UNCHANGED <<state, code, live, issued, ids, made>>

AccessExpires ==
    /\ conn.fresh /\ conn' = [conn EXCEPT !.fresh = FALSE]
    /\ UNCHANGED <<state, code, live, call, issued, ids, made>>

\* An authorization is given up after ten minutes.
StateExpires(s) ==
    /\ state[s] = "Open" /\ Doing({"Exchange", "Save"}) = {}
    /\ state' = [state EXCEPT ![s] = "Expired"]
    /\ UNCHANGED <<code, conn, live, call, issued, ids, made>>

Next ==
    \/ AccessExpires
    \/ \E s \in States : Start(s) \/ StateExpires(s) \/ \E c \in Callers : Begin(c, s)
    \/ \E c \in Callers :
        \/ Exchange(c) \/ Save(c) \/ NeedToken(c) \/ Refresh(c) \/ Update(c)
        \/ Disconnect(c) \/ Revoke(c) \/ Delete(c)

Spec == Init /\ [][Next]_vars

-----------------------------------------------------------------------------
TypeOK ==
    /\ conn.id \in 0..ids /\ conn.token \in 0..issued /\ live \subseteq 1..issued
    /\ \A s \in States : state[s] \in {"None", "Open", "Consumed", "Expired"}

\* Unless a call is about to write it, the provider takes the token that a connection holds, although nothing
\* keeps two requests from refreshing it (accessToken).
ConnectionWorks == conn # NoConn /\ Doing({"Save", "Update", "Delete"}) = {} => conn.token \in live

\* Once the member has disconnected, the provider takes no token of the platform (disconnect).
DisconnectEnds == conn = NoConn /\ Doing({"Exchange", "Save"}) = {} => live = {}
=============================================================================
