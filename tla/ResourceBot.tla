----------------------------- MODULE ResourceBot ----------------------------
(***************************************************************************)
(* Questions to the ResourceBot of one tenant: credits are reserved before *)
(* the provider is called and settled after it (ResourceBotChatService,    *)
(* ResourceBotBillingService).  A client may send one requestId again, to  *)
(* any API replica, while the first execution runs, after it failed and    *)
(* after its process died.                                                 *)
(*                                                                         *)
(* reserve and settle hold the lock of the BillingAccount row, so each is  *)
(* one step; the price is read before reserve's transaction.  A            *)
(* reservation lives for Ttl ticks of the clock.                           *)
(***************************************************************************)
EXTENDS Integers, FiniteSets, FiniteSetsExt

CONSTANTS
    RequestIds,
    Executions,     \* calls of answer, each with its own process
    Reserve1, Reserve2,     \* reservedCredits under the first and the second price
    Costs,          \* theoretical costs a provider may report
    InitialBalance,
    MaxActive,      \* 4 in the code
    Ttl,            \* RESERVATION_TTL_MS
    MaxReserves,    \* bound: reservations created
    MaxEvents,      \* bound: other charges and lost calls
    None

ResourceBotAssumption ==
    /\ Reserve1 \in Nat /\ Reserve2 \in Nat /\ Costs \subseteq Nat
    /\ InitialBalance \in Int /\ MaxActive \in Nat \ {0} /\ Ttl \in Nat \ {0}
    /\ MaxReserves \in Nat /\ MaxEvents \in Nat
    /\ None \notin [id : Nat, price : Nat, ttl : Nat]

VARIABLES
    balance,
    price,      \* the ResourceBotPriceVersion that is in effect: 1 or 2
    enabled,    \* tenant and platform settings allow questions
    resv,       \* ResourceBotUsageReservation per requestId, None for no row
    usage,      \* ResourceBotUsageRecord per requestId, None for no row
    pc, exec,   \* a call of answer: its step; requestId, price and reservationId
    ids,        \* reservation ids given out
    events

vars == <<balance, price, enabled, resv, usage, pc, exec, ids, events>>

Steps == {"Idle", "Reserve", "Retrieve", "Generate", "Settle", "Release"}
NoExec == [request |-> None, price |-> 0, id |-> 0]

Init ==
    /\ balance = InitialBalance /\ price = 1 /\ enabled = TRUE
    /\ resv = [r \in RequestIds |-> None]
    /\ usage = [r \in RequestIds |-> None]
    /\ pc = [e \in Executions |-> "Idle"]
    /\ exec = [e \in Executions |-> NoExec]
    /\ ids = 0 /\ events = 0

\* costForUsage of the largest request, per price.
ReservedCredits(p) == IF p = 1 THEN Reserve1 ELSE Reserve2

Goto(e, step) ==
    /\ pc' = [pc EXCEPT ![e] = step]
    /\ exec' = IF step = "Idle" THEN [exec EXCEPT ![e] = NoExec] ELSE exec

-----------------------------------------------------------------------------
(* The call *)

\* assertEnabled, the rate limits, getRuntimeConfiguration and getActivePrice.
Ask(e, r) ==
    /\ pc[e] = "Idle" /\ enabled
    /\ pc' = [pc EXCEPT ![e] = "Reserve"]
    /\ exec' = [exec EXCEPT ![e] = [request |-> r, price |-> price, id |-> 0]]
    /\ UNCHANGED <<balance, price, enabled, resv, usage, ids, events>>

\* The rows that deleteMany of the expired ones leaves.
Active == {r \in RequestIds : resv[r] # None /\ resv[r].ttl > 0}
Promised(rs) == FoldSet(LAMBDA r, sum : ReservedCredits(resv[r].price) + sum, 0, rs)

\* Mutant: what other requests have reserved is not subtracted.
EnoughForOne(p) == Cardinality(Active) < MaxActive /\ balance > 0 /\ balance >= ReservedCredits(p)
\* The limits on a new reservation.
Admitted(p) ==
    /\ Cardinality(Active) < MaxActive
    /\ balance > 0
    /\ balance - Promised(Active) >= ReservedCredits(p)

\* Mutant: a request that is running hands its reservation to the second caller.
ReserveShared(e) ==
    LET r == exec[e].request IN
    /\ pc[e] = "Reserve" /\ usage[r] = None
    /\ r \in Active \/ (Admitted(exec[e].price) /\ ids < MaxReserves)
    /\ ids' = IF r \in Active THEN ids ELSE ids + 1
    /\ resv' = IF r \in Active THEN resv
               ELSE [resv EXCEPT ![r] = [id |-> ids', price |-> exec[e].price, ttl |-> Ttl]]
    /\ exec' = [exec EXCEPT ![e].id = resv'[r].id]
    /\ pc' = [pc EXCEPT ![e] = "Retrieve"]
    /\ UNCHANGED <<balance, price, enabled, usage, events>>
\* reserve, when it creates a reservation: expired rows are deleted first.
Reserve(e) ==
    LET r == exec[e].request IN
    /\ pc[e] = "Reserve"
    /\ usage[r] = None /\ r \notin Active /\ Admitted(exec[e].price)
    /\ ids < MaxReserves
    /\ ids' = ids + 1
    /\ resv' = [x \in RequestIds |->
                  IF x = r THEN [id |-> ids + 1, price |-> exec[e].price, ttl |-> Ttl]
                  ELSE IF x \in Active THEN resv[x] ELSE None]
    /\ exec' = [exec EXCEPT ![e].id = ids + 1]
    /\ pc' = [pc EXCEPT ![e] = "Retrieve"]
    /\ UNCHANGED <<balance, price, enabled, usage, events>>

\* A request that was processed (duplicate), is running or is refused.  The
\* transaction rolls back.
Refuse(e) ==
    /\ pc[e] = "Reserve"
    /\ usage[exec[e].request] # None \/ exec[e].request \in Active \/ ~Admitted(exec[e].price)
    /\ Goto(e, "Idle")
    /\ UNCHANGED <<balance, price, enabled, resv, usage, ids, events>>

\* retrieve: without sources the generation is skipped and the embedding settled.
Retrieve(e) ==
    /\ pc[e] = "Retrieve"
    /\ \E step \in {"Generate", "Settle", "Release"} : Goto(e, step)
    /\ UNCHANGED <<balance, price, enabled, resv, usage, ids, events>>

\* The call of the provider, or its error.
Generate(e) ==
    /\ pc[e] = "Generate"
    /\ \E step \in {"Settle", "Release"} : Goto(e, step)
    /\ UNCHANGED <<balance, price, enabled, resv, usage, ids, events>>

Owns(e) == resv[exec[e].request] # None /\ resv[exec[e].request].id = exec[e].id

\* The reservation authorizes the charge.
Settleable(e) ==
    /\ usage[exec[e].request] = None
    /\ Owns(e) /\ resv[exec[e].request].ttl > 0

\* Mutant: the charge is limited by the balance alone.
ChargeUnreserved(r, cost) ==
    Min({cost, IF balance > 0 THEN balance ELSE 0})
\* Decimal.min of the cost, what was reserved and the balance.
ChargedCredits(r, cost) ==
    Min({cost, ReservedCredits(resv[r].price), IF balance > 0 THEN balance ELSE 0})

Settle(e) ==
    LET r == exec[e].request IN
    /\ pc[e] = "Settle" /\ Settleable(e)
    /\ \E cost \in Costs :
         /\ usage' = [usage EXCEPT ![r] =
                        [charged |-> ChargedCredits(r, cost), price |-> resv[r].price,
                         by |-> exec[e].id, asked |-> exec[e].price,
                         before |-> balance]]
         /\ balance' = balance - ChargedCredits(r, cost)
    /\ resv' = [resv EXCEPT ![r] = None]
    /\ Goto(e, "Idle")
    /\ UNCHANGED <<price, enabled, ids, events>>

SettleRefused(e) ==
    /\ pc[e] = "Settle" /\ ~Settleable(e)
    /\ Goto(e, "Release")
    /\ UNCHANGED <<balance, price, enabled, resv, usage, ids, events>>

\* Mutant: release looks at the requestId alone.
ReleaseByRequest(e) ==
    /\ pc[e] = "Release"
    /\ resv' = [resv EXCEPT ![exec[e].request] = None]
    /\ Goto(e, "Idle")
    /\ UNCHANGED <<balance, price, enabled, usage, ids, events>>
\* release, in the catch block.
Release(e) ==
    /\ pc[e] = "Release"
    /\ resv' = IF Owns(e) THEN [resv EXCEPT ![exec[e].request] = None] ELSE resv
    /\ Goto(e, "Idle")
    /\ UNCHANGED <<balance, price, enabled, usage, ids, events>>

\* The timer of the call; an expired reservation is not renewed.
Renew(e) ==
    /\ pc[e] \in {"Retrieve", "Generate", "Settle"}
    /\ Owns(e) /\ resv[exec[e].request].ttl \in 1 .. Ttl - 1
    /\ resv' = [resv EXCEPT ![exec[e].request].ttl = Ttl]
    /\ UNCHANGED <<balance, price, enabled, usage, pc, exec, ids, events>>

-----------------------------------------------------------------------------
(* What happens around the calls *)

\* The process dies, or release fails and its error is swallowed.
Lost(e) ==
    /\ pc[e] # "Idle" /\ events < MaxEvents
    /\ events' = events + 1
    /\ Goto(e, "Idle")
    /\ UNCHANGED <<balance, price, enabled, resv, usage, ids>>

\* A usage charge of the billing worker, into debt for storage.
OtherCharge ==
    /\ events < MaxEvents
    /\ events' = events + 1
    /\ balance' = balance - Reserve1
    /\ UNCHANGED <<price, enabled, resv, usage, pc, exec, ids>>

\* A minute passes.
Tick ==
    /\ Active # {}
    /\ resv' = [r \in RequestIds |->
                  IF r \in Active THEN [resv[r] EXCEPT !.ttl = @ - 1] ELSE resv[r]]
    /\ UNCHANGED <<balance, price, enabled, usage, pc, exec, ids, events>>

CreatePrice ==
    /\ price = 1 /\ price' = 2
    /\ UNCHANGED <<balance, enabled, resv, usage, pc, exec, ids, events>>

UpdateSettings ==
    /\ enabled /\ enabled' = FALSE
    /\ UNCHANGED <<balance, price, resv, usage, pc, exec, ids, events>>

Step(e) ==
    \/ Reserve(e) \/ Refuse(e) \/ Retrieve(e) \/ Generate(e)
    \/ Settle(e) \/ SettleRefused(e) \/ Release(e)

Next ==
    \/ \E e \in Executions : \/ Step(e) \/ Renew(e) \/ Lost(e)
                             \/ \E r \in RequestIds : Ask(e, r)
    \/ OtherCharge \/ Tick \/ CreatePrice \/ UpdateSettings

Spec == Init /\ [][Next]_vars

-----------------------------------------------------------------------------
\* The types of the variables.
TypeOK ==
    /\ balance \in Int /\ price \in {1, 2} /\ enabled \in BOOLEAN
    /\ \A r \in RequestIds :
         /\ resv[r] = None \/ resv[r] \in [id : 1 .. MaxReserves, price : {1, 2}, ttl : 0 .. Ttl]
         /\ usage[r] = None \/ usage[r].charged \in Nat
    /\ pc \in [Executions -> Steps]
    /\ \A e \in Executions : exec[e].id \in 0 .. MaxReserves
    /\ ids \in 0 .. MaxReserves /\ events \in 0 .. MaxEvents

\* requestId is an idempotency key, not ownership: no two calls hold one
\* reservation, so a request is generated and settled by one owner at a time.
OneOwner ==
    \A e, f \in Executions :
        e # f /\ exec[e].id # 0 => exec[e].id # exec[f].id

\* A charge stays within the authorization its own call reserved, at the price the
\* call saw, and never makes a debt - although a later price, a second execution
\* and other charges may come between reserve and settle.
ChargeWasAuthorized ==
    \A r \in RequestIds : usage[r] # None =>
        /\ usage[r].price = usage[r].asked
        /\ usage[r].charged <= ReservedCredits(usage[r].price)
        /\ usage[r].charged > 0 => usage[r].charged <= usage[r].before

\* When a reservation is made, the balance covers it and every other live one.
ReservationIsCovered ==
    ids' > ids => Promised(Active)' <= balance'

\* A charge is final, and a call that lost its reservation takes nobody else's: a
\* live reservation goes only when its owner settles or releases it.
OwnerEndsReservation ==
    \A r \in RequestIds :
      /\ usage[r] # None => usage'[r] = usage[r]
      /\ r \in Active /\ resv'[r] = None =>
           \E e \in Executions : pc[e] \in {"Settle", "Release"} /\ exec[e].id = resv[r].id
                                  /\ pc'[e] = "Idle"
=============================================================================
