------------------------------- MODULE Billing ------------------------------
(***************************************************************************)
(* The credit account of one tenant: the ledger that payments, refunds,    *)
(* corrections, vouchers and usage charges write (BillingService,          *)
(* BillingUsageService), and the workers that charge every closed minute   *)
(* (BillingWorkerService).  Every worker process runs the reconciliation;  *)
(* nothing but the unique key of a usage record keeps two of them apart.   *)
(*                                                                         *)
(* A transaction on the account is two steps: the balance is read, with    *)
(* the row locked FOR UPDATE, and written at the commit.  A minute is      *)
(* named by its end.  Costs are one amount per kind of resource.           *)
(***************************************************************************)
EXTENDS Integers, Sequences, FiniteSets

CONSTANTS
    Apps, Volumes,      \* resources that are charged; they exist throughout
    Workers,            \* worker processes
    Requests,           \* API requests that touch the account, each used once
    Vouchers,
    ComputeCost, StorageCost, VoucherValue,
    Amounts,            \* what an administrator may enter, with either sign
    InitialBalance,
    MaxBackfill,        \* MAX_BACKFILL_PERIODS
    MaxMinute,          \* bound: minutes that pass
    MaxCrashes,         \* bound: crashes of workers
    NoTx                \* no transaction of this process is open

Minutes == 1 .. MaxMinute
Resources == Apps \cup Volumes
Actors == Workers \cup Requests

\* What is booked is named: a charge by its resource and minute.
Charges == Resources \X Minutes
Refs == Requests \cup Vouchers \cup Charges
Types == {"Payment", "Refund", "Correction", "VoucherRedeem", "UsageCharge"}
Entries == [type : Types, ref : Refs, before : Int, after : Int]
Transactions == [type : Types, ref : Refs, amount : Int, before : Int]

BillingAssumption ==
    /\ ComputeCost \in Nat /\ StorageCost \in Nat /\ VoucherValue \in Nat \ {0}
    /\ Amounts \subseteq Nat \ {0} /\ InitialBalance \in Int
    /\ MaxBackfill \in Nat \ {0} /\ MaxMinute \in Nat \ {0} /\ MaxCrashes \in Nat
    /\ Apps \cap Volumes = {} /\ Workers \cap Requests = {} /\ Requests \cap Vouchers = {}
    /\ \A x \in Requests \cup Vouchers : x \notin Charges
    /\ NoTx \notin Transactions

VARIABLES
    now,        \* the last minute that has closed
    prices,     \* effectiveFrom of the price lists
    running,    \* whether the apps run (actualReplicas, runtimeState)
    balance,    \* BillingAccount.balance
    ledger,     \* BillingTransaction rows
    records,    \* UsageRecord rows
    voucher,    \* status of each voucher; "Expired" when expiresAt has passed
    cursor,     \* lastCompletedPeriodEnd, 0 for NULL
    first,      \* history: the last minute a worker picked with no cursor, 0 for none
    pc, periods, todo, active,      \* a worker's run
    tx,         \* the open transaction of each process
    spent,      \* requests that have been used
    crashes

workerVars == <<pc, periods, todo, active>>
vars == <<now, prices, running, balance, ledger, records, voucher, cursor, first,
          workerVars, tx, spent, crashes>>

Init ==
    /\ now = 1 /\ prices = {} /\ running = TRUE
    /\ balance = InitialBalance /\ ledger = <<>> /\ records = {}
    /\ voucher = [v \in Vouchers |-> "None"]
    /\ cursor = 0 /\ first = 0
    /\ pc = [w \in Workers |-> "Idle"]
    /\ periods = [w \in Workers |-> <<>>]
    /\ todo = [w \in Workers |-> {}]
    /\ active = [w \in Workers |-> FALSE]
    /\ tx = [a \in Actors |-> NoTx]
    /\ spent = {} /\ crashes = 0

-----------------------------------------------------------------------------
(* Transactions on the account *)

\* lockAccount: no other transaction has the row.
LockAccount == \A a \in Actors : tx[a] = NoTx

Open(a, type, ref, amount) ==
    /\ LockAccount
    /\ tx[a] = NoTx
    /\ tx' = [tx EXCEPT ![a] = [type |-> type, ref |-> ref, amount |-> amount,
                                before |-> balance]]

\* The part of applyBalanceMutation that writes.
Write(a) ==
    LET after == tx[a].before + tx[a].amount IN
    /\ balance' = after
    /\ ledger' = Append(ledger, [type |-> tx[a].type, ref |-> tx[a].ref,
                                 before |-> tx[a].before, after |-> after])

-----------------------------------------------------------------------------
(* Administration: requests of the API *)

\* Payment, refund or correction.  Only a correction keeps its sign.
MutateBalance(r) ==
    /\ r \notin spent
    /\ \E type \in {"Payment", "Refund", "Correction"}, x \in Amounts \cup {-n : n \in Amounts} :
         Open(r, type, r, IF type = "Correction" \/ x > 0 THEN x ELSE -x)
    /\ spent' = spent \cup {r}
    /\ UNCHANGED <<now, prices, running, balance, ledger, records, voucher, cursor,
                   first, workerVars, crashes>>

CreateVoucher(v) ==
    /\ voucher[v] = "None"
    /\ voucher' = [voucher EXCEPT ![v] = "Active"]
    /\ UNCHANGED <<now, prices, running, balance, ledger, records, cursor, first,
                   workerVars, tx, spent, crashes>>

\* The voucher's row is locked by a transaction that redeems it.
VoucherLocked(v) == \E r \in Requests : tx[r] # NoTx /\ tx[r].ref = v

DisableVoucher(v) ==
    /\ voucher[v] \in {"Active", "Expired"} /\ ~VoucherLocked(v)
    /\ voucher' = [voucher EXCEPT ![v] = "Disabled"]
    /\ UNCHANGED <<now, prices, running, balance, ledger, records, cursor, first,
                   workerVars, tx, spent, crashes>>

\* expiresAt passes.
VoucherExpires(v) ==
    /\ voucher[v] = "Active" /\ ~VoucherLocked(v)
    /\ voucher' = [voucher EXCEPT ![v] = "Expired"]
    /\ UNCHANGED <<now, prices, running, balance, ledger, records, cursor, first,
                   workerVars, tx, spent, crashes>>

\* isVoucherRedeemable, under the voucher's row lock.
RedeemVoucher(r, v) ==
    /\ r \notin spent
    /\ voucher[v] = "Active" /\ ~VoucherLocked(v)
    /\ Open(r, "VoucherRedeem", v, VoucherValue)
    /\ spent' = spent \cup {r}
    /\ UNCHANGED <<now, prices, running, balance, ledger, records, voucher, cursor,
                   first, workerVars, crashes>>

\* The commit of a request.
CommitRequest(r) ==
    /\ tx[r] # NoTx
    /\ Write(r)
    /\ voucher' = IF tx[r].type = "VoucherRedeem"
                    THEN [voucher EXCEPT ![tx[r].ref] = "Redeemed"] ELSE voucher
    /\ tx' = [tx EXCEPT ![r] = NoTx]
    /\ UNCHANGED <<now, prices, running, records, cursor, first, workerVars, spent,
                   crashes>>

CreatePriceList(m) ==
    /\ prices = {}
    /\ prices' = {m}
    /\ UNCHANGED <<now, running, balance, ledger, records, voucher, cursor, first,
                   workerVars, tx, spent, crashes>>

-----------------------------------------------------------------------------
(* The minute worker *)

\* reconciliationPeriods
ReconciliationPeriods ==
    IF cursor = 0 THEN <<now>>
    ELSE LET behind == IF now > cursor THEN now - cursor ELSE 0
             n == IF behind < MaxBackfill THEN behind ELSE MaxBackfill
         IN  [i \in 1 .. n |-> cursor + i]

\* reconcileClosedPeriods reads the cursor; `running' keeps a process to one run.
StartRun(w) ==
    /\ pc[w] = "Idle"
    /\ ReconciliationPeriods # <<>>
    /\ periods' = [periods EXCEPT ![w] = ReconciliationPeriods]
    /\ first' = IF cursor = 0 THEN now ELSE first
    /\ pc' = [pc EXCEPT ![w] = "Read"]
    /\ UNCHANGED <<now, prices, running, balance, ledger, records, voucher, cursor,
                   todo, active, tx, spent, crashes>>

\* reconcilePeriod: the price list, the accounts and the apps are read; without a
\* price list for the minute the run fails.
ReadPeriod(w) ==
    /\ pc[w] = "Read"
    /\ IF \E m \in prices : m < Head(periods[w])
         THEN /\ pc' = [pc EXCEPT ![w] = "Charge"]
              /\ todo' = [todo EXCEPT ![w] = Resources]
              /\ active' = [active EXCEPT ![w] = running /\ balance > 0]
         ELSE /\ pc' = [pc EXCEPT ![w] = "Idle"]
              /\ UNCHANGED <<todo, active>>
    /\ UNCHANGED <<now, prices, running, balance, ledger, records, voucher, cursor,
                   first, periods, tx, spent, crashes>>

\* computeMinuteCost of the billed replicas, storageMinuteCost.
TheoreticalCost(w, x) ==
    IF x \in Volumes THEN StorageCost ELSE IF active[w] THEN ComputeCost ELSE 0

Recorded(x, m) == \E r \in records : r.resource = x /\ r.minute = m

\* The apps are charged before the volumes are read.
MayCharge(w, x) ==
    /\ pc[w] = "Charge" /\ x \in todo[w] /\ tx[w] = NoTx
    /\ x \in Volumes => todo[w] \cap Apps = {}

\* clampComputeCharge; storage may put the account into debt.
ChargedCredits(x, cost) ==
    IF x \in Volumes THEN cost
    ELSE IF cost <= 0 \/ balance <= 0 THEN 0
    ELSE IF cost < balance THEN cost ELSE balance

\* Mutant: the record is inserted whatever is there.
NeverDuplicate(w, x) == FALSE
\* ON CONFLICT DO NOTHING.
Duplicate(w, x) == Recorded(x, Head(periods[w]))

\* recordUsageCharge up to the locked read.  The insert of a key that an open
\* transaction has inserted waits for its end; LockAccount stands for both.
BeginCharge(w, x) ==
    /\ MayCharge(w, x)
    /\ ~Duplicate(w, x)
    /\ Open(w, "UsageCharge", <<x, Head(periods[w])>>,
            -ChargedCredits(x, TheoreticalCost(w, x)))
    /\ UNCHANGED <<now, prices, running, balance, ledger, records, voucher, cursor,
                   first, workerVars, spent, crashes>>

\* The rest of the transaction; nothing is booked when nothing is charged.
CommitCharge(w) ==
    /\ tx[w] # NoTx
    /\ records' = records \cup {[resource |-> tx[w].ref[1], minute |-> tx[w].ref[2],
                                 charged |-> -tx[w].amount]}
    /\ IF tx[w].amount = 0 THEN UNCHANGED <<balance, ledger>> ELSE Write(w)
    /\ todo' = [todo EXCEPT ![w] = @ \ {tx[w].ref[1]}]
    /\ tx' = [tx EXCEPT ![w] = NoTx]
    /\ UNCHANGED <<now, prices, running, voucher, cursor, first, pc, periods, active,
                   spent, crashes>>

SkipCharge(w, x) ==
    /\ MayCharge(w, x)
    /\ LockAccount
    /\ Duplicate(w, x)
    /\ todo' = [todo EXCEPT ![w] = @ \ {x}]
    /\ UNCHANGED <<now, prices, running, balance, ledger, records, voucher, cursor,
                   first, pc, periods, active, tx, spent, crashes>>

\* Mutant: the run ends without writing the cursor.
CompleteNothing(w) ==
    /\ pc[w] = "Charge" /\ todo[w] = {} /\ tx[w] = NoTx
    /\ pc' = [pc EXCEPT ![w] = "Idle"]
    /\ UNCHANGED <<now, prices, running, balance, ledger, records, voucher, cursor,
                   first, periods, todo, active, tx, spent, crashes>>
\* Mutant: the cursor is moved to the end of the run at its first minute.
CompleteRun(w) ==
    /\ pc[w] = "Charge" /\ todo[w] = {} /\ tx[w] = NoTx
    /\ cursor' = periods[w][Len(periods[w])]
    /\ periods' = [periods EXCEPT ![w] = Tail(@)]
    /\ pc' = [pc EXCEPT ![w] = IF Len(periods[w]) = 1 THEN "Idle" ELSE "Read"]
    /\ active' = [active EXCEPT ![w] = FALSE]
    /\ UNCHANGED <<now, prices, running, balance, ledger, records, voucher, first, todo,
                   tx, spent, crashes>>
\* The upsert of lastCompletedPeriodEnd, whatever it holds by now.
CompletePeriod(w) ==
    /\ pc[w] = "Charge" /\ todo[w] = {} /\ tx[w] = NoTx
    /\ cursor' = Head(periods[w])
    /\ periods' = [periods EXCEPT ![w] = Tail(@)]
    /\ pc' = [pc EXCEPT ![w] = IF Len(periods[w]) = 1 THEN "Idle" ELSE "Read"]
    /\ active' = [active EXCEPT ![w] = FALSE]
    /\ UNCHANGED <<now, prices, running, balance, ledger, records, voucher, first, todo,
                   tx, spent, crashes>>

\* The process dies; its transaction is rolled back.
Crash(w) ==
    /\ crashes < MaxCrashes /\ pc[w] # "Idle"
    /\ crashes' = crashes + 1
    /\ pc' = [pc EXCEPT ![w] = "Idle"]
    /\ periods' = [periods EXCEPT ![w] = <<>>]
    /\ todo' = [todo EXCEPT ![w] = {}]
    /\ active' = [active EXCEPT ![w] = FALSE]
    /\ tx' = [tx EXCEPT ![w] = NoTx]
    /\ UNCHANGED <<now, prices, running, balance, ledger, records, voucher, cursor,
                   first, spent>>

-----------------------------------------------------------------------------
\* A minute closes.
Tick ==
    /\ now < MaxMinute
    /\ now' = now + 1
    /\ UNCHANGED <<prices, running, balance, ledger, records, voucher, cursor, first,
                   workerVars, tx, spent, crashes>>

\* A runtime operation stops the apps.
AppsStop ==
    /\ running /\ running' = FALSE
    /\ UNCHANGED <<now, prices, balance, ledger, records, voucher, cursor, first,
                   workerVars, tx, spent, crashes>>

WorkerStep(w) ==
    \/ StartRun(w) \/ ReadPeriod(w) \/ CommitCharge(w) \/ CompletePeriod(w)
    \/ \E x \in Resources : BeginCharge(w, x) \/ SkipCharge(w, x)

Next ==
    \/ \E w \in Workers : WorkerStep(w) \/ Crash(w)
    \/ \E r \in Requests : \/ MutateBalance(r) \/ CommitRequest(r)
                           \/ \E v \in Vouchers : RedeemVoucher(r, v)
    \/ \E v \in Vouchers : CreateVoucher(v) \/ DisableVoucher(v) \/ VoucherExpires(v)
    \/ \E m \in 0 .. MaxMinute - 1 : CreatePriceList(m)
    \/ Tick \/ AppsStop

Spec == Init /\ [][Next]_vars

\* setInterval starts the next run; a transaction that was opened ends; a minute
\* passes; an administrator creates a first price list.
FairSpec ==
    /\ Spec
    /\ WF_vars(Tick) /\ WF_vars(CreatePriceList(0))
    /\ \A w \in Workers : WF_vars(WorkerStep(w))
    /\ \A r \in Requests : WF_vars(CommitRequest(r))

-----------------------------------------------------------------------------
\* The types of the variables.
TypeOK ==
    /\ now \in Minutes /\ prices \in SUBSET (0 .. MaxMinute) /\ running \in BOOLEAN
    /\ balance \in Int /\ ledger \in Seq(Entries)
    /\ records \in SUBSET [resource : Resources, minute : Minutes, charged : Nat]
    /\ voucher \in [Vouchers -> {"None", "Active", "Expired", "Redeemed", "Disabled"}]
    /\ cursor \in 0 .. MaxMinute /\ first \in 0 .. MaxMinute
    /\ pc \in [Workers -> {"Idle", "Read", "Charge"}]
    /\ periods \in [Workers -> Seq(Minutes)]
    /\ todo \in [Workers -> SUBSET Resources] /\ active \in [Workers -> BOOLEAN]
    /\ tx \in [Actors -> Transactions \cup {NoTx}]
    /\ spent \in SUBSET Requests /\ crashes \in 0 .. MaxCrashes

\* The ledger explains the balance: each transaction starts from the balance the
\* one before it left, and the account holds what the last one left.
LedgerExplainsBalance ==
    /\ \A i \in 1 .. Len(ledger) - 1 : ledger[i + 1].before = ledger[i].after
    /\ balance = IF ledger = <<>> THEN InitialBalance ELSE ledger[Len(ledger)].after

\* No minute of a resource, no voucher and no request is booked twice, however
\* many workers reconcile, crash and reconcile again.
BookedOnce ==
    \A i, j \in DOMAIN ledger : ledger[i].ref = ledger[j].ref => i = j

\* From the last minute a worker picked with no cursor, every minute up to
\* lastCompletedPeriodEnd has a usage record of every resource: a slow worker may
\* move the cursor back, and no run moves it over a minute that was not charged.
\* (Before that minute there may be a gap: two workers that find no cursor in
\* different minutes each pick their own, and the minutes between are nobody's.)
NoMinuteSkipped ==
    \A m \in Minutes : first # 0 /\ first <= m /\ m <= cursor =>
        \A x \in Resources : Recorded(x, m)

\* A compute charge is clamped to the balance it is booked against, not to the one
\* the run read at its start: it never puts the account into debt.
ComputeMakesNoDebt ==
    \A i \in DOMAIN ledger :
        ledger[i].type = "UsageCharge" /\ ledger[i].ref[1] \in Apps => ledger[i].after >= 0

\* A voucher is spent exactly when it says so: a disabled or expired one has paid
\* nothing, a redeemed one has paid.
VoucherTellsTheLedger ==
    \A v \in Vouchers : voucher[v] = "Redeemed" <=> \E i \in DOMAIN ledger : ledger[i].ref = v

\* The ledger explains the balance, nothing is booked twice, compute makes no debt, and
\* the status of a voucher tells whether it was paid out (BillingService,
\* BillingUsageService).
LedgerSafety ==
    /\ TypeOK
    /\ LedgerExplainsBalance
    /\ BookedOnce
    /\ ComputeMakesNoDebt
    /\ VoucherTellsTheLedger

\* Workers catch up: whatever crashes and whichever worker moves the cursor back,
\* in the end the cursor stays at the last closed minute.
CatchesUp == <>[](cursor = MaxMinute)
=============================================================================
