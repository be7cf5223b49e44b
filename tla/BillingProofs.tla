--------------------------- MODULE BillingProofs ----------------------------
(***************************************************************************)
(* Proofs about the account of a tenant, for every number of resources,    *)
(* workers, requests, vouchers, minutes and crashes.                       *)
(*                                                                         *)
(* The argument: the row of the account is locked from the reading of the  *)
(* balance to its writing, so an open transaction knows the balance and    *)
(* the records as they are; and a worker has what it needs to move the     *)
(* cursor on, wherever the cursor was moved to meanwhile.                  *)
(***************************************************************************)
EXTENDS Billing, TLAPS

\* The account is locked by the transaction that is open, which knows its balance.
Locked ==
    /\ \A a, b \in Actors : tx[a] # NoTx /\ tx[b] # NoTx => a = b
    /\ \A a \in Actors : tx[a] # NoTx => tx[a].before = balance

\* What a request has opened is not in the ledger.
Asked(r) ==
    tx[r] # NoTx =>
        /\ r \in spent
        /\ tx[r].type # "UsageCharge"
        /\ tx[r].type = "VoucherRedeem" => tx[r].ref \in Vouchers /\ voucher[tx[r].ref] = "Active"
        /\ tx[r].type # "VoucherRedeem" => tx[r].ref = r

\* Nor is the charge that a worker has opened; if it is of an app, the account has it.
Charging(w) ==
    tx[w] # NoTx =>
        /\ pc[w] = "Charge" /\ tx[w].type = "UsageCharge" /\ tx[w].amount <= 0
        /\ tx[w].ref \in Charges /\ tx[w].ref[2] = Head(periods[w])
        /\ ~Recorded(tx[w].ref[1], tx[w].ref[2])
        /\ tx[w].ref[1] \in Apps /\ tx[w].amount # 0 => tx[w].before + tx[w].amount >= 0

\* What is in the ledger cannot be opened again.
Booked(e) ==
    /\ e.type = "UsageCharge" => e.ref \in Charges /\ Recorded(e.ref[1], e.ref[2])
    /\ e.type = "VoucherRedeem" => e.ref \in Vouchers /\ voucher[e.ref] = "Redeemed"
    /\ e.type \notin {"UsageCharge", "VoucherRedeem"} =>
          e.ref \in Requests /\ e.ref \in spent /\ tx[e.ref] = NoTx

LedgerInv ==
    /\ Locked
    /\ \A r \in Requests : Asked(r)
    /\ \A w \in Workers : Charging(w)
    /\ \A i \in DOMAIN ledger : Booked(ledger[i])
    /\ LedgerExplainsBalance
    /\ BookedOnce
    /\ ComputeMakesNoDebt
    /\ VoucherTellsTheLedger

\* Every resource has its record of the minutes from the first one up to m.
CoveredTo(m) == \A k \in Minutes : first # 0 /\ first <= k /\ k <= m => \A x \in Resources : Recorded(x, k)

\* The minutes of a run follow each other and have closed; those before them have records,
\* and so has what was charged of the one at hand.
Run(w) ==
    pc[w] # "Idle" =>
        /\ first # 0 /\ periods[w] # <<>>
        /\ \A i \in 1 .. Len(periods[w]) : periods[w][i] = periods[w][1] + i - 1 /\ periods[w][i] <= now
        /\ CoveredTo(periods[w][1] - 1)
        /\ pc[w] = "Charge" => \A x \in Resources \ todo[w] : Recorded(x, periods[w][1])

RunInv ==
    /\ \A w \in Workers : Run(w)
    /\ CoveredTo(cursor)
    /\ cursor # 0 => first # 0

IInv == TypeOK /\ LedgerInv /\ RunInv

-----------------------------------------------------------------------------
(* Sequences of minutes *)

LEMMA SeqOfMinutes ==
    ASSUME NEW s \in Seq(Minutes), s # <<>>
    PROVE  /\ Len(s) \in Nat \ {0} /\ Head(s) = s[1]
           /\ \A i \in 1 .. Len(s) : s[i] \in Minutes /\ s[i] \in Int
           /\ s[1] \in Minutes /\ s[1] \in Int
           /\ Tail(s) \in Seq(Minutes) /\ Len(Tail(s)) = Len(s) - 1
           /\ \A i \in 1 .. Len(s) - 1 : Tail(s)[i] = s[i + 1]
           /\ Len(s) # 1 => Tail(s) # <<>>
<1>1. Len(s) \in Nat \ {0} /\ \A i \in 1 .. Len(s) : s[i] \in Minutes
  OBVIOUS
<1>2. Head(s) = s[1] /\ Tail(s) \in Seq(Minutes) /\ Len(Tail(s)) = Len(s) - 1
  OBVIOUS
<1>3. \A i \in 1 .. Len(s) - 1 : Tail(s)[i] = s[i + 1]
  OBVIOUS
<1>4. \A m \in Minutes : m \in Int
  BY DEF Minutes
<1>5. Len(s) # 1 => Tail(s) # <<>>
  <2> SUFFICES ASSUME Tail(s) = <<>> PROVE Len(s) = 1
    OBVIOUS
  <2>0. \A q : q = <<>> => Len(q) = 0
    OBVIOUS
  <2>1. Len(Tail(s)) = 0
    BY <2>0, Zenon
  <2> QED
    BY <2>1, <1>1, <1>2
<1>6. 1 \in 1 .. Len(s)
  BY <1>1
<1> QED
  BY <1>1, <1>2, <1>3, <1>4, <1>5, <1>6

-----------------------------------------------------------------------------
(* Frames: what a step leaves alone *)

\* A step that may only add records, close minutes and strike off what has a record
\* disturbs no run.
LEMMA RunFrame ==
    ASSUME TypeOK, RunInv, UNCHANGED <<first, cursor, pc, periods>>,
           \A w \in Workers : pc[w] = "Charge" =>
              \A x \in todo[w] \ todo'[w] : Recorded(x, periods[w][1])',
           records \subseteq records', now' \in Nat, now <= now'
    PROVE  RunInv'
<1>1. \A x, m : Recorded(x, m) => Recorded(x, m)'
  BY DEF Recorded
<1>2. ASSUME NEW m \in Int, CoveredTo(m) PROVE CoveredTo(m)'
  BY <1>1, <1>2 DEF CoveredTo
<1>3. ASSUME NEW w \in Workers PROVE Run(w)'
  <2> SUFFICES ASSUME pc[w] # "Idle" PROVE Run(w)'
    BY DEF Run
  <2>1. Run(w) /\ periods[w] \in Seq(Minutes) /\ periods[w] # <<>>
    BY DEF RunInv, TypeOK, Run
  <2>2. periods[w][1] - 1 \in Int /\ \A i \in 1 .. Len(periods[w]) : periods[w][i] \in Int
    BY <2>1, SeqOfMinutes
  <2>3. CoveredTo(periods[w][1] - 1)'
    BY <2>1, <2>2, <1>2 DEF Run
  <2>4. \A i \in 1 .. Len(periods[w]) : periods[w][i] <= now /\ now <= now' /\ now \in Int /\ now' \in Int
    BY <2>1 DEF Run, TypeOK, Minutes
  <2>5. \A i \in 1 .. Len(periods[w]) : periods[w][i] <= now'
    BY <2>2, <2>4
  <2> QED
    BY <2>1, <2>3, <2>5, <1>1 DEF Run
<1>4. CoveredTo(cursor)'
  BY <1>2 DEF RunInv, TypeOK
<1> QED
  BY <1>3, <1>4 DEF RunInv

\* A step of a worker that has no transaction leaves the account alone.
LEMMA LedgerFrame ==
    ASSUME LedgerInv, UNCHANGED <<balance, ledger, records, voucher, tx, spent>>,
           \A w \in Workers : tx[w] # NoTx => pc'[w] = pc[w] /\ Head(periods'[w]) = Head(periods[w])
    PROVE  LedgerInv'
<1>1. \A w \in Workers : Charging(w)'
  BY DEF LedgerInv, Charging, Recorded
<1>2. \A r \in Requests : Asked(r)'
  BY DEF LedgerInv, Asked
<1>3. \A i \in DOMAIN ledger' : Booked(ledger[i])'
  BY DEF LedgerInv, Booked, Recorded
<1> QED
  BY <1>1, <1>2, <1>3 DEF LedgerInv, Locked, LedgerExplainsBalance, BookedOnce,
     ComputeMakesNoDebt,
                          VoucherTellsTheLedger

-----------------------------------------------------------------------------
(* Transactions *)

LEMMA InitIInv == ASSUME BillingAssumption, Init PROVE IInv
<1>1. TypeOK
  BY DEF BillingAssumption, Init, TypeOK, Minutes
<1>2. LedgerInv
  <2>1. \A a \in Actors : tx[a] = NoTx
    BY DEF Init
  <2>2. ledger = <<>> /\ DOMAIN ledger = {} /\ 1 .. Len(ledger) - 1 = {}
    BY DEF Init
  <2> QED
    BY <2>1, <2>2 DEF Init, LedgerInv, Locked, Asked, Charging, Actors, LedgerExplainsBalance,
       BookedOnce,
                      ComputeMakesNoDebt, VoucherTellsTheLedger
<1>3. RunInv
  BY DEF Init, RunInv, Run, CoveredTo
<1> QED
  BY <1>1, <1>2, <1>3 DEF IInv

\* The transaction t that a opens reads the balance as it is, and is the only one.
LEMMA OpenStep ==
    ASSUME BillingAssumption, IInv, NEW a \in Actors, NEW type \in Types, NEW ref \in Refs,
           NEW amount \in Int, Open(a, type, ref, amount)
    PROVE  /\ tx' \in [Actors -> Transactions \cup {NoTx}]
           /\ \A b \in Actors : b # a => tx'[b] = NoTx
           /\ tx'[a] # NoTx /\ tx'[a].type = type /\ tx'[a].ref = ref /\ tx'[a].amount = amount
           /\ tx'[a].before = balance
           /\ \A b \in Actors : tx[b] = NoTx
<1> DEFINE t == [type |-> type, ref |-> ref, amount |-> amount, before |-> balance]
<1>1. t \in Transactions /\ t # NoTx
  BY DEF IInv, TypeOK, Transactions, BillingAssumption
<1>2. tx' = [tx EXCEPT ![a] = t] /\ \A b \in Actors : tx[b] = NoTx
  BY DEF Open, LockAccount
<1>3. tx'[a] = t /\ \A b \in Actors : b # a => tx'[b] = NoTx
  BY <1>2 DEF IInv, TypeOK
<1>4. t.type = type /\ t.ref = ref /\ t.amount = amount /\ t.before = balance
  OBVIOUS
<1>5. tx' \in [Actors -> Transactions \cup {NoTx}]
  BY <1>1, <1>2 DEF IInv, TypeOK
<1> QED
  BY <1>1, <1>2, <1>3, <1>4, <1>5

\* Opening a transaction keeps what the ledger says.
LEMMA OpenLedger ==
    ASSUME BillingAssumption, IInv, NEW a \in Actors, UNCHANGED <<balance, ledger, records, voucher>>,
           \A b \in Actors : tx[b] = NoTx, \A b \in Actors : b # a => tx'[b] = NoTx,
           tx'[a].before = balance, spent \subseteq spent',
           \A r \in Requests : r = a => Asked(r)' /\ a \notin spent,
           \A w \in Workers : w = a => Charging(w)'
    PROVE  LedgerInv'
<1>1. Locked'
  BY DEF Locked
<1>2. \A r \in Requests : Asked(r)'
  BY DEF Asked, Actors
<1>3. \A w \in Workers : Charging(w)'
  BY DEF Charging, Actors
<1>4. \A i \in DOMAIN ledger' : Booked(ledger[i])'
  BY DEF IInv, LedgerInv, Booked, Recorded, Actors, BillingAssumption
<1> QED
  BY <1>1, <1>2, <1>3, <1>4 DEF IInv, LedgerInv, LedgerExplainsBalance, BookedOnce,
     ComputeMakesNoDebt,
                                VoucherTellsTheLedger

\* Only the open transaction's own references are new: what it books is not in the ledger.
LEMMA NewRef ==
    ASSUME BillingAssumption, IInv, NEW a \in Actors, tx[a] # NoTx, NEW i \in DOMAIN ledger
    PROVE  ledger[i].ref # tx[a].ref
<1>0. ledger[i] \in Entries /\ Booked(ledger[i])
  BY DEF IInv, TypeOK, LedgerInv
<1>1. CASE a \in Requests
  <2>1. Asked(a)
    BY <1>1 DEF IInv, LedgerInv
  <2>2. CASE tx[a].type = "VoucherRedeem"
    <3>1. tx[a].ref \in Vouchers /\ voucher[tx[a].ref] = "Active"
      BY <2>1, <2>2 DEF Asked
    <3>2. \A j \in DOMAIN ledger : ledger[j].ref # tx[a].ref
      BY <3>1 DEF IInv, LedgerInv, VoucherTellsTheLedger
    <3> QED
      BY <3>2
  <2>3. CASE tx[a].type # "VoucherRedeem"
    <3>1. tx[a].ref = a
      BY <2>1, <2>3 DEF Asked
    <3> QED
      BY <1>0, <1>1, <3>1 DEF Booked, BillingAssumption, Entries, Types
  <2> QED
    BY <2>2, <2>3
<1>2. CASE a \in Workers
  <2>1. tx[a].ref \in Charges /\ ~Recorded(tx[a].ref[1], tx[a].ref[2])
    BY <1>2 DEF IInv, LedgerInv, Charging
  <2> QED
    BY <1>0, <2>1 DEF Booked, BillingAssumption
<1> QED
  BY <1>1, <1>2 DEF Actors

\* Writing the open transaction to the ledger explains the balance and books nothing twice.
LEMMA WriteStep ==
    ASSUME BillingAssumption, IInv, NEW a \in Actors, tx[a] # NoTx, Write(a)
    PROVE  LET e == [type |-> tx[a].type, ref |-> tx[a].ref, before |-> tx[a].before,
                     after |-> tx[a].before + tx[a].amount] IN
           /\ e \in Entries /\ balance' \in Int /\ ledger' \in Seq(Entries)
           /\ DOMAIN ledger' = DOMAIN ledger \cup {Len(ledger) + 1}
           /\ \A i \in DOMAIN ledger : ledger'[i] = ledger[i]
           /\ ledger'[Len(ledger) + 1] = e
           /\ Len(ledger) + 1 \notin DOMAIN ledger
           /\ LedgerExplainsBalance'
           /\ BookedOnce'
<1> DEFINE e == [type |-> tx[a].type, ref |-> tx[a].ref, before |-> tx[a].before,
                 after |-> tx[a].before + tx[a].amount]
<1>1. tx[a] \in Transactions /\ tx[a].before = balance /\ ledger \in Seq(Entries)
  BY DEF IInv, TypeOK, LedgerInv, Locked
<1>2. e \in Entries /\ e.ref = tx[a].ref /\ e.before = balance /\ e.after = tx[a].before + tx[a].amount
  BY <1>1 DEF Transactions, Entries
<1>3. balance' = e.after /\ ledger' = Append(ledger, e)
  BY <1>2 DEF Write
<1> HIDE DEF e
<1>4. /\ ledger' \in Seq(Entries) /\ Len(ledger') = Len(ledger) + 1
      /\ \A i \in 1 .. Len(ledger) : ledger'[i] = ledger[i]
      /\ ledger'[Len(ledger) + 1] = e /\ Len(ledger) \in Nat
  BY <1>1, <1>2, <1>3
<1>5. /\ DOMAIN ledger = 1 .. Len(ledger) /\ DOMAIN ledger' = 1 .. Len(ledger) + 1
      /\ ledger' # <<>> /\ (ledger = <<>> <=> Len(ledger) = 0)
  BY <1>1, <1>4
<1>6. LedgerExplainsBalance'
  <2>1. ASSUME NEW i \in 1 .. Len(ledger') - 1 PROVE ledger'[i + 1].before = ledger'[i].after
    <3>1. CASE i < Len(ledger)
      <4>1. i \in 1 .. Len(ledger) - 1 /\ i + 1 \in 1 .. Len(ledger) /\ i \in 1 .. Len(ledger)
        BY <3>1, <1>4
      <4> QED
        BY <4>1, <1>4 DEF IInv, LedgerInv, LedgerExplainsBalance
    <3>2. CASE i = Len(ledger)
      <4>1. i \in 1 .. Len(ledger) /\ ledger # <<>>
        BY <3>2, <1>4, <1>5
      <4> QED
        BY <4>1, <3>2, <1>2, <1>4 DEF IInv, LedgerInv, LedgerExplainsBalance
    <3> QED
      BY <3>1, <3>2, <1>4
  <2> QED
    BY <2>1, <1>3, <1>4, <1>5 DEF LedgerExplainsBalance
<1>7. BookedOnce'
  <2>1. \A i \in 1 .. Len(ledger) : ledger'[i].ref = ledger[i].ref /\ ledger[i].ref # e.ref
    BY <1>2, <1>4, <1>5, NewRef
  <2> QED
    BY <2>1, <1>4, <1>5 DEF IInv, LedgerInv, BookedOnce
<1>8. DOMAIN ledger' = DOMAIN ledger \cup {Len(ledger) + 1} /\ Len(ledger) + 1 \notin DOMAIN ledger
  BY <1>4, <1>5
<1> QED
  BY <1>2, <1>3, <1>4, <1>5, <1>6, <1>7, <1>8 DEF e

-----------------------------------------------------------------------------
(* Requests *)

LEMMA RequestBegins ==
    ASSUME BillingAssumption, IInv, NEW r \in Requests
    PROVE  /\ MutateBalance(r) => IInv'
           /\ \A v \in Vouchers : RedeemVoucher(r, v) => IInv'
<1>0. r \in Actors /\ r \notin Workers
  BY DEF Actors, BillingAssumption
<1>1. ASSUME MutateBalance(r) PROVE IInv'
  <2> PICK type \in {"Payment", "Refund", "Correction"}, x \in Amounts \cup {-n : n \in Amounts} :
         Open(r, type, r, IF type = "Correction" \/ x > 0 THEN x ELSE -x)
    BY <1>1 DEF MutateBalance
  <2> DEFINE amount == IF type = "Correction" \/ x > 0 THEN x ELSE -x
  <2>1. x \in Int /\ amount \in Int /\ type \in Types /\ r \in Refs
    BY DEF BillingAssumption, Types, Refs
  <2>2. /\ tx' \in [Actors -> Transactions \cup {NoTx}]
        /\ \A b \in Actors : b # r => tx'[b] = NoTx
        /\ tx'[r].type = type /\ tx'[r].ref = r /\ tx'[r].before = balance
        /\ \A b \in Actors : tx[b] = NoTx
    <3> HIDE DEF amount
    <3> Open(r, type, r, amount)
      BY DEF amount
    <3> QED
      BY <2>1, <1>0, OpenStep
  <2>3. Asked(r)'
    BY <1>1, <2>2 DEF Asked, MutateBalance
  <2>4. LedgerInv'
    BY <1>0, <1>1, <2>2, <2>3, OpenLedger DEF MutateBalance
  <2>5. TypeOK'
    BY <1>1, <2>2 DEF IInv, TypeOK, MutateBalance, workerVars
  <2>6. RunInv'
    BY <1>1, RunFrame DEF IInv, MutateBalance, workerVars, TypeOK, Minutes
  <2> QED
    BY <2>4, <2>5, <2>6 DEF IInv
<1>2. ASSUME NEW v \in Vouchers, RedeemVoucher(r, v) PROVE IInv'
  <2>1. "VoucherRedeem" \in Types /\ v \in Refs /\ VoucherValue \in Int
    BY DEF BillingAssumption, Types, Refs
  <2>2. /\ tx' \in [Actors -> Transactions \cup {NoTx}]
        /\ \A b \in Actors : b # r => tx'[b] = NoTx
        /\ tx'[r].type = "VoucherRedeem" /\ tx'[r].ref = v /\ tx'[r].before = balance
        /\ \A b \in Actors : tx[b] = NoTx
    BY <1>0, <1>2, <2>1, OpenStep DEF RedeemVoucher
  <2>3. Asked(r)'
    BY <1>2, <2>2 DEF Asked, RedeemVoucher
  <2>4. LedgerInv'
    BY <1>0, <1>2, <2>2, <2>3, OpenLedger DEF RedeemVoucher
  <2>5. TypeOK'
    BY <1>2, <2>2 DEF IInv, TypeOK, RedeemVoucher, workerVars
  <2>6. RunInv'
    BY <1>2, RunFrame DEF IInv, RedeemVoucher, workerVars, TypeOK, Minutes
  <2> QED
    BY <2>4, <2>5, <2>6 DEF IInv
<1> QED
  BY <1>1, <1>2

LEMMA RequestCommits ==
    ASSUME BillingAssumption, IInv, NEW r \in Requests, CommitRequest(r)
    PROVE  IInv'
<1> DEFINE e == [type |-> tx[r].type, ref |-> tx[r].ref, before |-> tx[r].before,
                 after |-> tx[r].before + tx[r].amount]
<1> DEFINE n == Len(ledger) + 1
<1>0. r \in Actors /\ r \notin Workers /\ tx[r] # NoTx /\ Write(r) /\ tx[r] \in Transactions
  BY DEF Actors, BillingAssumption, CommitRequest, IInv, TypeOK
<1>1. /\ e \in Entries /\ balance' \in Int /\ ledger' \in Seq(Entries)
      /\ DOMAIN ledger' = DOMAIN ledger \cup {n} /\ n \notin DOMAIN ledger
      /\ \A i \in DOMAIN ledger : ledger'[i] = ledger[i]
      /\ ledger'[n] = e /\ LedgerExplainsBalance' /\ BookedOnce'
  BY <1>0, WriteStep
<1>2. e.type = tx[r].type /\ e.ref = tx[r].ref /\ e.type # "UsageCharge"
  BY <1>0 DEF IInv, LedgerInv, Asked
<1> HIDE DEF e, n
<1>3. Asked(r) /\ r \in spent
  BY <1>0 DEF IInv, LedgerInv, Asked
<1>4. \A a \in Actors : tx'[a] = NoTx
  BY <1>0 DEF CommitRequest, IInv, TypeOK, LedgerInv, Locked
<1>5. \A v \in Vouchers :
         voucher'[v] = IF tx[r].type = "VoucherRedeem" /\ tx[r].ref = v THEN "Redeemed" ELSE voucher[v]
  BY <1>3 DEF CommitRequest, IInv, TypeOK, Asked
<1>6. TypeOK'
  BY <1>1, <1>3 DEF CommitRequest, IInv, TypeOK, workerVars, Asked
<1>7. ASSUME NEW i \in DOMAIN ledger' PROVE Booked(ledger[i])'
  <2>1. CASE i = n
    BY <2>1, <1>0, <1>1, <1>2, <1>3, <1>4, <1>5 DEF Booked, Asked, CommitRequest
  <2>2. CASE i # n
    <3>1. i \in DOMAIN ledger /\ ledger'[i] = ledger[i] /\ Booked(ledger[i])
      BY <2>2, <1>1 DEF IInv, LedgerInv
    <3> QED
      BY <3>1, <1>4, <1>5 DEF Booked, Recorded, CommitRequest, Actors
  <2> QED
    BY <2>1, <2>2
<1>8. VoucherTellsTheLedger'
  <2> SUFFICES ASSUME NEW v \in Vouchers
               PROVE  voucher'[v] = "Redeemed" <=> \E i \in DOMAIN ledger' : ledger'[i].ref = v
    BY DEF VoucherTellsTheLedger
  <2>1. voucher[v] = "Redeemed" <=> \E i \in DOMAIN ledger : ledger[i].ref = v
    BY DEF IInv, LedgerInv, VoucherTellsTheLedger
  <2>2. CASE tx[r].type = "VoucherRedeem"
    BY <2>1, <2>2, <1>1, <1>2, <1>5
  <2>3. CASE tx[r].type # "VoucherRedeem"
    <3>1. e.ref # v
      BY <2>3, <1>0, <1>2, <1>3 DEF Asked, BillingAssumption
    <3> QED
      BY <3>1, <2>1, <2>3, <1>1, <1>5
  <2> QED
    BY <2>2, <2>3
<1>9. ComputeMakesNoDebt'
  BY <1>1, <1>2 DEF ComputeMakesNoDebt, IInv, LedgerInv
<1>10. LedgerInv'
  BY <1>1, <1>4, <1>7, <1>8, <1>9 DEF LedgerInv, Locked, Asked, Charging, Actors
<1>11. RunInv'
  BY RunFrame DEF IInv, CommitRequest, workerVars, TypeOK, Minutes
<1> QED
  BY <1>6, <1>10, <1>11 DEF IInv

\* A voucher that is created, disabled or expires is not spent, and no open transaction spends it.
LEMMA VoucherStep ==
    ASSUME BillingAssumption, IInv, NEW v \in Vouchers,
           CreateVoucher(v) \/ DisableVoucher(v) \/ VoucherExpires(v)
    PROVE  IInv'
<1>1. /\ UNCHANGED <<now, prices, running, balance, ledger, records, cursor, first, workerVars, tx,
                     spent, crashes>>
      /\ voucher[v] # "Redeemed" /\ voucher' = [voucher EXCEPT ![v] = voucher'[v]]
      /\ voucher'[v] \in {"Active", "Disabled", "Expired"}
  BY DEF CreateVoucher, DisableVoucher, VoucherExpires, IInv, TypeOK
<1>2. \A r \in Requests : tx[r] # NoTx => voucher[tx[r].ref] # "Active" \/ tx[r].ref # v
  BY DEF CreateVoucher, DisableVoucher, VoucherExpires, VoucherLocked
<1>3. TypeOK'
  BY <1>1 DEF IInv, TypeOK, workerVars
<1>4. LedgerInv'
  <2>1. \A r \in Requests : Asked(r)'
    BY <1>1, <1>2 DEF IInv, LedgerInv, Asked, TypeOK
  <2>2. \A w \in Workers : Charging(w)'
    BY <1>1 DEF IInv, LedgerInv, Charging, Recorded, workerVars
  <2>3. \A i \in DOMAIN ledger' : Booked(ledger[i])'
    BY <1>1 DEF IInv, LedgerInv, Booked, Recorded, TypeOK
  <2>4. VoucherTellsTheLedger'
    BY <1>1 DEF IInv, LedgerInv, VoucherTellsTheLedger, TypeOK
  <2> QED
    BY <1>1, <2>1, <2>2, <2>3, <2>4
       DEF IInv, LedgerInv, Locked, LedgerExplainsBalance, BookedOnce, ComputeMakesNoDebt
<1>5. RunInv'
  BY <1>1, RunFrame DEF IInv, workerVars, TypeOK, Minutes
<1> QED
  BY <1>3, <1>4, <1>5 DEF IInv

-----------------------------------------------------------------------------
(* Workers *)

\* The minutes that a run picks are closed and follow the cursor, or are the last one.
LEMMA PickedMinutes ==
    ASSUME BillingAssumption, TypeOK, ReconciliationPeriods # <<>>
    PROVE  LET s == ReconciliationPeriods IN
           /\ s \in Seq(Minutes)
           /\ s[1] = IF cursor = 0 THEN now ELSE cursor + 1
           /\ \A i \in 1 .. Len(s) : s[i] = s[1] + i - 1 /\ s[i] <= now
<1> now \in Minutes /\ now \in Nat /\ cursor \in Nat /\ MaxBackfill \in Nat /\ MaxMinute \in Nat
  BY DEF TypeOK, Minutes, BillingAssumption
<1>1. CASE cursor = 0
  BY <1>1 DEF ReconciliationPeriods
<1>2. CASE cursor # 0
  <2> DEFINE behind == IF now > cursor THEN now - cursor ELSE 0
             n == IF behind < MaxBackfill THEN behind ELSE MaxBackfill
             s == [i \in 1 .. n |-> cursor + i]
  <2>1. ReconciliationPeriods = s /\ n \in Nat /\ n <= behind
    BY <1>2 DEF ReconciliationPeriods
  <2>2. n # 0
    <3>1. CASE n = 0
      <4>1. s = <<>>
        BY <3>1
      <4> QED
        BY <2>1, <4>1
    <3> QED
      BY <3>1
  <2>3. \A i \in 1 .. n : cursor + i \in Minutes /\ cursor + i <= now
    BY <2>1, <2>2 DEF Minutes
  <2>4. s \in [1 .. n -> Minutes]
    BY <2>3
  <2>5. s \in Seq(Minutes) /\ Len(s) = n
    BY <2>1, <2>4
  <2>6. s[1] = cursor + 1 /\ \A i \in 1 .. n : s[i] = cursor + i
    BY <2>1, <2>2
  <2> HIDE DEF s, n, behind
  <2> QED
    BY <1>2, <2>1, <2>3, <2>5, <2>6
<1> QED
  BY <1>1, <1>2

LEMMA RunStarts ==
    ASSUME BillingAssumption, IInv, NEW w \in Workers, StartRun(w)
    PROVE  IInv'
<1> DEFINE s == ReconciliationPeriods
<1>1. /\ s \in Seq(Minutes) /\ s # <<>> /\ s[1] = IF cursor = 0 THEN now ELSE cursor + 1
      /\ \A i \in 1 .. Len(s) : s[i] = s[1] + i - 1 /\ s[i] <= now
  BY PickedMinutes DEF StartRun, IInv
<1> HIDE DEF s
<1>2. /\ periods' = [periods EXCEPT ![w] = s] /\ pc' = [pc EXCEPT ![w] = "Read"] /\ pc[w] = "Idle"
      /\ UNCHANGED <<now, prices, running, balance, ledger, records, voucher, cursor, todo, active, tx,
                     spent, crashes>>
      /\ first' = IF cursor = 0 THEN now ELSE first
  BY DEF StartRun, s
<1>3. TypeOK'
  BY <1>1, <1>2 DEF IInv, TypeOK, Minutes
<1>4. LedgerInv'
  BY <1>2, LedgerFrame DEF IInv, LedgerInv, Charging, TypeOK
<1>5. now \in Nat /\ now # 0 /\ cursor \in Nat
  BY DEF IInv, TypeOK, Minutes
<1>7. CoveredTo(cursor)'
  BY <1>2, <1>5 DEF CoveredTo, Recorded, IInv, RunInv, Minutes
<1>8. ASSUME NEW v \in Workers PROVE Run(v)'
  <2>1. CASE v = w
    <3>1. periods'[v] = s /\ pc'[v] = "Read"
      BY <2>1, <1>2 DEF IInv, TypeOK
    <3>2. \A k \in Minutes : first' # 0 /\ first' <= k /\ k <= s[1] - 1 => \A x \in Resources : Recorded(x, k)'
      <4>1. CASE cursor = 0
        BY <4>1, <1>1, <1>2, <1>5 DEF Minutes
      <4>2. CASE cursor # 0
        <5>1. s[1] - 1 = cursor
          BY <4>2, <1>1, <1>5
        <5> QED
          BY <5>1, <1>2, <1>7 DEF CoveredTo
      <4> QED
        BY <4>1, <4>2
    <3>3. first' # 0
      BY <1>2, <1>5 DEF IInv, RunInv
    <3> QED
      BY <3>1, <3>2, <3>3, <1>1, <1>2 DEF Run, CoveredTo
  <2>2. CASE v # w
    <3>1. periods'[v] = periods[v] /\ pc'[v] = pc[v]
      BY <2>2, <1>2 DEF IInv, TypeOK
    <3> SUFFICES ASSUME pc[v] # "Idle" PROVE Run(v)'
      BY <3>1 DEF Run
    <3>2. Run(v) /\ periods[v] \in Seq(Minutes) /\ periods[v] # <<>> /\ first # 0
      BY DEF IInv, RunInv, TypeOK, Run
    <3>3. periods[v][1] \in Int /\ periods[v][1] <= now
      BY <3>2, SeqOfMinutes DEF Run
    <3>4. CoveredTo(periods[v][1] - 1)
      BY <3>2 DEF Run
    <3>5. \A k \in Minutes : first' # 0 /\ first' <= k /\ k <= periods[v][1] - 1 => \A x \in Resources : Recorded(x, k)'
      BY <3>2, <3>3, <3>4, <1>2, <1>5 DEF CoveredTo, Recorded, Minutes
    <3>6. first' # 0
      BY <3>2, <1>2, <1>5
    <3> QED
      BY <3>1, <3>2, <3>5, <3>6, <1>2 DEF Run, Recorded, CoveredTo
  <2> QED
    BY <2>1, <2>2
<1> QED
  BY <1>2, <1>3, <1>4, <1>5, <1>7, <1>8 DEF IInv, RunInv

LEMMA PeriodIsRead ==
    ASSUME BillingAssumption, IInv, NEW w \in Workers, ReadPeriod(w)
    PROVE  IInv'
<1>1. /\ pc[w] = "Read" /\ pc' = [pc EXCEPT ![w] = pc'[w]] /\ pc'[w] \in {"Charge", "Idle"}
      /\ todo' = [todo EXCEPT ![w] = todo'[w]] /\ todo'[w] \in SUBSET Resources
      /\ active' \in [Workers -> BOOLEAN]
      /\ pc'[w] = "Charge" => todo'[w] = Resources
      /\ UNCHANGED <<now, prices, running, balance, ledger, records, voucher, cursor, first, periods, tx,
                     spent, crashes>>
  <2>1. CASE \E m \in prices : m < Head(periods[w])
    BY <2>1 DEF ReadPeriod, IInv, TypeOK
  <2>2. CASE ~ \E m \in prices : m < Head(periods[w])
    BY <2>2 DEF ReadPeriod, IInv, TypeOK
  <2> QED
    BY <2>1, <2>2
<1>2. TypeOK'
  BY <1>1 DEF IInv, TypeOK
<1>3. LedgerInv'
  BY <1>1, LedgerFrame DEF IInv, LedgerInv, Charging, TypeOK
<1>4. \A m : CoveredTo(m)' <=> CoveredTo(m)
  BY <1>1 DEF CoveredTo, Recorded
<1>5. ASSUME NEW v \in Workers PROVE Run(v)'
  <2>1. CASE v = w
    BY <2>1, <1>1, <1>4 DEF IInv, RunInv, Run
  <2>2. CASE v # w
    <3>1. pc'[v] = pc[v] /\ todo'[v] = todo[v] /\ periods'[v] = periods[v]
      BY <2>2, <1>1 DEF IInv, TypeOK
    <3> QED
      BY <3>1, <1>1, <1>4 DEF IInv, RunInv, Run, Recorded
  <2> QED
    BY <2>1, <2>2
<1> QED
  BY <1>1, <1>2, <1>3, <1>4, <1>5 DEF IInv, RunInv

\* A charge is at most what it costs, and at most what the account has when it is of an app.
LEMMA ChargeBegins ==
    ASSUME BillingAssumption, IInv, NEW w \in Workers, NEW x \in Resources, BeginCharge(w, x)
    PROVE  IInv'
<1> DEFINE cost == TheoreticalCost(w, x)
           charge == ChargedCredits(x, cost)
<1> PICK m : m = Head(periods[w])
  OBVIOUS
<1>0. w \in Actors /\ w \notin Requests
  BY DEF Actors, BillingAssumption
<1>1. cost \in Nat
  BY DEF TheoreticalCost, BillingAssumption
<1>2. balance \in Int /\ charge \in Nat /\ -charge \in Int /\ -charge <= 0
  BY <1>1 DEF ChargedCredits, IInv, TypeOK
<1>3. x \in Apps /\ charge # 0 => balance - charge >= 0
  BY <1>1, <1>2 DEF ChargedCredits, BillingAssumption
<1>4. pc[w] = "Charge" /\ ~Recorded(x, m) /\ Open(w, "UsageCharge", <<x, m>>, -charge)
  BY DEF BeginCharge, MayCharge, Duplicate
<1>5. m \in Minutes
  <2>1. periods[w] \in Seq(Minutes) /\ periods[w] # <<>>
    BY <1>4 DEF IInv, RunInv, Run, TypeOK
  <2> QED
    BY <2>1, SeqOfMinutes
<1> HIDE DEF charge
<1>6. <<x, m>> \in Charges /\ <<x, m>> \in Refs /\ "UsageCharge" \in Types
  BY <1>5 DEF Charges, Refs, Types
<1>7. /\ tx' \in [Actors -> Transactions \cup {NoTx}]
      /\ \A b \in Actors : b # w => tx'[b] = NoTx
      /\ tx'[w].type = "UsageCharge" /\ tx'[w].ref = <<x, m>> /\ tx'[w].amount = -charge
      /\ tx'[w].before = balance
      /\ \A b \in Actors : tx[b] = NoTx
  BY <1>0, <1>2, <1>4, <1>6, OpenStep
<1>8. UNCHANGED <<now, prices, running, balance, ledger, records, voucher, cursor, first, pc, periods,
                  todo, active, spent, crashes>>
  BY DEF BeginCharge, workerVars
<1>9. Charging(w)'
  <2>1. tx'[w].ref[1] = x /\ tx'[w].ref[2] = m
    BY <1>7
  <2>2. m = Head(periods'[w]) /\ pc'[w] = "Charge" /\ ~Recorded(x, m)'
    BY <1>4, <1>8 DEF Recorded
  <2>3. x \in Apps /\ -charge # 0 => balance + (-charge) >= 0
    BY <1>2, <1>3
  <2> QED
    BY <1>2, <1>6, <1>7, <1>8, <2>1, <2>2, <2>3 DEF Charging, Recorded
<1>10. LedgerInv'
  BY <1>0, <1>7, <1>8, <1>9, OpenLedger
<1>11. TypeOK'
  BY <1>7, <1>8 DEF IInv, TypeOK
<1>12. RunInv'
  BY <1>8, RunFrame DEF IInv, TypeOK, Minutes
<1> QED
  BY <1>10, <1>11, <1>12 DEF IInv

LEMMA ChargeCommits ==
    ASSUME BillingAssumption, IInv, NEW w \in Workers, CommitCharge(w)
    PROVE  IInv'
<1> DEFINE row == [resource |-> tx[w].ref[1], minute |-> tx[w].ref[2], charged |-> -tx[w].amount]
<1> PICK x0, m0 : x0 = tx[w].ref[1] /\ m0 = tx[w].ref[2]
  OBVIOUS
<1>0. w \in Actors /\ tx[w] # NoTx /\ tx[w] \in Transactions /\ Charging(w)
  BY DEF Actors, CommitCharge, IInv, TypeOK, LedgerInv
<1>1. /\ tx[w].type = "UsageCharge" /\ tx[w].amount <= 0 /\ tx[w].amount \in Int /\ pc[w] = "Charge"
      /\ tx[w].ref \in Charges /\ tx[w].ref[2] = Head(periods[w])
      /\ tx[w].ref[1] \in Apps /\ tx[w].amount # 0 => tx[w].before + tx[w].amount >= 0
  BY <1>0 DEF Charging, Transactions
<1>2. tx[w].ref[1] \in Resources /\ tx[w].ref[2] \in Minutes
  BY <1>1 DEF Charges
<1>3. row \in [resource : Resources, minute : Minutes, charged : Nat]
  BY <1>1, <1>2
<1>4. /\ records' = records \cup {row} /\ tx' = [tx EXCEPT ![w] = NoTx]
      /\ todo' = [todo EXCEPT ![w] = @ \ {tx[w].ref[1]}]
      /\ UNCHANGED <<now, prices, running, voucher, cursor, first, pc, periods, active, spent, crashes>>
  BY DEF CommitCharge
<1>5. Recorded(x0, m0)'
  <2>1. row.resource = x0 /\ row.minute = m0
    OBVIOUS
  <2>2. row \in records'
    BY <1>4
  <2> HIDE DEF row
  <2> QED
    BY <2>1, <2>2 DEF Recorded
<1>6. \A x, m : Recorded(x, m) => Recorded(x, m)'
  BY <1>4 DEF Recorded
<1>7. \A a \in Actors : tx'[a] = NoTx
  BY <1>0, <1>4 DEF IInv, TypeOK, LedgerInv, Locked
<1> HIDE DEF row
<1>8. /\ balance' \in Int /\ ledger' \in Seq(Entries) /\ LedgerExplainsBalance' /\ BookedOnce'
      /\ \A i \in DOMAIN ledger' : Booked(ledger[i])'
      /\ ComputeMakesNoDebt' /\ VoucherTellsTheLedger'
  <2>0. ASSUME NEW i \in DOMAIN ledger, ledger'[i] = ledger[i] PROVE Booked(ledger[i])'
    <3>1. Booked(ledger[i])
      BY DEF IInv, LedgerInv
    <3> QED
      BY <2>0, <3>1, <1>4, <1>6, <1>7 DEF Booked, Actors
  <2>1. CASE tx[w].amount = 0
    <3>1. UNCHANGED <<balance, ledger>>
      BY <2>1 DEF CommitCharge
    <3> QED
      BY <3>1, <2>0, <1>4 DEF IInv, TypeOK, LedgerInv, LedgerExplainsBalance, BookedOnce,
                              ComputeMakesNoDebt, VoucherTellsTheLedger
  <2>2. CASE tx[w].amount # 0
    <3> PICK e : e = [type |-> tx[w].type, ref |-> tx[w].ref, before |-> tx[w].before,
                      after |-> tx[w].before + tx[w].amount]
      OBVIOUS
    <3> PICK n : n = Len(ledger) + 1
      OBVIOUS
    <3>1. Write(w)
      BY <2>2 DEF CommitCharge
    <3>2. /\ e \in Entries /\ balance' \in Int /\ ledger' \in Seq(Entries)
          /\ DOMAIN ledger' = DOMAIN ledger \cup {n} /\ n \notin DOMAIN ledger
          /\ \A i \in DOMAIN ledger : ledger'[i] = ledger[i]
          /\ ledger'[n] = e /\ LedgerExplainsBalance' /\ BookedOnce'
      BY <1>0, <3>1, WriteStep
    <3>3. /\ e.type = "UsageCharge" /\ e.ref = tx[w].ref /\ e.after = tx[w].before + tx[w].amount
          /\ e.ref[1] = x0 /\ e.ref[2] = m0
      BY <1>1
    <3>4. Booked(e)'
      BY <1>1, <1>5, <3>3 DEF Booked
    <3>5. ComputeMakesNoDebt'
      BY <1>1, <2>2, <3>2, <3>3 DEF ComputeMakesNoDebt, IInv, LedgerInv
    <3>6. \A v \in Vouchers : e.ref # v
      BY <1>1, <3>3 DEF BillingAssumption
    <3>7. VoucherTellsTheLedger'
      BY <1>4, <3>2, <3>6 DEF VoucherTellsTheLedger, IInv, LedgerInv
    <3>8. ASSUME NEW i \in DOMAIN ledger' PROVE Booked(ledger[i])'
      <4>1. CASE i = n
        <5>1. ledger'[i] = e
          BY <4>1, <3>2
        <5> QED
          BY <5>1, <3>4 DEF Booked, Recorded
      <4>2. CASE i # n
        BY <4>2, <3>2, <2>0
      <4> QED
        BY <4>1, <4>2
    <3> QED
      BY <3>2, <3>5, <3>7, <3>8
  <2> QED
    BY <2>1, <2>2
<1>9. TypeOK'
  BY <1>3, <1>4, <1>8 DEF IInv, TypeOK
<1>10. LedgerInv'
  BY <1>7, <1>8 DEF LedgerInv, Locked, Asked, Charging, Actors
<1>11. RunInv'
  <2>1. \A v \in Workers : \A x \in todo[v] \ todo'[v] : v = w /\ x = x0
    BY <1>4 DEF IInv, TypeOK
  <2>2. periods[w] \in Seq(Minutes) /\ periods[w] # <<>>
    BY <1>1 DEF IInv, TypeOK, RunInv, Run
  <2>3. periods'[w][1] = m0
    BY <2>2, <1>1, <1>4, SeqOfMinutes
  <2>4. \A v \in Workers : pc[v] = "Charge" =>
           \A x \in todo[v] \ todo'[v] : Recorded(x, periods[v][1])'
    BY <2>1, <2>3, <1>5 DEF Recorded
  <2> QED
    BY <2>4, <1>4, RunFrame DEF IInv, TypeOK, Minutes
<1> QED
  BY <1>9, <1>10, <1>11 DEF IInv

LEMMA ChargeIsSkipped ==
    ASSUME BillingAssumption, IInv, NEW w \in Workers, NEW x \in Resources, SkipCharge(w, x)
    PROVE  IInv'
<1>1. /\ todo' = [todo EXCEPT ![w] = @ \ {x}] /\ Recorded(x, Head(periods[w]))
      /\ UNCHANGED <<now, prices, running, balance, ledger, records, voucher, cursor, first, pc, periods,
                     active, tx, spent, crashes>>
  BY DEF SkipCharge, Duplicate
<1>2. TypeOK'
  BY <1>1 DEF IInv, TypeOK
<1>3. LedgerInv'
  BY <1>1, LedgerFrame DEF IInv
<1>4. \A v \in Workers : pc[v] = "Charge" =>
         \A y \in todo[v] \ todo'[v] : Recorded(y, periods[v][1])'
  BY <1>1 DEF IInv, TypeOK, Recorded
<1>5. RunInv'
  BY <1>1, <1>4, RunFrame DEF IInv, TypeOK, Minutes
<1> QED
  BY <1>2, <1>3, <1>5 DEF IInv

\* When everything of a minute has its record the cursor may be moved to it, and the next
\* minute of the run follows it.
LEMMA PeriodCompletes ==
    ASSUME BillingAssumption, IInv, NEW w \in Workers, CompletePeriod(w)
    PROVE  IInv'
<1> PICK s : s = periods[w]
  OBVIOUS
<1>1. /\ pc[w] = "Charge" /\ todo[w] = {} /\ tx[w] = NoTx
      /\ cursor' = Head(s) /\ periods' = [periods EXCEPT ![w] = Tail(@)]
      /\ pc' = [pc EXCEPT ![w] = IF Len(s) = 1 THEN "Idle" ELSE "Read"]
      /\ active' = [active EXCEPT ![w] = FALSE]
      /\ UNCHANGED <<now, prices, running, balance, ledger, records, voucher, first, todo, tx, spent,
                     crashes>>
  BY DEF CompletePeriod
<1>2. /\ s \in Seq(Minutes) /\ s # <<>> /\ CoveredTo(s[1] - 1)
      /\ \A i \in 1 .. Len(s) : s[i] = s[1] + i - 1 /\ s[i] <= now
      /\ \A x \in Resources : Recorded(x, s[1])
  BY <1>1 DEF IInv, RunInv, Run, TypeOK
<1>3. s[1] \in Minutes /\ Tail(s) \in Seq(Minutes) /\ Head(s) = s[1] /\ Len(s) \in Nat \ {0}
  BY <1>2
<1>4. /\ Len(Tail(s)) = Len(s) - 1 /\ \A i \in 1 .. Len(s) - 1 : Tail(s)[i] = s[i + 1]
      /\ Len(s) # 1 => Tail(s) # <<>>
  BY <1>2, SeqOfMinutes
<1>5. CoveredTo(s[1])
  BY <1>2, <1>3 DEF CoveredTo, Minutes
<1>6. TypeOK'
  BY <1>1, <1>3 DEF IInv, TypeOK, Minutes
<1>7. LedgerInv'
  BY <1>1, LedgerFrame DEF IInv, TypeOK
<1>8. \A m : CoveredTo(m)' <=> CoveredTo(m)
  BY <1>1 DEF CoveredTo, Recorded
<1>9. CoveredTo(cursor)'
  BY <1>1, <1>3, <1>5 DEF CoveredTo, Recorded
<1>10. cursor' # 0 => first' # 0
  <2>1. first # 0
    BY <1>1 DEF IInv, RunInv, Run
  <2> QED
    BY <1>1, <2>1
<1>11. ASSUME NEW v \in Workers PROVE Run(v)'
  <2>1. CASE v = w
    <3>1. CASE Len(s) = 1
      BY <2>1, <3>1, <1>1 DEF IInv, TypeOK, Run
    <3>2. CASE Len(s) # 1
      <4>1. periods'[v] = Tail(s) /\ pc'[v] = "Read" /\ Len(s) - 1 \in Nat \ {0}
        BY <2>1, <3>2, <1>1, <1>3 DEF IInv, TypeOK
      <4>2. Tail(s) # <<>> /\ Tail(s)[1] = s[1] + 1
        <5>0. Len(s) \in Int /\ Len(s) >= 2
          <6>1. Len(s) \in Nat \ {0}
            BY <1>2, SeqOfMinutes
          <6>2. \A k \in Nat \ {0} : k # 1 => k \in Int /\ k >= 2
            OBVIOUS
          <6> QED
            BY <6>1, <6>2, <3>2, Zenon
        <5>1. 1 \in 1 .. Len(s) - 1 /\ 2 \in 1 .. Len(s) /\ s[1] \in Int
          BY <5>0, <1>2, SeqOfMinutes
        <5>2. Tail(s)[1] = s[2] /\ s[2] = s[1] + 2 - 1
          BY <5>1, <1>2, <1>4
        <5> QED
          BY <5>1, <5>2, <3>2, <1>4
      <4>3. ASSUME NEW i \in 1 .. Len(Tail(s))
            PROVE  Tail(s)[i] = Tail(s)[1] + i - 1 /\ Tail(s)[i] <= now
        <5>1. i \in 1 .. Len(s) - 1 /\ i + 1 \in 1 .. Len(s) /\ s[1] \in Int
          BY <4>1, <1>3, <1>4 DEF Minutes
        <5>2. Tail(s)[i] = s[i + 1] /\ s[i + 1] = s[1] + (i + 1) - 1 /\ s[i + 1] <= now
          BY <5>1, <1>2, <1>4
        <5> QED
          BY SMTT(30), <5>1, <5>2, <4>2
      <4>4. Tail(s)[1] - 1 = s[1]
        BY <4>2, <1>3 DEF Minutes
      <4>5. first' # 0
        BY <1>1 DEF IInv, RunInv, Run
      <4> QED
        BY <4>1, <4>2, <4>3, <4>4, <4>5, <1>1, <1>5, <1>8 DEF Run
    <3> QED
      BY <3>1, <3>2
  <2>2. CASE v # w
    <3>1. pc'[v] = pc[v] /\ periods'[v] = periods[v]
      BY <2>2, <1>1 DEF IInv, TypeOK
    <3> QED
      BY <3>1, <1>1, <1>8 DEF IInv, RunInv, Run, Recorded
  <2> QED
    BY <2>1, <2>2
<1> QED
  BY <1>6, <1>7, <1>9, <1>10, <1>11 DEF IInv, RunInv

LEMMA WorkerDies ==
    ASSUME BillingAssumption, IInv, NEW w \in Workers, Crash(w)
    PROVE  IInv'
<1>0. w \in Actors /\ w \notin Requests
  BY DEF Actors, BillingAssumption
<1>1. /\ pc' = [pc EXCEPT ![w] = "Idle"] /\ periods' = [periods EXCEPT ![w] = <<>>]
      /\ todo' = [todo EXCEPT ![w] = {}] /\ active' = [active EXCEPT ![w] = FALSE]
      /\ tx' = [tx EXCEPT ![w] = NoTx] /\ crashes' = crashes + 1 /\ crashes < MaxCrashes
      /\ UNCHANGED <<now, prices, running, balance, ledger, records, voucher, cursor, first, spent>>
  BY DEF Crash
<1>2. TypeOK'
  <2>1. crashes' \in 0 .. MaxCrashes
    BY <1>1 DEF IInv, TypeOK, BillingAssumption
  <2>2. periods' \in [Workers -> Seq(Minutes)] /\ pc' \in [Workers -> {"Idle", "Read", "Charge"}]
    BY <1>1 DEF IInv, TypeOK
  <2>3. tx' \in [Actors -> Transactions \cup {NoTx}] /\ todo' \in [Workers -> SUBSET Resources]
        /\ active' \in [Workers -> BOOLEAN]
    BY <1>1 DEF IInv, TypeOK
  <2> QED
    BY <1>1, <2>1, <2>2, <2>3 DEF IInv, TypeOK
<1>3. \A a \in Actors : tx'[a] = IF a = w THEN NoTx ELSE tx[a]
  BY <1>0, <1>1 DEF IInv, TypeOK
<1>4. LedgerInv'
  <2>1. Locked'
    BY <1>1, <1>3 DEF IInv, LedgerInv, Locked
  <2>2. \A r \in Requests : Asked(r)'
    BY <1>0, <1>1, <1>3 DEF IInv, LedgerInv, Asked, Actors
  <2>3. ASSUME NEW v \in Workers PROVE Charging(v)'
    <3>1. v # w => pc'[v] = pc[v] /\ periods'[v] = periods[v]
      BY <1>1 DEF IInv, TypeOK
    <3> QED
      BY <3>1, <1>1, <1>3 DEF IInv, LedgerInv, Charging, Recorded, Actors
  <2>4. \A i \in DOMAIN ledger' : Booked(ledger[i])'
    BY <1>0, <1>1, <1>3 DEF IInv, LedgerInv, Booked, Recorded, Actors
  <2> QED
    BY <1>1, <2>1, <2>2, <2>3, <2>4 DEF IInv, LedgerInv, LedgerExplainsBalance, BookedOnce,
                                        ComputeMakesNoDebt, VoucherTellsTheLedger
<1>5. \A m : CoveredTo(m)' <=> CoveredTo(m)
  BY <1>1 DEF CoveredTo, Recorded
<1>6. ASSUME NEW v \in Workers PROVE Run(v)'
  <2>1. pc'[v] = (IF v = w THEN "Idle" ELSE pc[v]) /\ (v # w => periods'[v] = periods[v] /\ todo'[v] = todo[v])
    BY <1>1 DEF IInv, TypeOK
  <2> QED
    BY <2>1, <1>1, <1>5 DEF IInv, RunInv, Run, Recorded
<1> QED
  BY <1>1, <1>2, <1>4, <1>5, <1>6 DEF IInv, RunInv

-----------------------------------------------------------------------------
(* The theorems *)

LEMMA NextIInv == ASSUME BillingAssumption, IInv, [Next]_vars PROVE IInv'
<1>1. ASSUME NEW w \in Workers, WorkerStep(w) PROVE IInv'
  BY <1>1, RunStarts, PeriodIsRead, ChargeCommits, PeriodCompletes, ChargeBegins, ChargeIsSkipped
     DEF WorkerStep
<1>2. ASSUME NEW m \in 0 .. MaxMinute - 1, CreatePriceList(m) PROVE IInv'
  <2>1. TypeOK'
    BY <1>2 DEF CreatePriceList, IInv, TypeOK, workerVars, BillingAssumption
  <2>2. LedgerInv'
    BY <1>2, LedgerFrame DEF CreatePriceList, IInv, workerVars
  <2>3. RunInv'
    BY <1>2, RunFrame DEF CreatePriceList, IInv, workerVars, TypeOK, Minutes
  <2> QED
    BY <2>1, <2>2, <2>3 DEF IInv
<1>3. ASSUME Tick PROVE IInv'
  <2>1. TypeOK'
    BY <1>3 DEF Tick, IInv, TypeOK, workerVars, Minutes, BillingAssumption
  <2>2. LedgerInv'
    BY <1>3, LedgerFrame DEF Tick, IInv, workerVars
  <2>3. now' \in Nat /\ now <= now'
    BY <1>3 DEF Tick, IInv, TypeOK, Minutes
  <2>4. RunInv'
    BY <1>3, <2>3, RunFrame DEF Tick, IInv, workerVars
  <2> QED
    BY <2>1, <2>2, <2>4 DEF IInv
<1>4. ASSUME AppsStop \/ UNCHANGED vars PROVE IInv'
  <2>1. TypeOK'
    BY <1>4 DEF AppsStop, vars, IInv, TypeOK, workerVars
  <2>2. LedgerInv'
    BY <1>4, LedgerFrame DEF AppsStop, vars, IInv, workerVars
  <2>3. RunInv'
    BY <1>4, RunFrame DEF AppsStop, vars, IInv, workerVars, TypeOK, Minutes
  <2> QED
    BY <2>1, <2>2, <2>3 DEF IInv
<1> QED
  BY <1>1, <1>2, <1>3, <1>4, WorkerDies, RequestBegins, RequestCommits, VoucherStep DEF Next

\* IInv is inductive: it holds at the start and every step keeps it (BillingService,
\* BillingUsageService, BillingWorkerService).
THEOREM Inductive == ASSUME BillingAssumption PROVE Spec => []IInv
<1>1. Init => IInv
  BY InitIInv
<1>2. IInv /\ [Next]_vars => IInv'
  BY NextIInv
<1> QED
  BY <1>1, <1>2, PTL DEF Spec

\* The ledger explains the balance, nothing is booked twice, compute makes no debt and a
\* voucher's status tells whether it was paid out, for any number of workers that charge
\* the same minutes, of requests and of crashes (lockAccount, recordUsageCharge).
THEOREM LedgerIsSafe == ASSUME BillingAssumption PROVE Spec => []LedgerSafety
<1>1. IInv => LedgerSafety
  BY DEF IInv, LedgerInv, LedgerSafety
<1> QED
  BY <1>1, Inductive, PTL

\* However the workers move the cursor back and forth, no minute up to it is without its
\* records (reconcileClosedPeriods, reconcilePeriod).
THEOREM NoMinuteIsSkipped == ASSUME BillingAssumption PROVE Spec => []NoMinuteSkipped
<1>1. IInv => NoMinuteSkipped
  BY DEF IInv, RunInv, CoveredTo, NoMinuteSkipped
<1> QED
  BY <1>1, Inductive, PTL
=============================================================================
