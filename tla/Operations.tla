----------------------------- MODULE Operations -----------------------------
(***************************************************************************)
(* The Operation queue of the ResourcePortal API and the worker loop that  *)
(* drains it: OperationsRepository (one SQL statement per method),         *)
(* OperationsWorkerService.processNext and OperationsService.retry.        *)
(*                                                                         *)
(* A row of the "Operation" table is claimed under a lease, executed by    *)
(* the executor of its type, and closed by a compare-and-set on the lease  *)
(* owner.  Every SQL statement is one atomic step; between two statements  *)
(* of a process every other process, the passing of time and the user may  *)
(* step.  A process may die, or lose the database, at any point; the work  *)
(* it holds is then found again through the lease.                         *)
(***************************************************************************)
EXTENDS Naturals

CONSTANTS
    Ops,            \* rows the API may enqueue
    Workers,        \* worker processes
    OwnerIds,       \* values of the leaseOwner column
    WorkerId,       \* WorkerId[w]: the WORKER_ID process w runs with
    Kind,           \* Kind[o]: what the code distinguishes in Operation.type
    MaxAttempts,    \* MaxAttempts[o]: the maxAttempts column
    MaxRetries,     \* bound: manual retries of one row
    MaxAborts,      \* bound: crashes and database errors, over all processes
    NoOwner,        \* NULL in leaseOwner
    NoOp            \* a process that holds no Operation

Kinds == {"Restart", "Deployment", "Other"}

ASSUME OperationsAssumption ==
    /\ NoOwner \notin OwnerIds
    /\ NoOp \notin Ops
    /\ WorkerId \in [Workers -> OwnerIds]
    /\ Kind \in [Ops -> Kinds]
    /\ MaxAttempts \in [Ops -> Nat \ {0}]
    /\ MaxRetries \in Nat
    /\ MaxAborts \in Nat

\* requestSingleAppRestart enqueues with maxAttempts 1.
ASSUME RestartAttempts ==
    \A o \in Ops : Kind[o] = "Restart" => MaxAttempts[o] = 1

\* Live worker processes have different WORKER_IDs.
ASSUME DistinctWorkerIds ==
    \A v, w \in Workers : WorkerId[v] = WorkerId[w] => v = w

VARIABLES
    \* --- the Operation table
    status,         \* "Absent" before the INSERT
    attempt,
    leaseOwner,
    lease,          \* leaseExpiresAt: "None" (NULL), "Held" or "Expired"
    queue,          \* nextAttemptAt: "Future", "Due", or "Stale" (10 minutes ago)
    errorCode,
    \* --- the worker processes
    pc,             \* where processNext stands
    cur,            \* the Operation it claimed
    seen,           \* the attempt in the row that claimNext returned to it
    beats,          \* heartbeat statements sent and not yet executed
    \* --- history and bounds
    claims,         \* claims[o]: how often o was claimed
    claimNo,        \* claimNo[w]: which claim of cur[w] process w runs
    runs,           \* runs[o]: the claims of o whose executor was invoked
    retries,        \* manual retries of o
    aborts

rowVars == <<status, attempt, leaseOwner, lease, queue, errorCode>>
procVars == <<pc, cur, seen, claimNo>>
vars == <<rowVars, procVars, beats, claims, runs, retries, aborts>>

Statuses == {"Absent", "Pending", "Running", "Succeeded", "RolledBack", "Failed"}
Terminal == {"Succeeded", "RolledBack", "Failed"}
Codes == {"None", "RestartQueueTimeout", "RestartOutcomeUnknown",
          "OperationAttemptsExhausted", "ExecutionError"}

\* "Swept1" and "Swept2" follow the two cleanup statements of processNext;
\* "Claimed": the claim is committed, the executor not yet invoked;
\* "Returned", "Transient", "Permanent": how the executor ended.
Steps == {"Idle", "Swept1", "Swept2", "Claimed", "Executing",
          "Returned", "Transient", "Permanent"}

Init ==
    /\ status = [o \in Ops |-> "Absent"]
    /\ attempt = [o \in Ops |-> 0]
    /\ leaseOwner = [o \in Ops |-> NoOwner]
    /\ lease = [o \in Ops |-> "None"]
    /\ queue = [o \in Ops |-> "Due"]
    /\ errorCode = [o \in Ops |-> "None"]
    /\ pc = [w \in Workers |-> "Idle"]
    /\ cur = [w \in Workers |-> NoOp]
    /\ seen = [w \in Workers |-> 0]
    /\ beats = {}
    /\ claims = [o \in Ops |-> 0]
    /\ claimNo = [w \in Workers |-> 0]
    /\ runs = [o \in Ops |-> {}]
    /\ retries = [o \in Ops |-> 0]
    /\ aborts = 0

-----------------------------------------------------------------------------
(* The API *)

\* createOperationWithClient.  A second request with the same idempotency key
\* returns the row as it is, or is refused: neither changes the table.
CreateOperation(o) ==
    /\ status[o] = "Absent"
    /\ status' = [status EXCEPT ![o] = "Pending"]
    /\ queue' = [queue EXCEPT ![o] = "Due"]
    /\ UNCHANGED <<attempt, leaseOwner, lease, errorCode,
                   procVars, beats, claims, runs, retries, aborts>>

\* Mutant: a manual retry that treats restarts like any other type.
RetryableRestart(o) == Kind[o] # "Deployment" /\ status[o] = "Failed"

\* OperationsService.retry and retryFailedOperation.  The service's own checks
\* read the immutable type, and otherwise repeat the WHERE clause.
Retryable(o) ==
    /\ Kind[o] # "Deployment"
    /\ status[o] = "Failed"
    /\ Kind[o] = "Restart" =>
           errorCode[o] = "RestartQueueTimeout" /\ attempt[o] = 0

RetryFailedOperation(o) ==
    /\ Retryable(o)
    /\ retries[o] < MaxRetries
    /\ status' = [status EXCEPT ![o] = "Pending"]
    /\ attempt' = [attempt EXCEPT ![o] = 0]
    /\ leaseOwner' = [leaseOwner EXCEPT ![o] = NoOwner]
    /\ lease' = [lease EXCEPT ![o] = "None"]
    /\ queue' = [queue EXCEPT ![o] = "Due"]
    /\ errorCode' = [errorCode EXCEPT ![o] = "None"]
    /\ retries' = [retries EXCEPT ![o] = @ + 1]
    /\ UNCHANGED <<procVars, beats, claims, runs, aborts>>

-----------------------------------------------------------------------------
(* Time *)

\* nextAttemptAt comes due, and later lies ten minutes back.
QueueTimePasses(o) ==
    /\ status[o] = "Pending"
    /\ \/ queue[o] = "Future" /\ queue' = [queue EXCEPT ![o] = "Due"]
       \/ queue[o] = "Due" /\ queue' = [queue EXCEPT ![o] = "Stale"]
    /\ UNCHANGED <<status, attempt, leaseOwner, lease, errorCode,
                   procVars, beats, claims, runs, retries, aborts>>

\* leaseExpiresAt passes: the heartbeats of the holder were late or lost.
LeaseExpires(o) ==
    /\ lease[o] = "Held"
    /\ lease' = [lease EXCEPT ![o] = "Expired"]
    /\ UNCHANGED <<status, attempt, leaseOwner, queue, errorCode,
                   procVars, beats, claims, runs, retries, aborts>>

-----------------------------------------------------------------------------
(* processNext *)

\* Mutant: the timeout sweep ignores that a restart was claimed.
StaleRestartClaimed(o) ==
    Kind[o] = "Restart" /\ status[o] \in {"Pending", "Running"} /\ queue[o] = "Stale"

StaleRestart(o) ==
    /\ Kind[o] = "Restart"
    /\ status[o] = "Pending"
    /\ attempt[o] = 0
    /\ queue[o] = "Stale"

\* One UPDATE over all matching rows.
FailStaleQueuedRestarts(w) ==
    /\ pc[w] = "Idle"
    /\ pc' = [pc EXCEPT ![w] = "Swept1"]
    /\ status' = [o \in Ops |-> IF StaleRestart(o) THEN "Failed" ELSE status[o]]
    /\ errorCode' = [o \in Ops |-> IF StaleRestart(o) THEN "RestartQueueTimeout"
                                                      ELSE errorCode[o]]
    /\ leaseOwner' = [o \in Ops |-> IF StaleRestart(o) THEN NoOwner ELSE leaseOwner[o]]
    /\ lease' = [o \in Ops |-> IF StaleRestart(o) THEN "None" ELSE lease[o]]
    /\ UNCHANGED <<attempt, queue, cur, seen, claimNo,
                   beats, claims, runs, retries, aborts>>

\* What claimNext and failExhaustedOperations share: the row waits for a worker.
Waiting(o) ==
    \/ status[o] = "Pending" /\ queue[o] # "Future"
    \/ status[o] = "Running" /\ lease[o] = "Expired"

\* Mutant: off by one.
ExhaustedLate(o) == attempt[o] > MaxAttempts[o] /\ Waiting(o)

Exhausted(o) == attempt[o] >= MaxAttempts[o] /\ Waiting(o)

FailExhaustedOperations(w) ==
    /\ pc[w] = "Swept1"
    /\ pc' = [pc EXCEPT ![w] = "Swept2"]
    /\ status' = [o \in Ops |-> IF Exhausted(o) THEN "Failed" ELSE status[o]]
    /\ errorCode' = [o \in Ops |->
           IF ~Exhausted(o) THEN errorCode[o]
           ELSE IF Kind[o] = "Restart" THEN "RestartOutcomeUnknown"
                                       ELSE "OperationAttemptsExhausted"]
    /\ leaseOwner' = [o \in Ops |-> IF Exhausted(o) THEN NoOwner ELSE leaseOwner[o]]
    /\ lease' = [o \in Ops |-> IF Exhausted(o) THEN "None" ELSE lease[o]]
    /\ UNCHANGED <<attempt, queue, cur, seen, claimNo,
                   beats, claims, runs, retries, aborts>>

\* Mutant: off by one.
ClaimableOnceMore(o) == attempt[o] <= MaxAttempts[o] /\ Waiting(o)

Claimable(o) == attempt[o] < MaxAttempts[o] /\ Waiting(o)

\* Mutant: a takeover that leaves leaseOwner to the previous holder.
ClaimNextKeepsOwner(w, o) ==
    /\ pc[w] = "Swept2"
    /\ Claimable(o)
    /\ status' = [status EXCEPT ![o] = "Running"]
    /\ attempt' = [attempt EXCEPT ![o] = @ + 1]
    /\ leaseOwner' = [leaseOwner EXCEPT ![o] = IF @ = NoOwner THEN WorkerId[w] ELSE @]
    /\ lease' = [lease EXCEPT ![o] = "Held"]
    /\ claims' = [claims EXCEPT ![o] = @ + 1]
    /\ pc' = [pc EXCEPT ![w] = "Claimed"]
    /\ cur' = [cur EXCEPT ![w] = o]
    /\ seen' = [seen EXCEPT ![w] = attempt[o] + 1]
    /\ claimNo' = [claimNo EXCEPT ![w] = claims[o] + 1]
    /\ UNCHANGED <<queue, errorCode, beats, runs, retries, aborts>>

ClaimNext(w, o) ==
    /\ pc[w] = "Swept2"
    /\ Claimable(o)
    /\ status' = [status EXCEPT ![o] = "Running"]
    /\ attempt' = [attempt EXCEPT ![o] = @ + 1]
    /\ leaseOwner' = [leaseOwner EXCEPT ![o] = WorkerId[w]]
    /\ lease' = [lease EXCEPT ![o] = "Held"]
    /\ claims' = [claims EXCEPT ![o] = @ + 1]
    /\ pc' = [pc EXCEPT ![w] = "Claimed"]
    /\ cur' = [cur EXCEPT ![w] = o]
    /\ seen' = [seen EXCEPT ![w] = attempt[o] + 1]
    /\ claimNo' = [claimNo EXCEPT ![w] = claims[o] + 1]
    /\ UNCHANGED <<queue, errorCode, beats, runs, retries, aborts>>

NothingToClaim(w) ==
    /\ pc[w] = "Swept2"
    /\ \A o \in Ops : ~Claimable(o)
    /\ pc' = [pc EXCEPT ![w] = "Idle"]
    /\ UNCHANGED <<rowVars, cur, seen, claimNo, beats, claims, runs, retries, aborts>>

\* The claim's event is stored, the heartbeat timer set and the executor called.
StartExecution(w) ==
    /\ pc[w] = "Claimed"
    /\ pc' = [pc EXCEPT ![w] = "Executing"]
    /\ runs' = [runs EXCEPT ![cur[w]] = @ \cup {claimNo[w]}]
    /\ UNCHANGED <<rowVars, cur, seen, claimNo, beats, claims, retries, aborts>>

\* The executor ends: with a result, or with an error that
\* isRetryableOperationError accepts or rejects.
EndExecution(w) ==
    /\ pc[w] = "Executing"
    /\ \E end \in {"Returned", "Transient", "Permanent"} :
           pc' = [pc EXCEPT ![w] = end]
    /\ UNCHANGED <<rowVars, cur, seen, claimNo, beats, claims, runs, retries, aborts>>

\* The timer fires between "ExecutionStarted" and clearInterval.
SendHeartbeat(w) ==
    /\ pc[w] \in {"Executing", "Returned", "Transient", "Permanent"}
    /\ <<w, cur[w]>> \notin beats
    /\ beats' = beats \cup {<<w, cur[w]>>}
    /\ UNCHANGED <<rowVars, procVars, claims, runs, retries, aborts>>

Owns(w, o) == leaseOwner[o] = WorkerId[w]

\* heartbeat: no row, no error and no sign of it in the process that sent it.
\* An expired lease that nobody took is revived.
Heartbeat(w, o) ==
    /\ <<w, o>> \in beats
    /\ beats' = beats \ {<<w, o>>}
    /\ lease' = [lease EXCEPT ![o] =
                     IF status[o] = "Running" /\ Owns(w, o) THEN "Held" ELSE @]
    /\ UNCHANGED <<status, attempt, leaseOwner, queue, errorCode,
                   procVars, claims, runs, retries, aborts>>

LoseHeartbeat(w, o) ==
    /\ <<w, o>> \in beats
    /\ beats' = beats \ {<<w, o>>}
    /\ UNCHANGED <<rowVars, procVars, claims, runs, retries, aborts>>

\* The process leaves processNext without touching the row it worked on.
Release(w) ==
    /\ pc' = [pc EXCEPT ![w] = "Idle"]
    /\ cur' = [cur EXCEPT ![w] = NoOp]
    /\ seen' = [seen EXCEPT ![w] = 0]
    /\ claimNo' = [claimNo EXCEPT ![w] = 0]

\* Mutant: the lease columns are not reset.
CloseRowKeepsLease(o, s, e) ==
    /\ status' = [status EXCEPT ![o] = s]
    /\ errorCode' = [errorCode EXCEPT ![o] = e]
    /\ UNCHANGED <<leaseOwner, lease>>

\* The row leaves "Running" for status s with error code e; its lease is cleared.
CloseRow(o, s, e) ==
    /\ status' = [status EXCEPT ![o] = s]
    /\ errorCode' = [errorCode EXCEPT ![o] = e]
    /\ leaseOwner' = [leaseOwner EXCEPT ![o] = NoOwner]
    /\ lease' = [lease EXCEPT ![o] = "None"]

\* Mutant: a deployment's status is taken for one of an Operation.
SuccessStatusOfDeployment(o) == {"Succeeded", "RollbackFailed"}

\* terminalStatus: only deployments report "RolledBack".
SuccessStatus(o) ==
    IF Kind[o] = "Deployment" THEN {"Succeeded", "RolledBack"} ELSE {"Succeeded"}

\* Mutant: the compare-and-set forgets the owner.
MarkSucceededUnfenced(w) ==
    LET o == cur[w] IN
    /\ pc[w] = "Returned"
    /\ status[o] = "Running"
    /\ \E s \in SuccessStatus(o) : CloseRow(o, s, "None")
    /\ Release(w)
    /\ UNCHANGED <<attempt, queue, beats, claims, runs, retries, aborts>>

MarkSucceeded(w) ==
    LET o == cur[w] IN
    /\ pc[w] = "Returned"
    /\ status[o] = "Running" /\ Owns(w, o)
    /\ \E s \in SuccessStatus(o) : CloseRow(o, s, "None")
    /\ Release(w)
    /\ UNCHANGED <<attempt, queue, beats, claims, runs, retries, aborts>>

\* handleExecutionError decides on the row as it was claimed; scheduleRetry and
\* markFailed compare the owner only, not the status.
CanRetry(w) == pc[w] = "Transient" /\ seen[w] < MaxAttempts[cur[w]]

ScheduleRetry(w) ==
    LET o == cur[w] IN
    /\ CanRetry(w)
    /\ Owns(w, o)
    /\ CloseRow(o, "Pending", "ExecutionError")
    /\ queue' = [queue EXCEPT ![o] = "Future"]
    /\ Release(w)
    /\ UNCHANGED <<attempt, beats, claims, runs, retries, aborts>>

\* Mutant: the UPDATE names the row only.
MarkFailedUnfenced(w) ==
    LET o == cur[w] IN
    /\ pc[w] \in {"Transient", "Permanent"}
    /\ ~CanRetry(w)
    /\ CloseRow(o, "Failed", "ExecutionError")
    /\ Release(w)
    /\ UNCHANGED <<attempt, queue, beats, claims, runs, retries, aborts>>

MarkFailed(w) ==
    LET o == cur[w] IN
    /\ pc[w] \in {"Transient", "Permanent"}
    /\ ~CanRetry(w)
    /\ Owns(w, o)
    /\ CloseRow(o, "Failed", "ExecutionError")
    /\ Release(w)
    /\ UNCHANGED <<attempt, queue, beats, claims, runs, retries, aborts>>

\* The compare-and-set matched no row: the lease was lost.
LeaseLost(w) ==
    LET o == cur[w] IN
    /\ \/ pc[w] = "Returned" /\ ~(status[o] = "Running" /\ Owns(w, o))
       \/ pc[w] \in {"Transient", "Permanent"} /\ ~Owns(w, o)
    /\ Release(w)
    /\ UNCHANGED <<rowVars, beats, claims, runs, retries, aborts>>

\* The process dies and is restarted with the same WORKER_ID, or a statement
\* throws and the operation loop starts over.
Abort(w) ==
    /\ pc[w] # "Idle"
    /\ aborts < MaxAborts
    /\ aborts' = aborts + 1
    /\ Release(w)
    /\ UNCHANGED <<rowVars, beats, claims, runs, retries>>

-----------------------------------------------------------------------------

\* The steps processNext takes by itself.
ProcessNext(w) ==
    \/ FailStaleQueuedRestarts(w)
    \/ FailExhaustedOperations(w)
    \/ \E o \in Ops : ClaimNext(w, o)
    \/ NothingToClaim(w)
    \/ StartExecution(w)
    \/ EndExecution(w)
    \/ MarkSucceeded(w)
    \/ ScheduleRetry(w)
    \/ MarkFailed(w)
    \/ LeaseLost(w)

Next ==
    \/ \E o \in Ops :
           \/ CreateOperation(o)
           \/ RetryFailedOperation(o)
           \/ QueueTimePasses(o)
           \/ LeaseExpires(o)
    \/ \E w \in Workers :
           \/ ProcessNext(w)
           \/ SendHeartbeat(w)
           \/ Abort(w)
           \/ \E o \in Ops : Heartbeat(w, o) \/ LoseHeartbeat(w, o)

Spec == Init /\ [][Next]_vars

\* The operation loop polls for ever; executors end, every external call they
\* make being under a timeout; clocks advance; a statement that was sent ends.
Fairness ==
    /\ \A w \in Workers : WF_vars(ProcessNext(w))
    /\ \A o \in Ops : WF_vars(QueueTimePasses(o)) /\ WF_vars(LeaseExpires(o))

FairSpec == Spec /\ Fairness

-----------------------------------------------------------------------------
(* Properties *)

\* Every column and every process variable holds one of the values the code
\* gives it.
TypeOK ==
    /\ status \in [Ops -> Statuses]
    /\ attempt \in [Ops -> Nat]
    /\ leaseOwner \in [Ops -> OwnerIds \cup {NoOwner}]
    /\ lease \in [Ops -> {"None", "Held", "Expired"}]
    /\ queue \in [Ops -> {"Future", "Due", "Stale"}]
    /\ errorCode \in [Ops -> Codes]
    /\ pc \in [Workers -> Steps]
    /\ cur \in [Workers -> Ops \cup {NoOp}]
    /\ seen \in [Workers -> Nat]
    /\ beats \subseteq Workers \X Ops
    /\ claims \in [Ops -> Nat]
    /\ claimNo \in [Workers -> Nat]
    /\ runs \in [Ops -> SUBSET Nat]
    /\ retries \in [Ops -> Nat]
    /\ aborts \in Nat

\* A row has a lease owner exactly while it is Running.  markFailed and
\* scheduleRetry rely on it: they check the owner and not the status.
LeasedIffRunning ==
    \A o \in Ops :
        /\ leaseOwner[o] # NoOwner <=> status[o] = "Running"
        /\ lease[o] # "None" <=> status[o] = "Running"

\* The compare-and-set on leaseOwner is an authority boundary: a process whose
\* worker id still owns the row runs the newest claim of it, even though
\* worker ids are reused for every claim and across restarts.
OwnerRunsNewestClaim ==
    \A w \in Workers : \A o \in Ops :
        cur[w] = o /\ Owns(w, o) =>
            claimNo[w] = claims[o] /\ seen[w] = attempt[o]

\* A restart of a SingleApp is a force update that must not be replayed: over
\* the whole life of its row, manual retries included, at most one claim ever
\* reaches the executor.
RestartRunsAtMostOnce ==
    \A o \in Ops : Kind[o] = "Restart" =>
        \A c, d \in runs[o] : c = d

\* RestartQueueTimeout tells the user "no restart was executed": then no
\* executor was invoked and no process still holds a claim that will invoke it.
QueueTimeoutMeansNotRun ==
    \A o \in Ops : errorCode[o] = "RestartQueueTimeout" =>
        /\ runs[o] = {}
        /\ \A w \in Workers : cur[w] # o

\* Claims, and with them executions, stay within maxAttempts for the first
\* enqueue and every manual retry, whatever crashes and lease losses happen.
AttemptsBounded ==
    \A o \in Ops :
        /\ attempt[o] <= MaxAttempts[o]
        /\ claims[o] <= MaxAttempts[o] * (retries[o] + 1)
        /\ runs[o] \subseteq 1 .. claims[o]

\* A success is final: no stale worker, sweep or retry changes it.
SuccessIsFinal ==
    [][\A o \in Ops : status[o] \in {"Succeeded", "RolledBack"} =>
           status'[o] = status[o] /\ errorCode'[o] = errorCode[o]]_vars

\* A Running row is closed only by the process that runs its newest claim, or
\* by failExhaustedOperations once its lease expired with no attempt left.
ClosedByNewestClaim ==
    [][\A o \in Ops : status[o] = "Running" /\ status'[o] # "Running" =>
           \/ \E w \in Workers :
                  cur[w] = o /\ claimNo[w] = claims[o] /\ cur'[w] = NoOp
           \/ /\ lease[o] = "Expired"
              /\ attempt[o] = MaxAttempts[o]
              /\ status'[o] = "Failed"]_vars

\* A claim in hand is a token: the row and the number of the claim.
Held == [w \in Workers |-> IF cur[w] = NoOp THEN NoOp ELSE <<cur[w], claimNo[w]>>]

Fenced == INSTANCE FencedQueue
            WITH None <- NoOp, state <- status, token <- claims, job <- Held

\* The lease on a reused worker id implements a queue with fencing tokens.
ImplementsFencedQueue == Fenced!Spec

\* Every accepted Operation is eventually settled: no crash, lost heartbeat or
\* lost lease leaves a row Pending or Running for ever.
EventuallySettled ==
    \A o \in Ops : status[o] \in {"Pending", "Running"} ~> status[o] \in Terminal

\* worker.runner: "lease ownership keeps DB execution exclusive across nodes".
ExecutionExclusive ==
    \A v, w \in Workers :
        v # w /\ pc[v] = "Executing" /\ pc[w] = "Executing" => cur[v] # cur[w]
=============================================================================
