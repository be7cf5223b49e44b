-------------------------- MODULE OperationsProofs --------------------------
(***************************************************************************)
(* Proofs about the Operation queue for every number of rows, workers,     *)
(* attempts, manual retries and crashes.                                   *)
(*                                                                         *)
(* The safety properties are not inductive by themselves: they follow from *)
(* IInv, which adds how process-local state and history relate to the      *)
(* table (which processes hold a claim, and that a restart row is claimed  *)
(* as often as its attempt column says).                                   *)
(***************************************************************************)
EXTENDS Operations, TLAPS

\* A process holds an Operation exactly from its claim to the end of processNext.
BusyHoldsOp ==
    \A w \in Workers : cur[w] = NoOp <=> pc[w] \in {"Idle", "Swept1", "Swept2"}

\* A process runs a claim that was made.
ClaimsMade ==
    \A w \in Workers : \A o \in Ops :
        cur[w] = o => claimNo[w] >= 1 /\ claimNo[w] <= claims[o]

\* Attempts are the claims since the last manual retry.
ClaimsCounted ==
    \A o \in Ops :
        /\ attempt[o] <= MaxAttempts[o]
        /\ claims[o] <= MaxAttempts[o] * retries[o] + attempt[o]
        /\ \A c \in runs[o] : c >= 1 /\ c <= claims[o]

\* A restart row is retried only while it was never claimed, so that its
\* attempt column counts all its claims.
RestartClaims ==
    \A o \in Ops : Kind[o] = "Restart" => claims[o] = attempt[o]

\* The queue timeout closes never-claimed restart rows only.
TimeoutNeverClaimed ==
    \A o \in Ops : errorCode[o] = "RestartQueueTimeout" =>
        Kind[o] = "Restart" /\ attempt[o] = 0 /\ status[o] = "Failed"

IInv ==
    /\ TypeOK
    /\ LeasedIffRunning
    /\ BusyHoldsOp
    /\ ClaimsMade
    /\ OwnerRunsNewestClaim
    /\ ClaimsCounted
    /\ RestartClaims
    /\ TimeoutNeverClaimed

-----------------------------------------------------------------------------
(* Every action preserves IInv.  The steps that leave claims alone, or only *)
(* let go of one, need no argument of their own.                            *)

\* An INSERT of createOperationWithClient preserves IInv.
LEMMA CreateOperationPreserves ==
    ASSUME IInv, NEW o \in Ops, CreateOperation(o)
    PROVE  IInv'
  BY OperationsAssumption
  DEF IInv, CreateOperation, Statuses, Steps, rowVars, procVars,
      TypeOK, LeasedIffRunning, BusyHoldsOp, ClaimsMade,
      OwnerRunsNewestClaim, Owns, ClaimsCounted, RestartClaims, TimeoutNeverClaimed

\* The passing of nextAttemptAt preserves IInv.
LEMMA QueueTimePassesPreserves ==
    ASSUME IInv, NEW o \in Ops, QueueTimePasses(o)
    PROVE  IInv'
  BY OperationsAssumption
  DEF IInv, QueueTimePasses, Statuses, Steps, rowVars, procVars,
      TypeOK, LeasedIffRunning, BusyHoldsOp, ClaimsMade,
      OwnerRunsNewestClaim, Owns, ClaimsCounted, RestartClaims, TimeoutNeverClaimed

\* An expiring lease preserves IInv.
LEMMA LeaseExpiresPreserves ==
    ASSUME IInv, NEW o \in Ops, LeaseExpires(o)
    PROVE  IInv'
  BY OperationsAssumption
  DEF IInv, LeaseExpires, Statuses, Steps, rowVars, procVars,
      TypeOK, LeasedIffRunning, BusyHoldsOp, ClaimsMade,
      OwnerRunsNewestClaim, Owns, ClaimsCounted, RestartClaims, TimeoutNeverClaimed

\* A poll that finds no row preserves IInv.
LEMMA NothingToClaimPreserves ==
    ASSUME IInv, NEW w \in Workers, NothingToClaim(w)
    PROVE  IInv'
  BY OperationsAssumption
  DEF IInv, NothingToClaim, Statuses, Steps, rowVars, procVars,
      TypeOK, LeasedIffRunning, BusyHoldsOp, ClaimsMade,
      OwnerRunsNewestClaim, Owns, ClaimsCounted, RestartClaims, TimeoutNeverClaimed

\* The end of an executor preserves IInv.
LEMMA EndExecutionPreserves ==
    ASSUME IInv, NEW w \in Workers, EndExecution(w)
    PROVE  IInv'
  BY OperationsAssumption
  DEF IInv, EndExecution, Statuses, Steps, rowVars, procVars,
      TypeOK, LeasedIffRunning, BusyHoldsOp, ClaimsMade,
      OwnerRunsNewestClaim, Owns, ClaimsCounted, RestartClaims, TimeoutNeverClaimed

\* Sending a heartbeat preserves IInv.
LEMMA SendHeartbeatPreserves ==
    ASSUME IInv, NEW w \in Workers, SendHeartbeat(w)
    PROVE  IInv'
  BY OperationsAssumption
  DEF IInv, SendHeartbeat, Statuses, Steps, rowVars, procVars,
      TypeOK, LeasedIffRunning, BusyHoldsOp, ClaimsMade,
      OwnerRunsNewestClaim, Owns, ClaimsCounted, RestartClaims, TimeoutNeverClaimed

\* A heartbeat statement preserves IInv.
LEMMA HeartbeatPreserves ==
    ASSUME IInv, NEW w \in Workers, NEW o \in Ops, Heartbeat(w, o)
    PROVE  IInv'
  BY OperationsAssumption
  DEF IInv, Heartbeat, Statuses, Steps, rowVars, procVars,
      TypeOK, LeasedIffRunning, BusyHoldsOp, ClaimsMade,
      OwnerRunsNewestClaim, Owns, ClaimsCounted, RestartClaims, TimeoutNeverClaimed

\* A lost heartbeat preserves IInv.
LEMMA LoseHeartbeatPreserves ==
    ASSUME IInv, NEW w \in Workers, NEW o \in Ops, LoseHeartbeat(w, o)
    PROVE  IInv'
  BY OperationsAssumption
  DEF IInv, LoseHeartbeat, Statuses, Steps, rowVars, procVars,
      TypeOK, LeasedIffRunning, BusyHoldsOp, ClaimsMade,
      OwnerRunsNewestClaim, Owns, ClaimsCounted, RestartClaims, TimeoutNeverClaimed

\* A compare-and-set that matches no row preserves IInv.
LEMMA LeaseLostPreserves ==
    ASSUME IInv, NEW w \in Workers, LeaseLost(w)
    PROVE  IInv'
  BY OperationsAssumption
  DEF IInv, LeaseLost, Release, Statuses, Steps, rowVars, procVars,
      TypeOK, LeasedIffRunning, BusyHoldsOp, ClaimsMade,
      OwnerRunsNewestClaim, Owns, ClaimsCounted, RestartClaims, TimeoutNeverClaimed

\* A crash, or a statement that throws, preserves IInv.
LEMMA AbortPreserves ==
    ASSUME IInv, NEW w \in Workers, Abort(w)
    PROVE  IInv'
  BY OperationsAssumption
  DEF IInv, Abort, Release, Statuses, Steps, rowVars, procVars,
      TypeOK, LeasedIffRunning, BusyHoldsOp, ClaimsMade,
      OwnerRunsNewestClaim, Owns, ClaimsCounted, RestartClaims, TimeoutNeverClaimed

-----------------------------------------------------------------------------
(* The steps that close a row clear its owner, so that no process owns it   *)
(* any more: NULL is not a worker id.                                       *)

\* No worker id equals the NULL that a cleared leaseOwner holds.
LEMMA NullOwnsNothing ==
    \A w \in Workers : WorkerId[w] # NoOwner
  BY OperationsAssumption

\* Closing a row that the process owns, and leaving processNext, preserves IInv.
LEMMA CloseRowPreserves ==
    ASSUME IInv, NEW w \in Workers, NEW s \in {"Succeeded", "RolledBack", "Pending", "Failed"},
           NEW e \in {"None", "ExecutionError"},
           cur[w] \in Ops, Owns(w, cur[w]), CloseRow(cur[w], s, e), Release(w),
           queue' \in [Ops -> {"Future", "Due", "Stale"}],
           UNCHANGED <<attempt, beats, claims, runs, retries, aborts>>
    PROVE  IInv'
<1> DEFINE o == cur[w]
<1>1. status[o] = "Running" /\ o \in Ops
  BY NullOwnsNothing DEF IInv, TypeOK, LeasedIffRunning, Owns
<1>2. TypeOK'
  BY OperationsAssumption DEF IInv, TypeOK, CloseRow, Release, Statuses, Codes, Steps
<1>3. LeasedIffRunning'
  BY <1>1 DEF IInv, TypeOK, LeasedIffRunning, CloseRow
<1>4. BusyHoldsOp' /\ ClaimsMade'
  BY OperationsAssumption DEF IInv, TypeOK, BusyHoldsOp, ClaimsMade, Release
<1>5. OwnerRunsNewestClaim'
  <2> SUFFICES ASSUME NEW v \in Workers, NEW p \in Ops, cur'[v] = p, leaseOwner'[p] = WorkerId[v]
               PROVE  claimNo'[v] = claims'[p] /\ seen'[v] = attempt'[p]
    BY DEF OwnerRunsNewestClaim, Owns
  <2>1. p # o
    BY NullOwnsNothing DEF IInv, TypeOK, CloseRow
  <2>2. v # w
    BY OperationsAssumption DEF IInv, TypeOK, Release
  <2> QED
    BY <2>1, <2>2 DEF IInv, TypeOK, OwnerRunsNewestClaim, Owns, CloseRow, Release
<1>6. ClaimsCounted' /\ RestartClaims'
  BY DEF IInv, ClaimsCounted, RestartClaims
<1>7. TimeoutNeverClaimed'
  BY <1>1 DEF IInv, TypeOK, TimeoutNeverClaimed, CloseRow
<1> QED
  BY <1>2, <1>3, <1>4, <1>5, <1>6, <1>7 DEF IInv

\* markSucceeded preserves IInv.
LEMMA MarkSucceededPreserves ==
    ASSUME IInv, NEW w \in Workers, MarkSucceeded(w)
    PROVE  IInv'
<1>1. PICK s \in SuccessStatus(cur[w]) : CloseRow(cur[w], s, "None")
  BY DEF MarkSucceeded
<1>2. s \in {"Succeeded", "RolledBack"}
  BY DEF SuccessStatus
<1>3. cur[w] \in Ops /\ queue' \in [Ops -> {"Future", "Due", "Stale"}]
  BY DEF MarkSucceeded, IInv, TypeOK, BusyHoldsOp
<1> QED
  BY <1>1, <1>2, <1>3, CloseRowPreserves DEF MarkSucceeded

\* scheduleRetry preserves IInv.
LEMMA ScheduleRetryPreserves ==
    ASSUME IInv, NEW w \in Workers, ScheduleRetry(w)
    PROVE  IInv'
<1>1. cur[w] \in Ops /\ queue' \in [Ops -> {"Future", "Due", "Stale"}]
  BY DEF ScheduleRetry, CanRetry, IInv, TypeOK, BusyHoldsOp
<1> QED
  BY <1>1, CloseRowPreserves DEF ScheduleRetry

\* markFailed preserves IInv.
LEMMA MarkFailedPreserves ==
    ASSUME IInv, NEW w \in Workers, MarkFailed(w)
    PROVE  IInv'
<1>1. cur[w] \in Ops /\ queue' \in [Ops -> {"Future", "Due", "Stale"}]
  BY DEF MarkFailed, IInv, TypeOK, BusyHoldsOp
<1> QED
  BY <1>1, CloseRowPreserves DEF MarkFailed

\* The sweep of stale restarts closes never-claimed rows and preserves IInv.
LEMMA FailStaleQueuedRestartsPreserves ==
    ASSUME IInv, NEW w \in Workers, FailStaleQueuedRestarts(w)
    PROVE  IInv'
<1>1. TypeOK'
  BY DEF IInv, TypeOK, FailStaleQueuedRestarts, Statuses, Codes, Steps
<1>2. LeasedIffRunning' /\ BusyHoldsOp' /\ ClaimsMade' /\ ClaimsCounted' /\ RestartClaims'
  BY DEF IInv, TypeOK, FailStaleQueuedRestarts, StaleRestart, LeasedIffRunning, BusyHoldsOp,
         ClaimsMade, ClaimsCounted, RestartClaims
<1>3. OwnerRunsNewestClaim'
  BY NullOwnsNothing
  DEF IInv, TypeOK, FailStaleQueuedRestarts, OwnerRunsNewestClaim, Owns
<1>4. TimeoutNeverClaimed'
  BY DEF IInv, TypeOK, FailStaleQueuedRestarts, StaleRestart, TimeoutNeverClaimed
<1> QED
  BY <1>1, <1>2, <1>3, <1>4 DEF IInv

\* The sweep of exhausted rows preserves IInv.
LEMMA FailExhaustedOperationsPreserves ==
    ASSUME IInv, NEW w \in Workers, FailExhaustedOperations(w)
    PROVE  IInv'
<1>1. TypeOK'
  BY DEF IInv, TypeOK, FailExhaustedOperations, Statuses, Codes, Steps
<1>2. LeasedIffRunning' /\ BusyHoldsOp' /\ ClaimsMade' /\ ClaimsCounted' /\ RestartClaims'
  BY DEF IInv, TypeOK, FailExhaustedOperations, LeasedIffRunning, BusyHoldsOp,
         ClaimsMade, ClaimsCounted, RestartClaims
<1>3. OwnerRunsNewestClaim'
  BY NullOwnsNothing
  DEF IInv, TypeOK, FailExhaustedOperations, OwnerRunsNewestClaim, Owns
<1>4. TimeoutNeverClaimed'
  BY OperationsAssumption
  DEF IInv, TypeOK, FailExhaustedOperations, TimeoutNeverClaimed
<1> QED
  BY <1>1, <1>2, <1>3, <1>4 DEF IInv

-----------------------------------------------------------------------------
(* The steps that count: a claim, the start of an execution, a manual retry. *)

\* claimNext makes the claimer the runner of the newest claim and preserves IInv.
LEMMA ClaimNextPreserves ==
    ASSUME IInv, NEW w \in Workers, NEW o \in Ops, ClaimNext(w, o)
    PROVE  IInv'
<1>0. /\ attempt[o] \in Nat /\ claims[o] \in Nat /\ retries[o] \in Nat
      /\ MaxAttempts[o] \in Nat
      /\ attempt[o] < MaxAttempts[o]
      /\ WorkerId[w] \in OwnerIds
  BY OperationsAssumption DEF IInv, TypeOK, ClaimNext, Claimable
<1>1. /\ attempt[o] \in Nat /\ claims[o] \in Nat /\ retries[o] \in Nat
      /\ MaxAttempts[o] \in Nat
      /\ attempt[o] + 1 <= MaxAttempts[o]
      /\ WorkerId[w] \in OwnerIds /\ WorkerId[w] # NoOwner
  BY <1>0, NullOwnsNothing
<1>2. TypeOK'
  <2>1. status' \in [Ops -> Statuses] /\ leaseOwner' \in [Ops -> OwnerIds \cup {NoOwner}]
        /\ lease' \in [Ops -> {"None", "Held", "Expired"}] /\ pc' \in [Workers -> Steps]
    BY <1>1 DEF IInv, TypeOK, ClaimNext, Statuses, Steps
  <2>2. attempt' \in [Ops -> Nat] /\ claims' \in [Ops -> Nat]
        /\ seen' \in [Workers -> Nat] /\ claimNo' \in [Workers -> Nat]
    BY <1>1 DEF IInv, TypeOK, ClaimNext
  <2> QED
    BY <2>1, <2>2 DEF IInv, TypeOK, ClaimNext
<1>3. LeasedIffRunning'
  BY <1>1 DEF IInv, TypeOK, LeasedIffRunning, ClaimNext
<1>4. BusyHoldsOp'
  BY OperationsAssumption DEF IInv, TypeOK, BusyHoldsOp, ClaimNext
<1>5. ClaimsMade'
  BY <1>1 DEF IInv, TypeOK, ClaimsMade, ClaimNext
<1>6. OwnerRunsNewestClaim'
  <2> SUFFICES ASSUME NEW v \in Workers, NEW p \in Ops, cur'[v] = p, leaseOwner'[p] = WorkerId[v]
               PROVE  claimNo'[v] = claims'[p] /\ seen'[v] = attempt'[p]
    BY DEF OwnerRunsNewestClaim, Owns
  <2>1. CASE v = w
    BY <2>1, <1>1 DEF IInv, TypeOK, ClaimNext
  <2>2. CASE v # w
    <3>1. p # o
      BY <2>2, DistinctWorkerIds DEF IInv, TypeOK, ClaimNext
    <3> QED
      BY <2>2, <3>1 DEF IInv, TypeOK, ClaimNext, OwnerRunsNewestClaim, Owns
  <2> QED
    BY <2>1, <2>2
<1>7. ClaimsCounted'
  <2> SUFFICES ASSUME NEW p \in Ops
               PROVE  /\ attempt'[p] <= MaxAttempts[p]
                      /\ claims'[p] <= MaxAttempts[p] * retries[p] + attempt'[p]
                      /\ \A c \in runs[p] : c >= 1 /\ c <= claims'[p]
    BY DEF ClaimsCounted, ClaimNext
  <2>1. CASE p = o
    <3>1. attempt'[o] = attempt[o] + 1 /\ claims'[o] = claims[o] + 1
      BY DEF IInv, TypeOK, ClaimNext
    <3>2. MaxAttempts[o] * retries[o] \in Nat
      BY <1>1
    <3>3. \A c \in runs[o] : c \in Nat /\ c >= 1 /\ c <= claims[o]
      BY DEF IInv, TypeOK, ClaimsCounted
    <3>4. claims[o] <= MaxAttempts[o] * retries[o] + attempt[o]
      BY DEF IInv, ClaimsCounted
    <3> HIDE DEF IInv
    <3> DEFINE q == MaxAttempts[o] * retries[o]
    <3> HIDE DEF q
    <3>5. claims[o] + 1 <= q + (attempt[o] + 1)
      BY <1>1, <3>2, <3>4 DEF q
    <3> QED
      BY <1>1, <2>1, <3>1, <3>3, <3>5 DEF q
  <2>2. CASE p # o
    BY <2>2 DEF IInv, TypeOK, ClaimsCounted, ClaimNext
  <2> QED
    BY <2>1, <2>2
<1>8. RestartClaims'
  BY <1>1 DEF IInv, TypeOK, RestartClaims, ClaimNext
<1>9. TimeoutNeverClaimed'
  BY DEF IInv, TypeOK, TimeoutNeverClaimed, ClaimNext, Claimable, Waiting
<1> QED
  BY <1>2, <1>3, <1>4, <1>5, <1>6, <1>7, <1>8, <1>9 DEF IInv

\* The start of an executor runs a claim that was made and preserves IInv.
LEMMA StartExecutionPreserves ==
    ASSUME IInv, NEW w \in Workers, StartExecution(w)
    PROVE  IInv'
<1>1. cur[w] \in Ops /\ claimNo[w] \in Nat /\ claimNo[w] >= 1 /\ claimNo[w] <= claims[cur[w]]
  BY DEF IInv, TypeOK, BusyHoldsOp, ClaimsMade, StartExecution
<1>2. TypeOK'
  BY <1>1 DEF IInv, TypeOK, StartExecution, Steps, rowVars
<1>3. LeasedIffRunning' /\ BusyHoldsOp' /\ ClaimsMade' /\ OwnerRunsNewestClaim'
      /\ RestartClaims' /\ TimeoutNeverClaimed'
  BY DEF IInv, TypeOK, LeasedIffRunning, BusyHoldsOp, ClaimsMade, OwnerRunsNewestClaim, Owns,
         RestartClaims, TimeoutNeverClaimed, StartExecution, rowVars
<1>4. ClaimsCounted'
  <2> SUFFICES ASSUME NEW p \in Ops
               PROVE  \A c \in runs'[p] : c >= 1 /\ c <= claims[p]
    BY DEF IInv, ClaimsCounted, StartExecution, rowVars
  <2>1. runs'[p] \subseteq runs[p] \cup (IF p = cur[w] THEN {claimNo[w]} ELSE {})
    BY <1>1 DEF IInv, TypeOK, StartExecution
  <2>2. \A c \in runs[p] : c >= 1 /\ c <= claims[p]
    BY DEF IInv, ClaimsCounted
  <2> QED
    BY <1>1, <2>1, <2>2
<1> QED
  BY <1>2, <1>3, <1>4 DEF IInv

\* A manual retry resets the attempts of a row nobody owns and preserves IInv.
LEMMA RetryFailedOperationPreserves ==
    ASSUME IInv, NEW o \in Ops, RetryFailedOperation(o)
    PROVE  IInv'
<1>1. TypeOK'
  BY DEF IInv, TypeOK, RetryFailedOperation, Statuses, Codes, procVars
<1>2. LeasedIffRunning' /\ BusyHoldsOp' /\ ClaimsMade'
  BY DEF IInv, TypeOK, LeasedIffRunning, BusyHoldsOp, ClaimsMade, RetryFailedOperation, procVars
<1>3. OwnerRunsNewestClaim'
  BY NullOwnsNothing
  DEF IInv, TypeOK, OwnerRunsNewestClaim, Owns, RetryFailedOperation, procVars
<1>4. ClaimsCounted'
  <2> SUFFICES ASSUME NEW p \in Ops
               PROVE  /\ attempt'[p] <= MaxAttempts[p]
                      /\ claims[p] <= MaxAttempts[p] * retries'[p] + attempt'[p]
    BY DEF IInv, ClaimsCounted, RetryFailedOperation
  <2>1. CASE p = o
    <3>1. attempt'[o] = 0 /\ retries'[o] = retries[o] + 1
      BY DEF IInv, TypeOK, RetryFailedOperation
    <3>2. attempt[o] \in Nat /\ retries[o] \in Nat /\ claims[o] \in Nat /\ MaxAttempts[o] \in Nat
          /\ attempt[o] <= MaxAttempts[o]
          /\ claims[o] <= MaxAttempts[o] * retries[o] + attempt[o]
      BY OperationsAssumption DEF IInv, TypeOK, ClaimsCounted
    <3>3. MaxAttempts[o] * (retries[o] + 1) = MaxAttempts[o] * retries[o] + MaxAttempts[o]
      BY <3>2
    <3> QED
      BY <2>1, <3>1, <3>2, <3>3
  <2>2. CASE p # o
    BY <2>2 DEF IInv, TypeOK, ClaimsCounted, RetryFailedOperation
  <2> QED
    BY <2>1, <2>2
<1>5. RestartClaims' /\ TimeoutNeverClaimed'
  BY DEF IInv, TypeOK, RestartClaims, TimeoutNeverClaimed, RetryFailedOperation, Retryable
<1> QED
  BY <1>1, <1>2, <1>3, <1>4, <1>5 DEF IInv

-----------------------------------------------------------------------------
(* The theorems *)

\* IInv is inductive: every step of the queue preserves it.
THEOREM StepPreserves ==
    IInv /\ [Next]_vars => IInv'
<1> SUFFICES ASSUME IInv, [Next]_vars PROVE IInv'
  OBVIOUS
<1>1. ASSUME NEW o \in Ops,
             CreateOperation(o) \/ RetryFailedOperation(o) \/ QueueTimePasses(o) \/ LeaseExpires(o)
      PROVE  IInv'
  BY <1>1, CreateOperationPreserves, RetryFailedOperationPreserves,
     QueueTimePassesPreserves, LeaseExpiresPreserves
<1>2. ASSUME NEW w \in Workers, ProcessNext(w)
      PROVE  IInv'
  <2>1. CASE FailStaleQueuedRestarts(w) \/ FailExhaustedOperations(w)
             \/ (\E o \in Ops : ClaimNext(w, o)) \/ NothingToClaim(w)
    BY <2>1, FailStaleQueuedRestartsPreserves, FailExhaustedOperationsPreserves,
       ClaimNextPreserves, NothingToClaimPreserves
  <2>2. CASE StartExecution(w) \/ EndExecution(w)
    BY <2>2, StartExecutionPreserves, EndExecutionPreserves
  <2>3. CASE MarkSucceeded(w) \/ ScheduleRetry(w) \/ MarkFailed(w) \/ LeaseLost(w)
    BY <2>3, MarkSucceededPreserves, ScheduleRetryPreserves, MarkFailedPreserves,
       LeaseLostPreserves
  <2> QED
    BY <1>2, <2>1, <2>2, <2>3 DEF ProcessNext
<1>3. ASSUME NEW w \in Workers, SendHeartbeat(w) \/ Abort(w)
      PROVE  IInv'
  BY <1>3, SendHeartbeatPreserves, AbortPreserves
<1>4. ASSUME NEW w \in Workers, NEW o \in Ops, Heartbeat(w, o) \/ LoseHeartbeat(w, o)
      PROVE  IInv'
  BY <1>4, HeartbeatPreserves, LoseHeartbeatPreserves
<1>5. CASE UNCHANGED vars
  BY <1>5 DEF vars, rowVars, procVars, IInv, TypeOK, LeasedIffRunning, BusyHoldsOp, ClaimsMade,
              OwnerRunsNewestClaim, Owns, ClaimsCounted, RestartClaims, TimeoutNeverClaimed
<1> QED
  BY <1>1, <1>2, <1>3, <1>4, <1>5 DEF Next

\* Every reachable state satisfies the inductive invariant of the queue.
THEOREM Inductive ==
    Spec => []IInv
<1>1. Init => IInv
  BY OperationsAssumption
  DEF Init, IInv, TypeOK, Statuses, Codes, Steps, LeasedIffRunning, BusyHoldsOp, ClaimsMade,
      OwnerRunsNewestClaim, Owns, ClaimsCounted, RestartClaims, TimeoutNeverClaimed
<1> QED
  BY <1>1, StepPreserves, PTL DEF Spec

\* The variables of the queue keep their types.
THEOREM TypeCorrect ==
    Spec => []TypeOK
<1>1. IInv => TypeOK
  BY DEF IInv
<1> QED
  BY <1>1, Inductive, PTL

\* A row has an owner exactly while it is Running, as the statements that check
\* only the owner (markFailed, scheduleRetry) need.
THEOREM Leased ==
    Spec => []LeasedIffRunning
<1>1. IInv => LeasedIffRunning
  BY DEF IInv
<1> QED
  BY <1>1, Inductive, PTL

\* The leaseOwner comparison of markSucceeded, markFailed and scheduleRetry
\* admits the newest claim of a row only.
THEOREM Authority ==
    Spec => []OwnerRunsNewestClaim
<1>1. IInv => OwnerRunsNewestClaim
  BY DEF IInv
<1> QED
  BY <1>1, Inductive, PTL

\* A SingleApp restart reaches its executor at most once.
THEOREM RestartOnce ==
    Spec => []RestartRunsAtMostOnce
<1>1. IInv => RestartRunsAtMostOnce
  <2> SUFFICES ASSUME IInv, NEW o \in Ops, Kind[o] = "Restart", NEW c \in runs[o], NEW d \in runs[o]
               PROVE  c = d
    BY DEF RestartRunsAtMostOnce
  <2>1. claims[o] = attempt[o] /\ attempt[o] <= 1 /\ claims[o] \in Nat
    BY RestartAttempts DEF IInv, TypeOK, RestartClaims, ClaimsCounted
  <2>2. c \in Nat /\ d \in Nat /\ c >= 1 /\ d >= 1 /\ c <= claims[o] /\ d <= claims[o]
    BY DEF IInv, TypeOK, ClaimsCounted
  <2> QED
    BY <2>1, <2>2
<1> QED
  BY <1>1, Inductive, PTL

\* "RestartQueueTimeout ... no restart was executed" is true whenever it is told.
THEOREM TimeoutHonest ==
    Spec => []QueueTimeoutMeansNotRun
<1>1. IInv => QueueTimeoutMeansNotRun
  <2> SUFFICES ASSUME IInv, NEW o \in Ops, errorCode[o] = "RestartQueueTimeout"
               PROVE  runs[o] = {} /\ \A w \in Workers : cur[w] # o
    BY DEF QueueTimeoutMeansNotRun
  <2>1. claims[o] = 0
    BY DEF IInv, TypeOK, TimeoutNeverClaimed, RestartClaims
  <2>2. runs[o] = {}
    <3>1. \A c \in runs[o] : c \in Nat /\ c >= 1 /\ c <= claims[o]
      BY DEF IInv, TypeOK, ClaimsCounted
    <3> QED
      BY <2>1, <3>1
  <2>3. ASSUME NEW w \in Workers, cur[w] = o
        PROVE  FALSE
    BY <2>1, <2>3 DEF IInv, TypeOK, ClaimsMade
  <2> QED
    BY <2>2, <2>3
<1> QED
  BY <1>1, Inductive, PTL

\* Claims stay within maxAttempts per enqueue and manual retry.
THEOREM Bounded ==
    Spec => []AttemptsBounded
<1>1. IInv => AttemptsBounded
  <2> SUFFICES ASSUME IInv, NEW o \in Ops
               PROVE  /\ attempt[o] <= MaxAttempts[o]
                      /\ claims[o] <= MaxAttempts[o] * (retries[o] + 1)
                      /\ runs[o] \subseteq 1 .. claims[o]
    BY DEF AttemptsBounded
  <2>1. /\ attempt[o] \in Nat /\ claims[o] \in Nat /\ retries[o] \in Nat /\ MaxAttempts[o] \in Nat
        /\ attempt[o] <= MaxAttempts[o]
        /\ claims[o] <= MaxAttempts[o] * retries[o] + attempt[o]
    BY OperationsAssumption DEF IInv, TypeOK, ClaimsCounted
  <2>2. MaxAttempts[o] * (retries[o] + 1) = MaxAttempts[o] * retries[o] + MaxAttempts[o]
    BY <2>1
  <2>3. \A c \in runs[o] : c \in Nat /\ c >= 1 /\ c <= claims[o]
    BY DEF IInv, TypeOK, ClaimsCounted
  <2>4. runs[o] \subseteq 1 .. claims[o]
    BY <2>1, <2>3
  <2> QED
    BY <2>1, <2>2, <2>4
<1> QED
  BY <1>1, Inductive, PTL

-----------------------------------------------------------------------------
(* Action properties: what one step may do to a row, given IInv. *)

\* A row changes its status or error code only in these steps, and none of
\* them touches a row that succeeded.
LEMMA SuccessStep ==
    ASSUME IInv, [Next]_vars, NEW o \in Ops, status[o] \in {"Succeeded", "RolledBack"}
    PROVE  status'[o] = status[o] /\ errorCode'[o] = errorCode[o]
<1>0. leaseOwner[o] = NoOwner /\ status[o] \notin {"Absent", "Pending", "Running", "Failed"}
  BY DEF IInv, LeasedIffRunning
<1>1. ASSUME NEW p \in Ops,
             CreateOperation(p) \/ RetryFailedOperation(p) \/ QueueTimePasses(p) \/ LeaseExpires(p)
      PROVE  status'[o] = status[o] /\ errorCode'[o] = errorCode[o]
  BY <1>0, <1>1
  DEF CreateOperation, RetryFailedOperation, Retryable, QueueTimePasses, LeaseExpires, IInv, TypeOK
<1>2. ASSUME NEW w \in Workers, ProcessNext(w)
      PROVE  status'[o] = status[o] /\ errorCode'[o] = errorCode[o]
  <2>1. CASE FailStaleQueuedRestarts(w) \/ FailExhaustedOperations(w)
    BY <1>0, <2>1
    DEF FailStaleQueuedRestarts, StaleRestart, FailExhaustedOperations, Exhausted, Waiting
  <2>2. CASE (\E p \in Ops : ClaimNext(w, p)) \/ NothingToClaim(w)
             \/ StartExecution(w) \/ EndExecution(w) \/ LeaseLost(w)
    BY <1>0, <2>2 DEF ClaimNext, Claimable, Waiting, NothingToClaim, StartExecution, EndExecution,
                      LeaseLost, rowVars, IInv, TypeOK
  <2>3. CASE MarkSucceeded(w) \/ ScheduleRetry(w) \/ MarkFailed(w)
    <3>1. cur[w] # o
      BY <1>0, <2>3, NullOwnsNothing DEF MarkSucceeded, ScheduleRetry, MarkFailed, Owns
    <3> QED
      BY <2>3, <3>1 DEF MarkSucceeded, ScheduleRetry, MarkFailed, CloseRow, IInv, TypeOK
  <2> QED
    BY <1>2, <2>1, <2>2, <2>3 DEF ProcessNext
<1>3. ASSUME NEW w \in Workers, NEW p \in Ops,
             SendHeartbeat(w) \/ Abort(w) \/ Heartbeat(w, p) \/ LoseHeartbeat(w, p)
      PROVE  status'[o] = status[o] /\ errorCode'[o] = errorCode[o]
  BY <1>3 DEF SendHeartbeat, Abort, Heartbeat, LoseHeartbeat, rowVars
<1>4. CASE UNCHANGED vars
  BY <1>4 DEF vars, rowVars
<1> QED
  BY <1>1, <1>2, <1>3, <1>4 DEF Next

\* No step of any worker, sweep or user changes a row that succeeded.
THEOREM SuccessStays ==
    Spec => SuccessIsFinal
<1>1. IInv /\ [Next]_vars =>
          [\A o \in Ops : status[o] \in {"Succeeded", "RolledBack"} =>
               status'[o] = status[o] /\ errorCode'[o] = errorCode[o]]_vars
  BY SuccessStep
<1> QED
  BY <1>1, Inductive, PTL DEF Spec, SuccessIsFinal

\* How a Running row may be closed.
Closed(o) ==
    \/ \E w \in Workers : cur[w] = o /\ claimNo[w] = claims[o] /\ cur'[w] = NoOp
    \/ lease[o] = "Expired" /\ attempt[o] = MaxAttempts[o] /\ status'[o] = "Failed"

\* A step that ends Running is one of a closing process or of the exhaustion sweep.
LEMMA CloseStep ==
    ASSUME IInv, [Next]_vars, NEW o \in Ops, status[o] = "Running", status'[o] # "Running"
    PROVE  Closed(o)
<1>1. ASSUME NEW p \in Ops,
             CreateOperation(p) \/ RetryFailedOperation(p) \/ QueueTimePasses(p) \/ LeaseExpires(p)
      PROVE  FALSE
  BY <1>1
  DEF CreateOperation, RetryFailedOperation, Retryable, QueueTimePasses, LeaseExpires, IInv, TypeOK
<1>2. ASSUME NEW w \in Workers, ProcessNext(w)
      PROVE  Closed(o)
  <2>1. CASE FailExhaustedOperations(w)
    <3>1. Exhausted(o) /\ status'[o] = "Failed"
      BY <2>1 DEF FailExhaustedOperations
    <3>2. attempt[o] <= MaxAttempts[o] /\ attempt[o] \in Nat /\ MaxAttempts[o] \in Nat
      BY OperationsAssumption DEF IInv, TypeOK, ClaimsCounted
    <3>3. lease[o] = "Expired" /\ attempt[o] >= MaxAttempts[o]
      BY <3>1 DEF Exhausted, Waiting
    <3>4. attempt[o] = MaxAttempts[o]
      BY <3>2, <3>3
    <3> QED
      BY <3>1, <3>3, <3>4 DEF Closed
  <2>2. CASE FailStaleQueuedRestarts(w) \/ (\E p \in Ops : ClaimNext(w, p)) \/ NothingToClaim(w)
             \/ StartExecution(w) \/ EndExecution(w) \/ LeaseLost(w)
    BY <2>2 DEF FailStaleQueuedRestarts, StaleRestart, ClaimNext, NothingToClaim, StartExecution,
                EndExecution, LeaseLost, rowVars, IInv, TypeOK
  <2>3. CASE MarkSucceeded(w) \/ ScheduleRetry(w) \/ MarkFailed(w)
    <3>1. cur[w] = o
      BY <2>3 DEF MarkSucceeded, ScheduleRetry, MarkFailed, CloseRow, IInv, TypeOK
    <3>2. Owns(w, o) /\ Release(w)
      BY <2>3, <3>1 DEF MarkSucceeded, ScheduleRetry, MarkFailed
    <3>3. claimNo[w] = claims[o] /\ cur'[w] = NoOp
      BY <3>1, <3>2 DEF Release, IInv, TypeOK, OwnerRunsNewestClaim
    <3> QED
      BY <3>1, <3>3 DEF Closed
  <2> QED
    BY <1>2, <2>1, <2>2, <2>3 DEF ProcessNext
<1>3. ASSUME NEW w \in Workers, NEW p \in Ops,
             SendHeartbeat(w) \/ Abort(w) \/ Heartbeat(w, p) \/ LoseHeartbeat(w, p)
      PROVE  FALSE
  BY <1>3 DEF SendHeartbeat, Abort, Heartbeat, LoseHeartbeat, rowVars
<1>4. CASE UNCHANGED vars
  BY <1>4 DEF vars, rowVars
<1> QED
  BY <1>1, <1>2, <1>3, <1>4 DEF Next

\* A Running row is closed by its newest claim, or by the sweep after the lease
\* of its last attempt expired.
THEOREM OnlyNewestCloses ==
    Spec => ClosedByNewestClaim
<1>1. IInv /\ [Next]_vars =>
          [\A o \in Ops : status[o] = "Running" /\ status'[o] # "Running" =>
               \/ \E w \in Workers :
                      cur[w] = o /\ claimNo[w] = claims[o] /\ cur'[w] = NoOp
               \/ /\ lease[o] = "Expired"
                  /\ attempt[o] = MaxAttempts[o]
                  /\ status'[o] = "Failed"]_vars
  BY CloseStep DEF Closed
<1> QED
  BY <1>1, Inductive, PTL DEF Spec, ClosedByNewestClaim

-----------------------------------------------------------------------------
(* The queue implements the queue with fencing tokens. *)

\* The steps of a process that neither claims nor lets go keep what is held.
LEMMA HeldStays ==
    ASSUME UNCHANGED <<cur, claimNo>>
    PROVE  Held' = Held
  BY DEF Held

\* Leaving processNext drops what the process holds.
LEMMA ReleaseDrops ==
    ASSUME IInv, NEW w \in Workers, Release(w)
    PROVE  Held' = [Held EXCEPT ![w] = NoOp]
  BY DEF IInv, TypeOK, Held, Release

\* The steps of the API and of time refine a step of the fenced queue, or stutter.
LEMMA RefinesRowStep ==
    ASSUME IInv, NEW o \in Ops,
           CreateOperation(o) \/ RetryFailedOperation(o) \/ QueueTimePasses(o) \/ LeaseExpires(o)
    PROVE  [Fenced!Next]_(Fenced!vars)
<1>1. Held' = Held /\ claims' = claims
  BY HeldStays DEF CreateOperation, RetryFailedOperation, QueueTimePasses, LeaseExpires, procVars
<1>2. CASE CreateOperation(o)
  BY <1>1, <1>2 DEF CreateOperation, Fenced!Next, Fenced!Enqueue
<1>3. CASE RetryFailedOperation(o)
  BY <1>1, <1>3 DEF RetryFailedOperation, Retryable, Fenced!Next, Fenced!Requeue
<1>4. CASE QueueTimePasses(o) \/ LeaseExpires(o)
  BY <1>1, <1>4 DEF QueueTimePasses, LeaseExpires, Fenced!vars
<1> QED
  BY <1>2, <1>3, <1>4

\* Both sweeps give up unfinished jobs.
LEMMA RefinesSweep ==
    ASSUME IInv, NEW w \in Workers, FailStaleQueuedRestarts(w) \/ FailExhaustedOperations(w)
    PROVE  [Fenced!Next]_(Fenced!vars)
<1>1. Held' = Held /\ claims' = claims
  BY HeldStays DEF FailStaleQueuedRestarts, FailExhaustedOperations
<1>2. CASE FailStaleQueuedRestarts(w)
  <2> DEFINE S == {o \in Ops : StaleRestart(o)}
  <2>1. Fenced!GiveUp(S)
    BY <1>1, <1>2 DEF FailStaleQueuedRestarts, StaleRestart, Fenced!GiveUp
  <2> QED
    BY <2>1 DEF Fenced!Next
<1>3. CASE FailExhaustedOperations(w)
  <2> DEFINE S == {o \in Ops : Exhausted(o)}
  <2>1. Fenced!GiveUp(S)
    BY <1>1, <1>3 DEF FailExhaustedOperations, Exhausted, Waiting, Fenced!GiveUp
  <2> QED
    BY <2>1 DEF Fenced!Next
<1> QED
  BY <1>2, <1>3

\* claimNext draws a fresh token.
LEMMA RefinesClaim ==
    ASSUME IInv, NEW w \in Workers, NEW o \in Ops, ClaimNext(w, o)
    PROVE  Fenced!Claim(w, o)
<1>1. cur[w] = NoOp /\ o # NoOp
  BY OperationsAssumption DEF IInv, BusyHoldsOp, ClaimNext
<1>2. Held[w] = NoOp /\ Held' = [Held EXCEPT ![w] = <<o, claims[o] + 1>>]
  BY <1>1 DEF IInv, TypeOK, Held, ClaimNext
<1>3. status[o] \in {"Pending", "Running"}
  BY DEF ClaimNext, Claimable, Waiting
<1> QED
  BY <1>2, <1>3 DEF ClaimNext, Fenced!Claim

\* A process that passes the owner comparison holds the newest token.
LEMMA RefinesClose ==
    ASSUME IInv, NEW w \in Workers, MarkSucceeded(w) \/ ScheduleRetry(w) \/ MarkFailed(w)
    PROVE  \E o \in Ops : \E s \in {"Succeeded", "RolledBack", "Failed", "Pending"} :
               Fenced!Close(w, o, s)
<1> DEFINE o == cur[w]
<1>1. o \in Ops /\ Owns(w, o) /\ Release(w) /\ claims' = claims
  BY DEF MarkSucceeded, ScheduleRetry, CanRetry, MarkFailed, IInv, TypeOK, BusyHoldsOp
<1>2. status[o] = "Running"
  BY <1>1, NullOwnsNothing DEF IInv, LeasedIffRunning, Owns
<1>3. Held[w] = <<o, claims[o]>>
  BY <1>1, OperationsAssumption DEF Held, IInv, OwnerRunsNewestClaim
<1>4. PICK s \in {"Succeeded", "RolledBack", "Failed", "Pending"} : status' = [status EXCEPT ![o] = s]
  BY DEF MarkSucceeded, SuccessStatus, ScheduleRetry, MarkFailed, CloseRow
<1>5. Held' = [Held EXCEPT ![w] = NoOp]
  BY <1>1, ReleaseDrops
<1>6. Fenced!Close(w, o, s)
  BY <1>1, <1>2, <1>3, <1>4, <1>5 DEF Fenced!Close
<1> QED
  BY <1>1, <1>6

\* Every step of the queue is a step of the fenced queue, or a stutter.
THEOREM RefinesStep ==
    IInv /\ [Next]_vars => [Fenced!Next]_(Fenced!vars)
<1> SUFFICES ASSUME IInv, [Next]_vars PROVE [Fenced!Next]_(Fenced!vars)
  OBVIOUS
<1>1. ASSUME NEW w \in Workers, ProcessNext(w)
      PROVE  [Fenced!Next]_(Fenced!vars)
  <2>1. CASE FailStaleQueuedRestarts(w) \/ FailExhaustedOperations(w)
    BY <2>1, RefinesSweep
  <2>2. CASE \E o \in Ops : ClaimNext(w, o)
    BY <2>2, RefinesClaim DEF Fenced!Next
  <2>3. CASE NothingToClaim(w) \/ StartExecution(w) \/ EndExecution(w)
    BY <2>3, HeldStays DEF NothingToClaim, StartExecution, EndExecution, rowVars, Fenced!vars
  <2>4. CASE MarkSucceeded(w) \/ ScheduleRetry(w) \/ MarkFailed(w)
    BY <2>4, RefinesClose DEF Fenced!Next
  <2>5. CASE LeaseLost(w)
    <3>1. Fenced!Drop(w)
      BY <2>5, ReleaseDrops DEF LeaseLost, rowVars, Fenced!Drop
    <3> QED
      BY <3>1 DEF Fenced!Next
  <2> QED
    BY <1>1, <2>1, <2>2, <2>3, <2>4, <2>5 DEF ProcessNext
<1>2. ASSUME NEW w \in Workers, Abort(w)
      PROVE  [Fenced!Next]_(Fenced!vars)
  <2>1. Fenced!Drop(w)
    BY <1>2, ReleaseDrops DEF Abort, rowVars, Fenced!Drop
  <2> QED
    BY <2>1 DEF Fenced!Next
<1>3. ASSUME NEW w \in Workers, NEW o \in Ops, Heartbeat(w, o) \/ LoseHeartbeat(w, o)
      PROVE  [Fenced!Next]_(Fenced!vars)
  BY <1>3, HeldStays DEF Heartbeat, LoseHeartbeat, rowVars, procVars, Fenced!vars
<1>4. ASSUME NEW w \in Workers, SendHeartbeat(w)
      PROVE  [Fenced!Next]_(Fenced!vars)
  BY <1>4, HeldStays DEF SendHeartbeat, rowVars, procVars, Fenced!vars
<1>5. CASE UNCHANGED vars
  BY <1>5, HeldStays DEF vars, rowVars, procVars, Fenced!vars
<1> QED
  BY <1>1, <1>2, <1>3, <1>4, <1>5, RefinesRowStep DEF Next

\* Comparing leaseOwner, although worker ids are reused, is as good as a
\* fencing token drawn afresh for every claim.
THEOREM Refinement ==
    Spec => ImplementsFencedQueue
<1>1. Init => Fenced!Init
  BY DEF Init, Fenced!Init, Held
<1> QED
  BY <1>1, RefinesStep, Inductive, PTL DEF Spec, ImplementsFencedQueue, Fenced!Spec

=============================================================================
