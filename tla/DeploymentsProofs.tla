------------------------- MODULE DeploymentsProofs --------------------------
(***************************************************************************)
(* Proofs about the deployments of an AppGroup, for every number of apps,  *)
(* workers, versions, edits, crashes and attempts.                         *)
(*                                                                         *)
(* The argument: the jobs of the queue make sure that a deployment is      *)
(* executed by one process, the check for an active deployment that only   *)
(* the newest version is active; so what the step of a process says of its *)
(* row stays true until its own next step.                                 *)
(***************************************************************************)
EXTENDS Deployments, TLAPS

Active == {"Pending", "Deploying", "RollingBack"}

\* The steps at which a deployment goes forward, and those of a rollback.
Forward == {"Validate", "Provision", "Generate", "BeginApply", "Apply", "ApplyFailed",
            "BeginRollout", "Rollout", "ReadDraft", "Complete", "BeginRollback"}
Backward == {"RollbackApply", "RollbackRollout", "RollbackFailed", "RollbackDone"}
Working == {"Reconcile"} \cup Forward \cup Backward

\* A busy process holds a job, with the newest token of an Operation that was claimed
\* and is not closed by others, except that it may have been given up.
JobsAreNewest ==
    \A w \in Workers :
        /\ pc[w] = "Idle" <=> job[w] = NoJob
        /\ job[w] # NoJob =>
              /\ job[w][2] = opToken[Dep(w)] /\ opToken[Dep(w)] > 0
              /\ opStatus[Dep(w)] \in {"Running", "Failed"}

\* No two processes execute one deployment.
OneExecutor ==
    \A v, w \in Workers :
        job[v] # NoJob /\ job[w] # NoJob /\ Dep(v) = Dep(w) => v = w

\* The trigger makes a deployment and its Operation together.
RowsHaveOperations == \A v \in Versions : opStatus[v] = "Absent" <=> status[v] = "Absent"

\* Versions are made in order, and only the newest one may be active.
NewestIsActive ==
    \A u, v \in Versions :
        status[v] \in Active \cup {"Absent"} /\ u > v => status[u] = "Absent"

\* What the status of a row says of its phase and its target.
Shape(v) ==
    /\ status[v] \in {"Absent", "Pending"} => phase[v] = "Validating"
    /\ status[v] = "Deploying" =>
          phase[v] \in {"Validating", "PreparingArtifacts", "GeneratingStack",
                        "ApplyingStack", "WaitingForRollout"}
    /\ status[v] = "RollingBack" => phase[v] = "RollingBack" /\ target[v] # 0
    /\ status[v] \in {"Absent", "Succeeded"} => target[v] = 0
    /\ status[v] = "RolledBack" => target[v] # 0

RowShape == \A v \in Versions : Shape(v)

\* A target has succeeded, and so has the version the group points at.
TargetsSucceeded ==
    /\ current # 0 => status[current] = "Succeeded"
    /\ \A v \in Versions : target[v] # 0 => status[target[v]] = "Succeeded"

\* What the step of a process w says of the row of v, which it executes.
Matches(w, v) ==
    /\ pc[w] \in Working => status[v] \in {"Deploying", "RollingBack"} /\ owner[v] = w
    /\ pc[w] \in Forward => status[v] = "Deploying"
    /\ pc[w] \in Backward => status[v] = "RollingBack"
    /\ pc[w] \in {"Apply", "ApplyFailed", "BeginRollout", "Rollout", "ReadDraft", "Complete",
                  "BeginRollback"} => phase[v] \in {"ApplyingStack", "WaitingForRollout"}
    /\ pc[w] = "Result" => status[v] \in Terminal

StepMatchesRow == \A w \in Workers : Matches(w, Dep(w))

IInv ==
    /\ TypeOK
    /\ JobsAreNewest
    /\ OneExecutor
    /\ RowsHaveOperations
    /\ NewestIsActive
    /\ RowShape
    /\ TargetsSucceeded
    /\ StepMatchesRow
    /\ OperationTellsOutcome

-----------------------------------------------------------------------------
(* The steps of a process *)

\* A busy process executes a version of its own.
LEMMA Executes ==
    ASSUME DeploymentsAssumption, IInv, NEW w \in Workers, pc[w] # "Idle"
    PROVE  /\ Dep(w) \in Versions /\ job[w] # NoJob
           /\ \A u \in Workers : u # w /\ pc[u] # "Idle" => Dep(u) \in Versions \ {Dep(w)}
           /\ status[Dep(w)] # "Absent"
  BY DEF IInv, TypeOK, JobsAreNewest, OneExecutor, RowsHaveOperations, Dep

\* From f to g at most the value of x changes.
Only(f, g, x) == g = [f EXCEPT ![x] = g[x]]

\* A step of the executor of v that writes the row of v, and the group's row or the
\* stack, preserves IInv if what it writes is right for v and w.
LEMMA ExecutorStep ==
    ASSUME DeploymentsAssumption, IInv, NEW w \in Workers, NEW v \in Versions, v = Dep(w),
           pc[w] # "Idle", Only(pc, pc', w), pc'[w] \in Steps \ {"Idle"},
           Only(status, status', v), status'[v] \in Statuses,
           Only(phase, phase', v), phase'[v] \in Phases,
           Only(target, target', v), target'[v] \in {0} \cup Versions,
           Only(owner, owner', v), owner'[v] \in Workers \cup {NoOwner},
           Only(lease, lease', v), lease'[v] \in {"None", "Held", "Expired"},
           UNCHANGED <<content, revision, snap, reqVars, queueVars, read, aborts>>,
           rows' \in [Apps -> {"None", "Active", "PendingDeletion", "Gone"}],
           pending' \in BOOLEAN, current' \in {0} \cup Versions,
           groupStatus' \in {"Ready", "Error"},
           stack' \in [apps : SUBSET Apps, content : Nat \cup {Mixed}],
           status[v] \in Terminal => status'[v] = status[v],
           status'[v] = status[v] \/ status'[v] \notin {"Absent", "Pending"},
           Shape(v)', Matches(w, v)',
           target'[v] # 0 => target'[v] # v /\ status[target'[v]] = "Succeeded",
           current' # 0 => status'[current'] = "Succeeded"
    PROVE  IInv'
<1>1. /\ job[w] # NoJob /\ status[v] # "Absent"
      /\ \A u \in Workers : u # w /\ pc[u] # "Idle" => Dep(u) \in Versions \ {v}
      /\ \A u \in Workers : Dep(u)' = Dep(u)
  BY Executes DEF queueVars, Dep
<1>2. TypeOK'
  <2>1. pc' \in [Workers -> Steps]
    BY DEF IInv, TypeOK, Only
  <2>2. status' \in [Versions -> Statuses] /\ phase' \in [Versions -> Phases]
    BY SMTT(30) DEF IInv, TypeOK, Only
  <2>3. target' \in [Versions -> {0} \cup Versions]
    BY DEF IInv, TypeOK, Only
  <2>4. owner' \in [Versions -> Workers \cup {NoOwner}]
    BY DEF IInv, TypeOK, Only
  <2>5. lease' \in [Versions -> {"None", "Held", "Expired"}]
    BY DEF IInv, TypeOK, Only
  <2> QED
    BY <2>1, <2>2, <2>3, <2>4, <2>5 DEF IInv, TypeOK, reqVars, queueVars
<1>3. \A u \in Versions \ {v} : /\ status'[u] = status[u] /\ phase'[u] = phase[u]
                                /\ target'[u] = target[u] /\ owner'[u] = owner[u]
  BY DEF IInv, TypeOK, Only
<1>4. JobsAreNewest'
  BY <1>1 DEF IInv, TypeOK, JobsAreNewest, queueVars, Only
<1>5. OneExecutor'
  BY <1>1 DEF IInv, OneExecutor, queueVars
<1>6. RowsHaveOperations'
  BY <1>1, <1>3 DEF IInv, RowsHaveOperations, queueVars
<1>7. NewestIsActive'
  BY <1>1, <1>3 DEF IInv, TypeOK, NewestIsActive, Active, Statuses, Terminal
<1>8. RowShape'
  BY <1>3 DEF IInv, RowShape, Shape
<1>9. TargetsSucceeded'
  <2>1. ASSUME NEW u \in Versions, target'[u] # 0
        PROVE  status'[target'[u]] = "Succeeded"
    <3>1. target'[u] \in Versions /\ status[target'[u]] = "Succeeded"
      BY <1>3, <2>1 DEF IInv, TypeOK, TargetsSucceeded
    <3> QED
      BY <1>3, <3>1 DEF Terminal
  <2> QED
    BY <2>1 DEF TargetsSucceeded
<1>10. StepMatchesRow'
  <2>1. ASSUME NEW u \in Workers, u # w
        PROVE  Matches(u, Dep(u))'
    <3>1. pc'[u] = pc[u]
      BY <2>1 DEF IInv, TypeOK, Only
    <3>2. CASE pc[u] = "Idle"
      BY <3>1, <3>2 DEF Matches, Working, Forward, Backward
    <3>3. CASE pc[u] # "Idle"
      BY <1>1, <1>3, <2>1, <3>1, <3>3 DEF IInv, StepMatchesRow, Matches
    <3> QED
      BY <3>2, <3>3
  <2> QED
    BY <1>1, <2>1 DEF StepMatchesRow
<1>11. OperationTellsOutcome'
  BY <1>3 DEF IInv, OperationTellsOutcome, queueVars, Terminal
<1> QED
  BY <1>2, <1>4, <1>5, <1>6, <1>7, <1>8, <1>9, <1>10, <1>11 DEF IInv

\* claimDeploymentById preserves IInv: it takes the lease or leaves the row alone.
LEMMA ClaimDeploymentByIdPreserves ==
    ASSUME DeploymentsAssumption, IInv, NEW w \in Workers, NEW v \in Versions, v = Dep(w),
           ClaimDeploymentById(w, v)
    PROVE  IInv'
<1> USE DEF ClaimDeploymentById, Goto, LeasedByOther, RowStep, SetRow
<1>1. /\ pc[w] # "Idle" /\ Only(pc, pc', w) /\ pc'[w] \in Steps \ {"Idle"}
      /\ status[v] \in Terminal => status'[v] = status[v]
  BY DEF IInv, TypeOK, StepMatchesRow, Matches, Working, Forward, Backward, Terminal, Steps,
     depVars, Only
<1>2. /\ Only(status, status', v) /\ status'[v] \in Statuses
      /\ status'[v] = status[v] \/ status'[v] \notin {"Absent", "Pending"}
      /\ Only(phase, phase', v) /\ phase'[v] \in Phases
  <2>1. status[v] # "Absent"
    BY <1>1, Executes
  <2> QED
    BY <2>1 DEF IInv, TypeOK, StepMatchesRow, Matches, Working, Forward, Backward, Terminal,
       Statuses, Phases, depVars, Only
<1>3. /\ Only(owner, owner', v) /\ owner'[v] \in Workers \cup {NoOwner}
      /\ Only(lease, lease', v) /\ lease'[v] \in {"None", "Held", "Expired"}
  BY DEF IInv, TypeOK, depVars, Only
<1>4. /\ Only(target, target', v) /\ target'[v] \in {0} \cup Versions
      /\ target'[v] # 0 => target'[v] # v /\ status[target'[v]] = "Succeeded"
      /\ current' # 0 => status'[current'] = "Succeeded"
  BY <1>1 DEF IInv, TypeOK, StepMatchesRow, Matches, RowShape, Shape, TargetsSucceeded, Working,
     Forward, Backward, Terminal, groupVars, depVars, Only
<1>5. /\ UNCHANGED <<content, revision, snap, reqVars, queueVars, read, aborts>>
      /\ rows' \in [Apps -> {"None", "Active", "PendingDeletion", "Gone"}]
      /\ pending' \in BOOLEAN /\ current' \in {0} \cup Versions
      /\ groupStatus' \in {"Ready", "Error"}
      /\ stack' \in [apps : SUBSET Apps, content : Nat \cup {Mixed}]
  BY DEF IInv, TypeOK, groupVars, draftVars, depVars
<1>6. Shape(v)' /\ Matches(w, v)'
  <2>1. status[v] # "Absent"
    BY <1>1, Executes
  <2> QED
    BY <2>1 DEF IInv, TypeOK, RowShape, Shape, Matches, Working, Forward, Backward, Terminal,
       Statuses, depVars
<1> QED
  BY <1>1, <1>2, <1>3, <1>4, <1>5, <1>6, ExecutorStep

\* The recovery's choice of the next step preserves IInv.
LEMMA ReconcileClaimedDeploymentPreserves ==
    ASSUME DeploymentsAssumption, IInv, NEW w \in Workers, NEW v \in Versions, v = Dep(w),
           ReconcileClaimedDeployment(w, v)
    PROVE  IInv'
<1> USE DEF ReconcileClaimedDeployment, AfterObserving, DeferRecovery, Goto, Observes, RowStep
<1>1. /\ pc[w] # "Idle" /\ Only(pc, pc', w) /\ pc'[w] \in Steps \ {"Idle"}
      /\ status[v] \in Terminal => status'[v] = status[v]
  <2>1. pc[w] = "Reconcile" /\ status[v] \in {"Deploying", "RollingBack"}
    BY DEF IInv, StepMatchesRow, Matches, Working
  <2>2. PICK s \in Steps \ {"Idle"} : Goto(w, s)
    BY <2>1 DEF IInv, RowShape, Shape, Steps
  <2> QED
    BY <2>1, <2>2 DEF IInv, TypeOK, Only, Terminal
<1>2. /\ Only(status, status', v) /\ status'[v] \in Statuses \ {"Absent", "Pending"}
      /\ Only(phase, phase', v) /\ phase'[v] \in Phases
  BY DEF IInv, TypeOK, StepMatchesRow, Matches, Working, Forward, Backward, Terminal, Statuses,
     Phases, depVars, Only
<1>3. /\ Only(owner, owner', v) /\ owner'[v] \in Workers \cup {NoOwner}
      /\ Only(lease, lease', v) /\ lease'[v] \in {"None", "Held", "Expired"}
  BY DEF IInv, TypeOK, depVars, Only
<1>4. /\ Only(target, target', v) /\ target'[v] \in {0} \cup Versions
      /\ target'[v] # 0 => target'[v] # v /\ status[target'[v]] = "Succeeded"
      /\ current' # 0 => status'[current'] = "Succeeded"
  BY <1>1 DEF IInv, TypeOK, StepMatchesRow, Matches, RowShape, Shape, TargetsSucceeded, Working,
     Forward, Backward, Terminal, groupVars, depVars, Only
<1>5. /\ UNCHANGED <<content, revision, snap, reqVars, queueVars, read, aborts>>
      /\ rows' \in [Apps -> {"None", "Active", "PendingDeletion", "Gone"}]
      /\ pending' \in BOOLEAN /\ current' \in {0} \cup Versions
      /\ groupStatus' \in {"Ready", "Error"}
      /\ stack' \in [apps : SUBSET Apps, content : Nat \cup {Mixed}]
  BY DEF IInv, TypeOK, groupVars, draftVars, depVars
<1>6. Shape(v)' /\ Matches(w, v)'
  BY DEF IInv, TypeOK, RowShape, Shape, StepMatchesRow, Matches, Working, Forward, Backward,
     Terminal, depVars
<1> QED
  BY <1>1, <1>2, <1>3, <1>4, <1>5, <1>6, ExecutorStep

\* The end of the validation preserves IInv.
LEMMA AdvanceToPreparingArtifactsPreserves ==
    ASSUME DeploymentsAssumption, IInv, NEW w \in Workers, NEW v \in Versions, v = Dep(w),
           AdvanceToPreparingArtifacts(w, v)
    PROVE  IInv'
<1> USE DEF AdvanceToPreparingArtifacts, ClearLease, FailDeployment, Goto, RenewLease, RowStep, SetRow
<1>1. /\ pc[w] # "Idle" /\ Only(pc, pc', w) /\ pc'[w] \in Steps \ {"Idle"}
      /\ status[v] \in Terminal => status'[v] = status[v]
  BY DEF IInv, TypeOK, StepMatchesRow, Matches, Working, Forward, Backward, Terminal, Steps,
     depVars, Only
<1>2. /\ Only(status, status', v) /\ status'[v] \in Statuses \ {"Absent", "Pending"}
      /\ Only(phase, phase', v) /\ phase'[v] \in Phases
  BY DEF IInv, TypeOK, StepMatchesRow, Matches, Working, Forward, Backward, Terminal, Statuses,
     Phases, depVars, Only
<1>3. /\ Only(owner, owner', v) /\ owner'[v] \in Workers \cup {NoOwner}
      /\ Only(lease, lease', v) /\ lease'[v] \in {"None", "Held", "Expired"}
  BY DEF IInv, TypeOK, depVars, Only
<1>4. /\ Only(target, target', v) /\ target'[v] \in {0} \cup Versions
      /\ target'[v] # 0 => target'[v] # v /\ status[target'[v]] = "Succeeded"
      /\ current' # 0 => status'[current'] = "Succeeded"
  BY <1>1 DEF IInv, TypeOK, StepMatchesRow, Matches, RowShape, Shape, TargetsSucceeded, Working,
     Forward, Backward, Terminal, groupVars, depVars, Only
<1>5. /\ UNCHANGED <<content, revision, snap, reqVars, queueVars, read, aborts>>
      /\ rows' \in [Apps -> {"None", "Active", "PendingDeletion", "Gone"}]
      /\ pending' \in BOOLEAN /\ current' \in {0} \cup Versions
      /\ groupStatus' \in {"Ready", "Error"}
      /\ stack' \in [apps : SUBSET Apps, content : Nat \cup {Mixed}]
  BY DEF IInv, TypeOK, groupVars, draftVars, depVars
<1>6. Shape(v)' /\ Matches(w, v)'
  BY DEF IInv, TypeOK, RowShape, Shape, StepMatchesRow, Matches, Working, Forward, Backward,
     Terminal, depVars
<1> QED
  BY <1>1, <1>2, <1>3, <1>4, <1>5, <1>6, ExecutorStep

\* Provisioning preserves IInv.
LEMMA ProvisionArtifactsPreserves ==
    ASSUME DeploymentsAssumption, IInv, NEW w \in Workers, NEW v \in Versions, v = Dep(w),
           ProvisionArtifacts(w, v)
    PROVE  IInv'
<1> USE DEF ProvisionArtifacts, ClearLease, FailDeployment, Goto, RowStep, SetRow
<1>1. /\ pc[w] # "Idle" /\ Only(pc, pc', w) /\ pc'[w] \in Steps \ {"Idle"}
      /\ status[v] \in Terminal => status'[v] = status[v]
  BY DEF IInv, TypeOK, StepMatchesRow, Matches, Working, Forward, Backward, Terminal, Steps,
     depVars, Only
<1>2. /\ Only(status, status', v) /\ status'[v] \in Statuses \ {"Absent", "Pending"}
      /\ Only(phase, phase', v) /\ phase'[v] \in Phases
  BY DEF IInv, TypeOK, StepMatchesRow, Matches, Working, Forward, Backward, Terminal, Statuses,
     Phases, depVars, Only
<1>3. /\ Only(owner, owner', v) /\ owner'[v] \in Workers \cup {NoOwner}
      /\ Only(lease, lease', v) /\ lease'[v] \in {"None", "Held", "Expired"}
  BY DEF IInv, TypeOK, depVars, Only
<1>4. /\ Only(target, target', v) /\ target'[v] \in {0} \cup Versions
      /\ target'[v] # 0 => target'[v] # v /\ status[target'[v]] = "Succeeded"
      /\ current' # 0 => status'[current'] = "Succeeded"
  BY <1>1 DEF IInv, TypeOK, StepMatchesRow, Matches, RowShape, Shape, TargetsSucceeded, Working,
     Forward, Backward, Terminal, groupVars, depVars, Only
<1>5. /\ UNCHANGED <<content, revision, snap, reqVars, queueVars, read, aborts>>
      /\ rows' \in [Apps -> {"None", "Active", "PendingDeletion", "Gone"}]
      /\ pending' \in BOOLEAN /\ current' \in {0} \cup Versions
      /\ groupStatus' \in {"Ready", "Error"}
      /\ stack' \in [apps : SUBSET Apps, content : Nat \cup {Mixed}]
  BY DEF IInv, TypeOK, groupVars, draftVars, depVars
<1>6. Shape(v)' /\ Matches(w, v)'
  BY DEF IInv, TypeOK, RowShape, Shape, StepMatchesRow, Matches, Working, Forward, Backward,
     Terminal, depVars
<1> QED
  BY <1>1, <1>2, <1>3, <1>4, <1>5, <1>6, ExecutorStep

\* advanceDeployment preserves IInv.
LEMMA AdvanceDeploymentPreserves ==
    ASSUME DeploymentsAssumption, IInv, NEW w \in Workers, NEW v \in Versions, v = Dep(w),
           AdvanceDeployment(w, v)
    PROVE  IInv'
<1> USE DEF AdvanceDeployment, Goto, NextPhase, RenewLease, RowStep, SetRow
<1>1. /\ pc[w] # "Idle" /\ Only(pc, pc', w) /\ pc'[w] \in Steps \ {"Idle"}
      /\ status[v] \in Terminal => status'[v] = status[v]
  BY DEF IInv, TypeOK, StepMatchesRow, Matches, Working, Forward, Backward, Terminal, Steps,
     depVars, Only
<1>2. /\ Only(status, status', v) /\ status'[v] \in Statuses \ {"Absent", "Pending"}
      /\ Only(phase, phase', v) /\ phase'[v] \in Phases
  BY DEF IInv, TypeOK, StepMatchesRow, Matches, Working, Forward, Backward, Terminal, Statuses,
     Phases, depVars, Only
<1>3. /\ Only(owner, owner', v) /\ owner'[v] \in Workers \cup {NoOwner}
      /\ Only(lease, lease', v) /\ lease'[v] \in {"None", "Held", "Expired"}
  BY DEF IInv, TypeOK, depVars, Only
<1>4. /\ Only(target, target', v) /\ target'[v] \in {0} \cup Versions
      /\ target'[v] # 0 => target'[v] # v /\ status[target'[v]] = "Succeeded"
      /\ current' # 0 => status'[current'] = "Succeeded"
  BY <1>1 DEF IInv, TypeOK, StepMatchesRow, Matches, RowShape, Shape, TargetsSucceeded, Working,
     Forward, Backward, Terminal, groupVars, depVars, Only
<1>5. /\ UNCHANGED <<content, revision, snap, reqVars, queueVars, read, aborts>>
      /\ rows' \in [Apps -> {"None", "Active", "PendingDeletion", "Gone"}]
      /\ pending' \in BOOLEAN /\ current' \in {0} \cup Versions
      /\ groupStatus' \in {"Ready", "Error"}
      /\ stack' \in [apps : SUBSET Apps, content : Nat \cup {Mixed}]
  BY DEF IInv, TypeOK, groupVars, draftVars, depVars
<1>6. Shape(v)' /\ Matches(w, v)'
  BY DEF IInv, TypeOK, RowShape, Shape, StepMatchesRow, Matches, Working, Forward, Backward,
     Terminal, depVars
<1> QED
  BY <1>1, <1>2, <1>3, <1>4, <1>5, <1>6, ExecutorStep

\* docker stack deploy of the deployment preserves IInv.
LEMMA ApplyRenderedStackPreserves ==
    ASSUME DeploymentsAssumption, IInv, NEW w \in Workers, NEW v \in Versions, v = Dep(w),
           ApplyRenderedStack(w, v)
    PROVE  IInv'
<1> USE DEF ApplyRenderedStack, DockerApply, Goto
<1>1. /\ pc[w] # "Idle" /\ Only(pc, pc', w) /\ pc'[w] \in Steps \ {"Idle"}
      /\ status[v] \in Terminal => status'[v] = status[v]
  BY DEF IInv, TypeOK, StepMatchesRow, Matches, Working, Forward, Backward, Terminal, Steps,
     depVars, Only
<1>2. /\ Only(status, status', v) /\ status'[v] \in Statuses \ {"Absent", "Pending"}
      /\ Only(phase, phase', v) /\ phase'[v] \in Phases
  BY DEF IInv, TypeOK, StepMatchesRow, Matches, Working, Forward, Backward, Terminal, Statuses,
     Phases, depVars, Only
<1>3. /\ Only(owner, owner', v) /\ owner'[v] \in Workers \cup {NoOwner}
      /\ Only(lease, lease', v) /\ lease'[v] \in {"None", "Held", "Expired"}
  BY DEF IInv, TypeOK, depVars, Only
<1>4. /\ Only(target, target', v) /\ target'[v] \in {0} \cup Versions
      /\ target'[v] # 0 => target'[v] # v /\ status[target'[v]] = "Succeeded"
      /\ current' # 0 => status'[current'] = "Succeeded"
  BY <1>1 DEF IInv, TypeOK, StepMatchesRow, Matches, RowShape, Shape, TargetsSucceeded, Working,
     Forward, Backward, Terminal, groupVars, depVars, Only
<1>5. /\ UNCHANGED <<groupVars, snap, reqVars, queueVars, read, aborts>>
      /\ stack' \in [apps : SUBSET Apps, content : Nat \cup {Mixed}]
  <2>1. /\ snap[v] \in Snaps
        /\ stack \in [apps : SUBSET Apps, content : Nat \cup {Mixed}]
    BY DEF IInv, TypeOK
  <2> QED
    BY <2>1 DEF Snaps, depVars
<1>6. Shape(v)' /\ Matches(w, v)'
  BY DEF IInv, TypeOK, RowShape, Shape, StepMatchesRow, Matches, Working, Forward, Backward,
     Terminal, depVars
<1> QED
  BY ZenonT(60), <1>1, <1>2, <1>3, <1>4, <1>5, <1>6, ExecutorStep DEF IInv, TypeOK, groupVars, draftVars

\* A failed apply preserves IInv.
LEMMA FailApplyPreserves ==
    ASSUME DeploymentsAssumption, IInv, NEW w \in Workers, NEW v \in Versions, v = Dep(w),
           FailApply(w, v)
    PROVE  IInv'
<1> USE DEF FailApply, ClearLease, FailDeployment, Goto, RowStep, SetRow
<1>1. /\ pc[w] # "Idle" /\ Only(pc, pc', w) /\ pc'[w] \in Steps \ {"Idle"}
      /\ status[v] \in Terminal => status'[v] = status[v]
  BY DEF IInv, TypeOK, StepMatchesRow, Matches, Working, Forward, Backward, Terminal, Steps,
     depVars, Only
<1>2. /\ Only(status, status', v) /\ status'[v] \in Statuses \ {"Absent", "Pending"}
      /\ Only(phase, phase', v) /\ phase'[v] \in Phases
  BY DEF IInv, TypeOK, StepMatchesRow, Matches, Working, Forward, Backward, Terminal, Statuses,
     Phases, depVars, Only
<1>3. /\ Only(owner, owner', v) /\ owner'[v] \in Workers \cup {NoOwner}
      /\ Only(lease, lease', v) /\ lease'[v] \in {"None", "Held", "Expired"}
  BY DEF IInv, TypeOK, depVars, Only
<1>4. /\ Only(target, target', v) /\ target'[v] \in {0} \cup Versions
      /\ target'[v] # 0 => target'[v] # v /\ status[target'[v]] = "Succeeded"
      /\ current' # 0 => status'[current'] = "Succeeded"
  BY <1>1 DEF IInv, TypeOK, StepMatchesRow, Matches, RowShape, Shape, TargetsSucceeded, Working,
     Forward, Backward, Terminal, groupVars, depVars, Only
<1>5. /\ UNCHANGED <<content, revision, snap, reqVars, queueVars, read, aborts>>
      /\ rows' \in [Apps -> {"None", "Active", "PendingDeletion", "Gone"}]
      /\ pending' \in BOOLEAN /\ current' \in {0} \cup Versions
      /\ groupStatus' \in {"Ready", "Error"}
      /\ stack' \in [apps : SUBSET Apps, content : Nat \cup {Mixed}]
  BY DEF IInv, TypeOK, groupVars, draftVars, depVars
<1>6. Shape(v)' /\ Matches(w, v)'
  BY DEF IInv, TypeOK, RowShape, Shape, StepMatchesRow, Matches, Working, Forward, Backward,
     Terminal, depVars
<1> QED
  BY <1>1, <1>2, <1>3, <1>4, <1>5, <1>6, ExecutorStep

\* The wait for the rollout preserves IInv.
LEMMA WaitForRolloutPreserves ==
    ASSUME DeploymentsAssumption, IInv, NEW w \in Workers, NEW v \in Versions, v = Dep(w),
           WaitForRollout(w, v)
    PROVE  IInv'
<1> USE DEF WaitForRollout, Goto, RowStep
<1>1. /\ pc[w] # "Idle" /\ Only(pc, pc', w) /\ pc'[w] \in Steps \ {"Idle"}
      /\ status[v] \in Terminal => status'[v] = status[v]
  BY DEF IInv, TypeOK, StepMatchesRow, Matches, Working, Forward, Backward, Terminal, Steps,
     depVars, Only
<1>2. /\ Only(status, status', v) /\ status'[v] \in Statuses \ {"Absent", "Pending"}
      /\ Only(phase, phase', v) /\ phase'[v] \in Phases
  BY DEF IInv, TypeOK, StepMatchesRow, Matches, Working, Forward, Backward, Terminal, Statuses,
     Phases, depVars, Only
<1>3. /\ Only(owner, owner', v) /\ owner'[v] \in Workers \cup {NoOwner}
      /\ Only(lease, lease', v) /\ lease'[v] \in {"None", "Held", "Expired"}
  BY DEF IInv, TypeOK, depVars, Only
<1>4. /\ Only(target, target', v) /\ target'[v] \in {0} \cup Versions
      /\ target'[v] # 0 => target'[v] # v /\ status[target'[v]] = "Succeeded"
      /\ current' # 0 => status'[current'] = "Succeeded"
  BY <1>1 DEF IInv, TypeOK, StepMatchesRow, Matches, RowShape, Shape, TargetsSucceeded, Working,
     Forward, Backward, Terminal, groupVars, depVars, Only
<1>5. /\ UNCHANGED <<content, revision, snap, reqVars, queueVars, read, aborts>>
      /\ rows' \in [Apps -> {"None", "Active", "PendingDeletion", "Gone"}]
      /\ pending' \in BOOLEAN /\ current' \in {0} \cup Versions
      /\ groupStatus' \in {"Ready", "Error"}
      /\ stack' \in [apps : SUBSET Apps, content : Nat \cup {Mixed}]
  BY DEF IInv, TypeOK, groupVars, draftVars, depVars
<1>6. Shape(v)' /\ Matches(w, v)'
  BY DEF IInv, TypeOK, RowShape, Shape, StepMatchesRow, Matches, Working, Forward, Backward,
     Terminal, depVars
<1> QED
  BY <1>1, <1>2, <1>3, <1>4, <1>5, <1>6, ExecutorStep

\* The completing transaction preserves IInv: what the group points at has succeeded.
LEMMA CompleteDeploymentPreserves ==
    ASSUME DeploymentsAssumption, IInv, NEW w \in Workers, NEW v \in Versions, v = Dep(w),
           CompleteDeployment(w, v)
    PROVE  IInv'
<1> USE DEF CompleteDeployment, ClearLease, Goto, SetRow
<1>1. /\ pc[w] # "Idle" /\ Only(pc, pc', w) /\ pc'[w] \in Steps \ {"Idle"}
      /\ status[v] \in Terminal => status'[v] = status[v]
  BY DEF IInv, TypeOK, StepMatchesRow, Matches, Working, Forward, Backward, Terminal, Steps,
     depVars, Only
<1>2. /\ Only(status, status', v) /\ status'[v] \in Statuses \ {"Absent", "Pending"}
      /\ Only(phase, phase', v) /\ phase'[v] \in Phases
  BY DEF IInv, TypeOK, StepMatchesRow, Matches, Working, Forward, Backward, Terminal, Statuses,
     Phases, depVars, Only
<1>3. /\ Only(owner, owner', v) /\ owner'[v] \in Workers \cup {NoOwner}
      /\ Only(lease, lease', v) /\ lease'[v] \in {"None", "Held", "Expired"}
  BY DEF IInv, TypeOK, depVars, Only
<1>4. /\ Only(target, target', v) /\ target'[v] \in {0} \cup Versions
      /\ target'[v] # 0 => target'[v] # v /\ status[target'[v]] = "Succeeded"
      /\ current' # 0 => status'[current'] = "Succeeded"
  BY <1>1 DEF IInv, TypeOK, StepMatchesRow, Matches, RowShape, Shape, TargetsSucceeded, Working,
     Forward, Backward, Terminal, groupVars, depVars, Only
<1>5. /\ UNCHANGED <<content, revision, snap, reqVars, queueVars, read, aborts>>
      /\ rows' \in [Apps -> {"None", "Active", "PendingDeletion", "Gone"}]
      /\ pending' \in BOOLEAN /\ current' \in {0} \cup Versions
      /\ groupStatus' \in {"Ready", "Error"}
      /\ stack' \in [apps : SUBSET Apps, content : Nat \cup {Mixed}]
  BY DEF IInv, TypeOK, groupVars, draftVars, depVars
<1>6. Shape(v)' /\ Matches(w, v)'
  BY DEF IInv, TypeOK, RowShape, Shape, StepMatchesRow, Matches, Working, Forward, Backward,
     Terminal, depVars
<1> QED
  BY <1>1, <1>2, <1>3, <1>4, <1>5, <1>6, ExecutorStep

\* The choice of a rollback's target, or the failure without one, preserves IInv.
LEMMA RollbackAfterRuntimeFailurePreserves ==
    ASSUME DeploymentsAssumption, IInv, NEW w \in Workers, NEW v \in Versions, v = Dep(w),
           RollbackAfterRuntimeFailure(w, v)
    PROVE  IInv'
<1> USE DEF RollbackAfterRuntimeFailure, ClearLease, FailDeployment, Goto, KeepLease, RollbackTarget, RowStep, SetRow
<1>1. /\ pc[w] # "Idle" /\ Only(pc, pc', w) /\ pc'[w] \in Steps \ {"Idle"}
      /\ status[v] \in Terminal => status'[v] = status[v]
  BY DEF IInv, TypeOK, StepMatchesRow, Matches, Working, Forward, Backward, Terminal, Steps,
     depVars, Only
<1>2. /\ Only(status, status', v) /\ status'[v] \in Statuses \ {"Absent", "Pending"}
      /\ Only(phase, phase', v) /\ phase'[v] \in Phases
  BY DEF IInv, TypeOK, StepMatchesRow, Matches, Working, Forward, Backward, Terminal, Statuses,
     Phases, depVars, Only
<1>3. /\ Only(owner, owner', v) /\ owner'[v] \in Workers \cup {NoOwner}
      /\ Only(lease, lease', v) /\ lease'[v] \in {"None", "Held", "Expired"}
  BY DEF IInv, TypeOK, depVars, Only
<1>4. /\ Only(target, target', v) /\ target'[v] \in {0} \cup Versions
      /\ target'[v] # 0 => target'[v] # v /\ status[target'[v]] = "Succeeded"
      /\ current' # 0 => status'[current'] = "Succeeded"
  BY <1>1 DEF IInv, TypeOK, StepMatchesRow, Matches, RowShape, Shape, TargetsSucceeded, Working,
     Forward, Backward, Terminal, groupVars, depVars, Only
<1>5. /\ UNCHANGED <<content, revision, snap, reqVars, queueVars, read, aborts>>
      /\ rows' \in [Apps -> {"None", "Active", "PendingDeletion", "Gone"}]
      /\ pending' \in BOOLEAN /\ current' \in {0} \cup Versions
      /\ groupStatus' \in {"Ready", "Error"}
      /\ stack' \in [apps : SUBSET Apps, content : Nat \cup {Mixed}]
  BY DEF IInv, TypeOK, groupVars, draftVars, depVars
<1>6. Shape(v)' /\ Matches(w, v)'
  <2>1. CASE FailDeployment(w, v)
    BY <1>1, <2>1 DEF IInv, TypeOK, RowShape, Shape, StepMatchesRow, Matches, Working, Forward,
       Backward, Terminal
  <2>2. CASE ~FailDeployment(w, v)
    <3>1. PICK t \in Versions : target' = [target EXCEPT ![v] = t]
      BY <2>2
    <3>2. target'[v] = t /\ t # 0 /\ status'[v] = "RollingBack" /\ phase'[v] = "RollingBack"
      BY <2>2, <3>1 DEF IInv, TypeOK, Versions, DeploymentsAssumption
    <3> QED
      BY <1>1, <2>2, <3>2 DEF IInv, TypeOK, Shape, StepMatchesRow, Matches, Working, Forward,
         Backward, Terminal
  <2> QED
    BY <2>1, <2>2
<1> QED
  BY <1>1, <1>2, <1>3, <1>4, <1>5, <1>6, ExecutorStep

\* docker stack deploy of a rollback's target preserves IInv.
LEMMA ApplyRollbackPreserves ==
    ASSUME DeploymentsAssumption, IInv, NEW w \in Workers, NEW v \in Versions, v = Dep(w),
           ApplyRollback(w, v)
    PROVE  IInv'
<1> USE DEF ApplyRollback, DockerApply, Goto
<1>1. /\ pc[w] # "Idle" /\ Only(pc, pc', w) /\ pc'[w] \in Steps \ {"Idle"}
      /\ status[v] \in Terminal => status'[v] = status[v]
  BY DEF IInv, TypeOK, StepMatchesRow, Matches, Working, Forward, Backward, Terminal, Steps,
     depVars, Only
<1>2. /\ Only(status, status', v) /\ status'[v] \in Statuses \ {"Absent", "Pending"}
      /\ Only(phase, phase', v) /\ phase'[v] \in Phases
  BY DEF IInv, TypeOK, StepMatchesRow, Matches, Working, Forward, Backward, Terminal, Statuses,
     Phases, depVars, Only
<1>3. /\ Only(owner, owner', v) /\ owner'[v] \in Workers \cup {NoOwner}
      /\ Only(lease, lease', v) /\ lease'[v] \in {"None", "Held", "Expired"}
  BY DEF IInv, TypeOK, depVars, Only
<1>4. /\ Only(target, target', v) /\ target'[v] \in {0} \cup Versions
      /\ target'[v] # 0 => target'[v] # v /\ status[target'[v]] = "Succeeded"
      /\ current' # 0 => status'[current'] = "Succeeded"
  BY <1>1 DEF IInv, TypeOK, StepMatchesRow, Matches, RowShape, Shape, TargetsSucceeded, Working,
     Forward, Backward, Terminal, groupVars, depVars, Only
<1>5. /\ UNCHANGED <<groupVars, snap, reqVars, queueVars, read, aborts>>
      /\ stack' \in [apps : SUBSET Apps, content : Nat \cup {Mixed}]
  <2>1. /\ snap[target[v]] \in Snaps
        /\ stack \in [apps : SUBSET Apps, content : Nat \cup {Mixed}]
    BY DEF IInv, TypeOK, StepMatchesRow, Matches, Backward, RowShape, Shape
  <2> QED
    BY <2>1 DEF Snaps, depVars
<1>6. Shape(v)' /\ Matches(w, v)'
  BY DEF IInv, TypeOK, RowShape, Shape, StepMatchesRow, Matches, Working, Forward, Backward,
     Terminal, depVars
<1> QED
  BY ZenonT(60), <1>1, <1>2, <1>3, <1>4, <1>5, <1>6, ExecutorStep DEF IInv, TypeOK, groupVars, draftVars

\* The wait for the rollback's rollout preserves IInv.
LEMMA WaitForRollbackPreserves ==
    ASSUME DeploymentsAssumption, IInv, NEW w \in Workers, NEW v \in Versions, v = Dep(w),
           WaitForRollback(w, v)
    PROVE  IInv'
<1> USE DEF WaitForRollback, Goto, RowStep
<1>1. /\ pc[w] # "Idle" /\ Only(pc, pc', w) /\ pc'[w] \in Steps \ {"Idle"}
      /\ status[v] \in Terminal => status'[v] = status[v]
  BY DEF IInv, TypeOK, StepMatchesRow, Matches, Working, Forward, Backward, Terminal, Steps,
     depVars, Only
<1>2. /\ Only(status, status', v) /\ status'[v] \in Statuses \ {"Absent", "Pending"}
      /\ Only(phase, phase', v) /\ phase'[v] \in Phases
  BY DEF IInv, TypeOK, StepMatchesRow, Matches, Working, Forward, Backward, Terminal, Statuses,
     Phases, depVars, Only
<1>3. /\ Only(owner, owner', v) /\ owner'[v] \in Workers \cup {NoOwner}
      /\ Only(lease, lease', v) /\ lease'[v] \in {"None", "Held", "Expired"}
  BY DEF IInv, TypeOK, depVars, Only
<1>4. /\ Only(target, target', v) /\ target'[v] \in {0} \cup Versions
      /\ target'[v] # 0 => target'[v] # v /\ status[target'[v]] = "Succeeded"
      /\ current' # 0 => status'[current'] = "Succeeded"
  BY <1>1 DEF IInv, TypeOK, StepMatchesRow, Matches, RowShape, Shape, TargetsSucceeded, Working,
     Forward, Backward, Terminal, groupVars, depVars, Only
<1>5. /\ UNCHANGED <<content, revision, snap, reqVars, queueVars, read, aborts>>
      /\ rows' \in [Apps -> {"None", "Active", "PendingDeletion", "Gone"}]
      /\ pending' \in BOOLEAN /\ current' \in {0} \cup Versions
      /\ groupStatus' \in {"Ready", "Error"}
      /\ stack' \in [apps : SUBSET Apps, content : Nat \cup {Mixed}]
  BY DEF IInv, TypeOK, groupVars, draftVars, depVars
<1>6. Shape(v)' /\ Matches(w, v)'
  BY DEF IInv, TypeOK, RowShape, Shape, StepMatchesRow, Matches, Working, Forward, Backward,
     Terminal, depVars
<1> QED
  BY <1>1, <1>2, <1>3, <1>4, <1>5, <1>6, ExecutorStep

\* markRollbackFailed preserves IInv.
LEMMA MarkRollbackFailedPreserves ==
    ASSUME DeploymentsAssumption, IInv, NEW w \in Workers, NEW v \in Versions, v = Dep(w),
           MarkRollbackFailed(w, v)
    PROVE  IInv'
<1> USE DEF MarkRollbackFailed, ClearLease, Goto, SetRow
<1>1. /\ pc[w] # "Idle" /\ Only(pc, pc', w) /\ pc'[w] \in Steps \ {"Idle"}
      /\ status[v] \in Terminal => status'[v] = status[v]
  BY DEF IInv, TypeOK, StepMatchesRow, Matches, Working, Forward, Backward, Terminal, Steps,
     depVars, Only
<1>2. /\ Only(status, status', v) /\ status'[v] \in Statuses \ {"Absent", "Pending"}
      /\ Only(phase, phase', v) /\ phase'[v] \in Phases
  BY DEF IInv, TypeOK, StepMatchesRow, Matches, Working, Forward, Backward, Terminal, Statuses,
     Phases, depVars, Only
<1>3. /\ Only(owner, owner', v) /\ owner'[v] \in Workers \cup {NoOwner}
      /\ Only(lease, lease', v) /\ lease'[v] \in {"None", "Held", "Expired"}
  BY DEF IInv, TypeOK, depVars, Only
<1>4. /\ Only(target, target', v) /\ target'[v] \in {0} \cup Versions
      /\ target'[v] # 0 => target'[v] # v /\ status[target'[v]] = "Succeeded"
      /\ current' # 0 => status'[current'] = "Succeeded"
  BY <1>1 DEF IInv, TypeOK, StepMatchesRow, Matches, RowShape, Shape, TargetsSucceeded, Working,
     Forward, Backward, Terminal, groupVars, depVars, Only
<1>5. /\ UNCHANGED <<content, revision, snap, reqVars, queueVars, read, aborts>>
      /\ rows' \in [Apps -> {"None", "Active", "PendingDeletion", "Gone"}]
      /\ pending' \in BOOLEAN /\ current' \in {0} \cup Versions
      /\ groupStatus' \in {"Ready", "Error"}
      /\ stack' \in [apps : SUBSET Apps, content : Nat \cup {Mixed}]
  BY DEF IInv, TypeOK, groupVars, draftVars, depVars
<1>6. Shape(v)' /\ Matches(w, v)'
  BY DEF IInv, TypeOK, RowShape, Shape, StepMatchesRow, Matches, Working, Forward, Backward,
     Terminal, depVars
<1> QED
  BY <1>1, <1>2, <1>3, <1>4, <1>5, <1>6, ExecutorStep

\* The transaction that completes a rollback preserves IInv.
LEMMA CompleteRollbackPreserves ==
    ASSUME DeploymentsAssumption, IInv, NEW w \in Workers, NEW v \in Versions, v = Dep(w),
           CompleteRollback(w, v)
    PROVE  IInv'
<1> USE DEF CompleteRollback, ClearLease, Goto, SetRow
<1>1. /\ pc[w] # "Idle" /\ Only(pc, pc', w) /\ pc'[w] \in Steps \ {"Idle"}
      /\ status[v] \in Terminal => status'[v] = status[v]
  BY DEF IInv, TypeOK, StepMatchesRow, Matches, Working, Forward, Backward, Terminal, Steps,
     depVars, Only
<1>2. /\ Only(status, status', v) /\ status'[v] \in Statuses \ {"Absent", "Pending"}
      /\ Only(phase, phase', v) /\ phase'[v] \in Phases
  BY DEF IInv, TypeOK, StepMatchesRow, Matches, Working, Forward, Backward, Terminal, Statuses,
     Phases, depVars, Only
<1>3. /\ Only(owner, owner', v) /\ owner'[v] \in Workers \cup {NoOwner}
      /\ Only(lease, lease', v) /\ lease'[v] \in {"None", "Held", "Expired"}
  BY DEF IInv, TypeOK, depVars, Only
<1>4. /\ Only(target, target', v) /\ target'[v] \in {0} \cup Versions
      /\ target'[v] # 0 => target'[v] # v /\ status[target'[v]] = "Succeeded"
      /\ current' # 0 => status'[current'] = "Succeeded"
  BY <1>1 DEF IInv, TypeOK, StepMatchesRow, Matches, RowShape, Shape, TargetsSucceeded, Working,
     Forward, Backward, Terminal, groupVars, depVars, Only
<1>5. /\ UNCHANGED <<content, revision, snap, reqVars, queueVars, read, aborts>>
      /\ rows' \in [Apps -> {"None", "Active", "PendingDeletion", "Gone"}]
      /\ pending' \in BOOLEAN /\ current' \in {0} \cup Versions
      /\ groupStatus' \in {"Ready", "Error"}
      /\ stack' \in [apps : SUBSET Apps, content : Nat \cup {Mixed}]
  BY DEF IInv, TypeOK, groupVars, draftVars, depVars
<1>6. Shape(v)' /\ Matches(w, v)'
  BY DEF IInv, TypeOK, RowShape, Shape, StepMatchesRow, Matches, Working, Forward, Backward,
     Terminal, depVars
<1> QED
  BY <1>1, <1>2, <1>3, <1>4, <1>5, <1>6, ExecutorStep

-----------------------------------------------------------------------------
(* The other actions *)

\* The INSERT of a deployment and its Operation, when none is active, preserves IInv.
LEMMA CreateDeploymentPreserves ==
    ASSUME DeploymentsAssumption, IInv, NEW v \in Versions, NEW s \in Snaps,
           NEW t \in {0} \cup Versions, t # 0 => status[t] = "Succeeded",
           ~ActiveDeployment, CreateDeployment(v, s, t),
           deployReq' \in Snaps \cup {NoRequest},
           UNCHANGED <<groupVars, discardReq, pc, read, stack, aborts>>
    PROVE  IInv'
<1> USE DEF CreateDeployment, NextVersion, Queue!Enqueue
<1>1. /\ \A u \in Versions : status[u] \notin Active
      /\ \A w \in Workers : pc[w] # "Idle" => Dep(w) \in Versions \ {v}
      /\ \A w \in Workers : Dep(w)' = Dep(w)
  BY Executes DEF ActiveDeployment, Active, Dep
<1>2. TypeOK'
  <2>1. status' \in [Versions -> Statuses] /\ snap' \in [Versions -> Snaps]
    BY DEF IInv, TypeOK, Statuses
  <2>2. target' \in [Versions -> {0} \cup Versions]
    BY DEF IInv, TypeOK
  <2>3. opStatus' \in [Versions -> {"Absent", "Pending", "Running",
                                    "Succeeded", "RolledBack", "Failed"}]
    BY DEF IInv, TypeOK
  <2> QED
    BY <2>1, <2>2, <2>3 DEF IInv, TypeOK, groupVars, draftVars
<1>3. JobsAreNewest'
  BY <1>1 DEF IInv, TypeOK, JobsAreNewest
<1>4. OneExecutor' /\ RowsHaveOperations'
  BY DEF IInv, TypeOK, OneExecutor, RowsHaveOperations, Dep
<1>5. NewestIsActive'
  <2>1. ASSUME NEW x \in Versions, NEW y \in Versions, status'[y] \in Active \cup {"Absent"}, x > y
        PROVE  status'[x] = "Absent"
    <3>1. y = v \/ status[y] = "Absent"
      BY <1>1, <2>1 DEF IInv, TypeOK
    <3>2. x # v
      BY <2>1, <3>1 DEF Versions
    <3>3. status[x] = "Absent"
      BY <2>1, <3>1 DEF IInv, NewestIsActive
    <3> QED
      BY <3>2, <3>3 DEF IInv, TypeOK
  <2> QED
    BY <2>1 DEF NewestIsActive
<1>6. RowShape'
  BY DEF IInv, TypeOK, RowShape, Shape
<1>7. TargetsSucceeded'
  BY DEF IInv, TypeOK, TargetsSucceeded, groupVars
<1>8. StepMatchesRow'
  <2>1. ASSUME NEW w \in Workers PROVE Matches(w, Dep(w))'
    BY <1>1 DEF IInv, TypeOK, StepMatchesRow, Matches, Working, Forward, Backward
  <2> QED
    BY <2>1 DEF StepMatchesRow
<1>9. OperationTellsOutcome'
  BY DEF IInv, TypeOK, OperationTellsOutcome
<1> QED
  BY <1>2, <1>3, <1>4, <1>5, <1>6, <1>7, <1>8, <1>9 DEF IInv

\* deployAppGroup's transaction preserves IInv.
LEMMA DeployAppGroupPreserves ==
    ASSUME DeploymentsAssumption, IInv, DeployAppGroup
    PROVE  IInv'
<1>1. CASE ActiveDeployment
  BY <1>1 DEF IInv, TypeOK, JobsAreNewest, OneExecutor, RowsHaveOperations, NewestIsActive,
     RowShape, Shape,
      TargetsSucceeded, StepMatchesRow, Matches, OperationTellsOutcome,
      DeployAppGroup, Dep, groupVars, draftVars, depVars, queueVars
<1>2. CASE ~ActiveDeployment
  BY <1>2, CreateDeploymentPreserves DEF IInv, TypeOK, DeployAppGroup
<1> QED
  BY <1>1, <1>2

\* The request of a rollback preserves IInv.
LEMMA RollbackDeploymentPreserves ==
    ASSUME DeploymentsAssumption, IInv, NEW t \in Versions, RollbackDeployment(t)
    PROVE  IInv'
<1>1. PICK v \in Versions : CreateDeployment(v, [snap[t] EXCEPT !.source = revision], t)
  BY DEF RollbackDeployment
<1>2. [snap[t] EXCEPT !.source = revision] \in Snaps
  <2>1. snap[t] \in Snaps /\ revision \in Nat
    BY DEF IInv, TypeOK
  <2> QED
    BY <2>1 DEF Snaps
<1> QED
  BY <1>1, <1>2, CreateDeploymentPreserves DEF IInv, TypeOK, RollbackDeployment, reqVars

\* A step that leaves the deployments, their Operations and their processes alone
\* preserves IInv.
LEMMA GroupStep ==
    ASSUME IInv, TypeOK', UNCHANGED <<current, depVars, queueVars, pc>>
    PROVE  IInv'
<1>1. \A w \in Workers : Dep(w)' = Dep(w) /\ (Matches(w, Dep(w)) => Matches(w, Dep(w))')
  BY DEF Matches, Dep, depVars, queueVars
<1>2. \A v \in Versions : Shape(v) => Shape(v)'
  BY DEF Shape, depVars
<1> QED
  BY <1>1, <1>2 DEF IInv, JobsAreNewest, OneExecutor, RowsHaveOperations, NewestIsActive,
     RowShape,
      TargetsSucceeded, StepMatchesRow, OperationTellsOutcome, depVars, queueVars

\* The edits of the draft preserve IInv.
LEMMA EditPreserves ==
    ASSUME DeploymentsAssumption, IInv, Edit
    PROVE  IInv'
<1>1. /\ UNCHANGED <<current, groupStatus, depVars, reqVars, queueVars, pc, read, stack, aborts>>
      /\ rows' \in [Apps -> {"None", "Active", "PendingDeletion", "Gone"}]
      /\ content' \in Nat /\ revision' \in Nat /\ pending' \in BOOLEAN
  <2>1. CASE UpdateSingleApp
    BY <2>1 DEF IInv, TypeOK, UpdateSingleApp, MarkAppGroupDraftChanged
  <2>2. CASE \E a \in Apps : CreateSingleApp(a) \/ MarkSingleAppPendingDeletion(a)
    <3>1. PICK a \in Apps : CreateSingleApp(a) \/ MarkSingleAppPendingDeletion(a)
      BY <2>2
    <3>2. MarkAppGroupDraftChanged /\ rows' \in [Apps -> {"None", "Active", "PendingDeletion", "Gone"}]
      BY <3>1 DEF IInv, TypeOK, CreateSingleApp, MarkSingleAppPendingDeletion
    <3> QED
      BY <3>2 DEF IInv, TypeOK, MarkAppGroupDraftChanged
  <2> QED
    BY <2>1, <2>2 DEF Edit
<1>2. TypeOK'
  BY <1>1 DEF IInv, TypeOK, depVars, reqVars, queueVars
<1> QED
  BY <1>1, <1>2, GroupStep

\* The reads of deployAppGroup and discardDraftChanges preserve IInv.
LEMMA ReadRequestPreserves ==
    ASSUME DeploymentsAssumption, IInv, ReadDeployableDraft \/ ReadRestorableSnapshot
    PROVE  IInv'
<1>1. /\ UNCHANGED <<groupVars, depVars, queueVars, pc, read, stack, aborts>>
      /\ deployReq' \in Snaps \cup {NoRequest} /\ discardReq' \in Versions \cup {NoRequest}
  BY DEF IInv, TypeOK, ReadDeployableDraft, ReadRestorableSnapshot, Snapshot, ActiveApps, Snaps
<1>2. TypeOK'
  BY <1>1 DEF IInv, TypeOK, groupVars, draftVars, depVars, queueVars
<1> QED
  BY <1>1, <1>2, GroupStep DEF groupVars

\* discardDraftChanges' transaction preserves IInv.
LEMMA DiscardDraftChangesPreserves ==
    ASSUME DeploymentsAssumption, IInv, DiscardDraftChanges
    PROVE  IInv'
<1>1. /\ UNCHANGED <<current, groupStatus, depVars, deployReq, queueVars, pc, read, stack, aborts>>
      /\ discardReq' = NoRequest
  BY DEF DiscardDraftChanges
<1>2. snap[discardReq] \in Snaps
  BY DEF IInv, TypeOK, DiscardDraftChanges
<1>3. /\ rows' \in [Apps -> {"None", "Active", "PendingDeletion", "Gone"}]
      /\ content' \in Nat /\ revision' \in Nat /\ pending' \in BOOLEAN
  BY <1>2 DEF IInv, TypeOK, DiscardDraftChanges, draftVars, Snaps
<1>4. TypeOK'
  BY <1>1, <1>3 DEF IInv, TypeOK, depVars, queueVars
<1> QED
  BY <1>1, <1>4, GroupStep

\* The steps of the lease and of the sweep preserve IInv.
LEMMA TimePreserves ==
    ASSUME DeploymentsAssumption, IInv, NEW v \in Versions,
           FailExhaustedOperation(v) \/ DeploymentLeaseExpires(v)
    PROVE  IInv'
<1> USE DEF FailExhaustedOperation, DeploymentLeaseExpires, Queue!GiveUp
<1>1. /\ UNCHANGED <<groupVars, status, phase, snap, target, owner, reqVars, opToken, job, maxAttempts, pc, read,
                     stack, aborts>>
      /\ lease' \in [Versions -> {"None", "Held", "Expired"}]
      /\ opStatus' \in [Versions -> {"Absent", "Pending", "Running",
                                     "Succeeded", "RolledBack", "Failed"}]
      /\ \A u \in Versions : \/ opStatus'[u] = opStatus[u]
                             \/ opStatus[u] = "Running" /\ opStatus'[u] = "Failed"
  BY DEF IInv, TypeOK, depVars, queueVars
<1>2. TypeOK'
  BY <1>1 DEF IInv, TypeOK, groupVars, draftVars, reqVars
<1>3. JobsAreNewest' /\ OneExecutor'
  BY <1>1 DEF IInv, TypeOK, JobsAreNewest, OneExecutor, Dep
<1>4. RowsHaveOperations' /\ NewestIsActive' /\ OperationTellsOutcome'
  BY <1>1 DEF IInv, RowsHaveOperations, NewestIsActive, OperationTellsOutcome
<1>5. RowShape' /\ TargetsSucceeded' /\ StepMatchesRow'
  BY <1>1 DEF IInv, RowShape, Shape, TargetsSucceeded, StepMatchesRow, Matches, Dep, groupVars
<1> QED
  BY <1>2, <1>3, <1>4, <1>5 DEF IInv

\* A claim of the Operation preserves IInv.
LEMMA ClaimOperationPreserves ==
    ASSUME DeploymentsAssumption, IInv, NEW w \in Workers, NEW v \in Versions, ClaimOperation(w, v)
    PROVE  IInv'
<1> USE DEF ClaimOperation, Queue!Claim
<1>1. /\ \A u \in Workers : u # w => pc'[u] = pc[u] /\ job'[u] = job[u] /\ Dep(u)' = Dep(u)
      /\ \A u \in Workers : u # w /\ pc[u] # "Idle" => Dep(u) \in Versions \ {v}
      /\ pc'[w] = "Claimed" /\ job'[w] = <<v, opToken[v] + 1>> /\ Dep(w)' = v /\ job'[w] # NoJob
  BY Executes DEF IInv, TypeOK, Dep, Executed, JobsAreNewest, DeploymentsAssumption
<1>2. TypeOK'
  <2>1. pc' \in [Workers -> Steps]
    BY DEF IInv, TypeOK, Steps
  <2>2. job' \in [Workers -> (Versions \X Nat) \cup {NoJob}]
    BY DEF IInv, TypeOK
  <2>3. opToken' \in [Versions -> Nat]
    BY DEF IInv, TypeOK
  <2>4. opStatus' \in [Versions -> {"Absent", "Pending", "Running",
                                    "Succeeded", "RolledBack", "Failed"}]
    BY DEF IInv, TypeOK
  <2> QED
    BY <2>1, <2>2, <2>3, <2>4 DEF IInv, TypeOK, groupVars, draftVars, depVars, reqVars
<1>3. JobsAreNewest'
  <2>1. ASSUME NEW u \in Workers, u # w
        PROVE  /\ pc'[u] = "Idle" <=> job'[u] = NoJob
               /\ job'[u] # NoJob =>
                     /\ job'[u][2] = opToken'[Dep(u)'] /\ opToken'[Dep(u)'] > 0
                     /\ opStatus'[Dep(u)'] \in {"Running", "Failed"}
    BY <1>1, <2>1 DEF IInv, TypeOK, JobsAreNewest
  <2>2. /\ job'[w][2] = opToken'[v] /\ opToken'[v] > 0 /\ opStatus'[v] = "Running"
    BY <1>1 DEF IInv, TypeOK
  <2> QED
    BY <1>1, <2>1, <2>2 DEF JobsAreNewest
<1>4. OneExecutor'
  BY <1>1 DEF IInv, JobsAreNewest, OneExecutor
<1>5. RowsHaveOperations' /\ OperationTellsOutcome'
  BY DEF IInv, TypeOK, RowsHaveOperations, OperationTellsOutcome, depVars
<1>6. NewestIsActive' /\ RowShape' /\ TargetsSucceeded'
  BY DEF IInv, NewestIsActive, RowShape, Shape, TargetsSucceeded, groupVars, depVars
<1>7. StepMatchesRow'
  <2>1. ASSUME NEW u \in Workers PROVE Matches(u, Dep(u))'
    BY <1>1 DEF IInv, StepMatchesRow, Matches, Working, Forward, Backward, depVars
  <2> QED
    BY <2>1 DEF StepMatchesRow
<1> QED
  BY <1>2, <1>3, <1>4, <1>5, <1>6, <1>7 DEF IInv

\* A process that ends what it does, with or without a say in its Operation, preserves
\* IInv if what it says is the outcome.
LEMMA ReleasePreserves ==
    ASSUME DeploymentsAssumption, IInv, NEW w \in Workers, NEW v \in Versions, v = Dep(w),
           pc[w] # "Idle",
           pc' = [pc EXCEPT ![w] = "Idle"], job' = [job EXCEPT ![w] = NoJob],
           read' = [read EXCEPT ![w] = NothingRead],
           UNCHANGED <<groupVars, depVars, reqVars, opToken, maxAttempts, stack>>,
           aborts' \in Nat,
           \/ UNCHANGED opStatus
           \/ \E s \in {"Succeeded", "RolledBack", "Failed", "Pending"} :
                 /\ opStatus' = [opStatus EXCEPT ![v] = s]
                 /\ s \in {"Succeeded", "RolledBack"} => status[v] = s
    PROVE  IInv'
<1>1. /\ \A u \in Workers : u # w => pc'[u] = pc[u] /\ job'[u] = job[u] /\ Dep(u)' = Dep(u)
      /\ \A u \in Workers : u # w /\ pc[u] # "Idle" => Dep(u) \in Versions \ {v}
      /\ pc'[w] = "Idle" /\ job'[w] = NoJob
      /\ status[v] # "Absent"
  BY Executes DEF IInv, TypeOK, Dep
<1>2. \A u \in Versions : \/ opStatus'[u] = opStatus[u]
                          \/ /\ u = v /\ opStatus'[u] # "Absent"
                             /\ opStatus'[u] \in {"Succeeded", "RolledBack"} =>
                                   status[u] = opStatus'[u]
  BY DEF IInv, TypeOK
<1>3. TypeOK'
  <2>1. pc' \in [Workers -> Steps]
    BY DEF IInv, TypeOK, Steps
  <2>2. job' \in [Workers -> (Versions \X Nat) \cup {NoJob}]
    BY DEF IInv, TypeOK
  <2>3. read' \in [Workers -> [doomed : SUBSET Apps, revision : Nat]]
    BY DEF IInv, TypeOK, NothingRead
  <2>4. opStatus' \in [Versions -> {"Absent", "Pending", "Running",
                                    "Succeeded", "RolledBack", "Failed"}]
    BY DEF IInv, TypeOK
  <2> QED
    BY <2>1, <2>2, <2>3, <2>4 DEF IInv, TypeOK, groupVars, draftVars, depVars, reqVars
<1>4. JobsAreNewest'
  <2>1. ASSUME NEW u \in Workers, u # w
        PROVE  /\ pc'[u] = "Idle" <=> job'[u] = NoJob
               /\ job'[u] # NoJob =>
                     /\ job'[u][2] = opToken'[Dep(u)'] /\ opToken'[Dep(u)'] > 0
                     /\ opStatus'[Dep(u)'] \in {"Running", "Failed"}
    BY <1>1, <1>2, <2>1 DEF IInv, JobsAreNewest
  <2> QED
    BY <1>1, <2>1 DEF JobsAreNewest
<1>5. OneExecutor'
  BY <1>1 DEF IInv, OneExecutor
<1>6. RowsHaveOperations' /\ OperationTellsOutcome'
  BY <1>1, <1>2 DEF IInv, RowsHaveOperations, OperationTellsOutcome, depVars
<1>7. NewestIsActive' /\ RowShape' /\ TargetsSucceeded'
  BY DEF IInv, NewestIsActive, RowShape, Shape, TargetsSucceeded, groupVars, depVars
<1>8. StepMatchesRow'
  <2>1. ASSUME NEW u \in Workers PROVE Matches(u, Dep(u))'
    BY <1>1 DEF IInv, StepMatchesRow, Matches, Working, Forward, Backward, depVars
  <2> QED
    BY <2>1 DEF StepMatchesRow
<1> QED
  BY <1>3, <1>4, <1>5, <1>6, <1>7, <1>8 DEF IInv

\* A crash and an exception of the executor preserve IInv.
LEMMA AbortPreserves ==
    ASSUME DeploymentsAssumption, IInv, NEW w \in Workers, Abort(w)
    PROVE  IInv'
<1>1. Dep(w) \in Versions
  BY Executes DEF Abort
<1>2. aborts' \in Nat
  BY DEF IInv, TypeOK, Abort
<1> QED
  BY <1>1, <1>2, ReleasePreserves DEF Abort, Queue!Drop, Queue!Close

\* The end of processNext, with the outcome of the deployment or with a retry, preserves
\* IInv.
LEMMA CloseOperationPreserves ==
    ASSUME DeploymentsAssumption, IInv, NEW w \in Workers, TerminalResult(w) \/ RetryOperation(w)
    PROVE  IInv'
<1>1. Dep(w) \in Versions /\ pc[w] # "Idle" /\ aborts' \in Nat
  BY Executes DEF IInv, TypeOK, TerminalResult, RetryOperation, CloseOperation
<1>2. CASE TerminalResult(w)
  <2>1. /\ status[Dep(w)] \in Terminal
        /\ OutcomeOf(Dep(w)) \in {"Succeeded", "RolledBack"} => status[Dep(w)] = OutcomeOf(Dep(w))
    BY <1>1, <1>2 DEF IInv, StepMatchesRow, Matches, RowShape, Shape, TerminalResult, Terminal,
       OutcomeOf
  <2> QED
    BY <1>1, <1>2, <2>1, ReleasePreserves
    DEF TerminalResult, CloseOperation, Queue!Drop, Queue!Close
<1>3. CASE RetryOperation(w)
  BY <1>1, <1>3, ReleasePreserves DEF RetryOperation, CloseOperation, Queue!Drop, Queue!Close
<1> QED
  BY <1>2, <1>3

\* The reads of the completing transaction preserve IInv.
LEMMA ReadDraftPreserves ==
    ASSUME DeploymentsAssumption, IInv, NEW w \in Workers, ReadDraft(w)
    PROVE  IInv'
<1> USE DEF ReadDraft, Goto
<1>1. Dep(w) \in Versions /\ (\A u \in Workers : Dep(u)' = Dep(u))
  BY Executes DEF Dep, queueVars
<1>2. TypeOK'
  <2>1. pc' \in [Workers -> Steps] /\ read' \in [Workers -> [doomed : SUBSET Apps, revision : Nat]]
    BY DEF IInv, TypeOK, Steps
  <2> QED
    BY <2>1 DEF IInv, TypeOK, groupVars, draftVars, depVars, reqVars, queueVars
<1>3. JobsAreNewest' /\ OneExecutor'
  BY <1>1 DEF IInv, TypeOK, JobsAreNewest, OneExecutor, queueVars
<1>4. StepMatchesRow'
  <2>1. ASSUME NEW u \in Workers PROVE Matches(u, Dep(u))'
    BY <1>1 DEF IInv, TypeOK, StepMatchesRow, Matches, Working, Forward, Backward, depVars
  <2> QED
    BY <2>1 DEF StepMatchesRow
<1>5. RowsHaveOperations' /\ NewestIsActive' /\ RowShape' /\ TargetsSucceeded' /\ OperationTellsOutcome'
  BY DEF IInv, RowsHaveOperations, NewestIsActive, RowShape, Shape, TargetsSucceeded,
     OperationTellsOutcome,
         groupVars, depVars, queueVars
<1> QED
  BY <1>2, <1>3, <1>4, <1>5 DEF IInv

-----------------------------------------------------------------------------
(* The theorems *)

\* The initial state satisfies IInv.
LEMMA InitIInv ==
    ASSUME DeploymentsAssumption, Init
    PROVE  IInv
  BY DEF Init, Queue!Init, IInv, TypeOK, JobsAreNewest, OneExecutor, RowsHaveOperations,
     NewestIsActive, RowShape, Shape,
      TargetsSucceeded, StepMatchesRow, Matches, OperationTellsOutcome,
      Active, Working, Forward, Backward, Statuses, Terminal, Phases, Steps, Dep, Snaps, NoSnap,
      NothingRead, Versions, DeploymentsAssumption

\* A step of the executor preserves IInv.
LEMMA ExecutePreserves ==
    ASSUME DeploymentsAssumption, IInv, NEW w \in Workers, Execute(w)
    PROVE  IInv'
<1>1. CASE pc[w] = "Idle"
  BY <1>1 DEF Execute, ClaimDeploymentById, ReconcileClaimedDeployment,
     AdvanceToPreparingArtifacts, ProvisionArtifacts, AdvanceDeployment, ApplyRenderedStack,
     FailApply, WaitForRollout, CompleteDeployment, RollbackAfterRuntimeFailure, ApplyRollback,
     WaitForRollback, MarkRollbackFailed, CompleteRollback,
      NextPhase, ReadDraft, TerminalResult, RetryOperation
<1>2. CASE pc[w] # "Idle"
  <2>1. Dep(w) \in Versions
    BY <1>2, Executes
  <2> QED
    BY <2>1, ClaimDeploymentByIdPreserves, ReconcileClaimedDeploymentPreserves,
       AdvanceToPreparingArtifactsPreserves, ProvisionArtifactsPreserves,
       AdvanceDeploymentPreserves, ApplyRenderedStackPreserves, FailApplyPreserves,
       WaitForRolloutPreserves, CompleteDeploymentPreserves,
       RollbackAfterRuntimeFailurePreserves, ApplyRollbackPreserves, WaitForRollbackPreserves,
       MarkRollbackFailedPreserves, CompleteRollbackPreserves,
       ReadDraftPreserves, CloseOperationPreserves DEF Execute
<1> QED
  BY <1>1, <1>2

\* Every step of the API, the workers, the queue and time preserves IInv.
THEOREM StepPreserves ==
    ASSUME DeploymentsAssumption, IInv, [Next]_vars
    PROVE  IInv'
<1>1. CASE Edit
  BY <1>1, EditPreserves
<1>2. CASE Request
  BY <1>2, ReadRequestPreserves, DeployAppGroupPreserves, RollbackDeploymentPreserves,
     DiscardDraftChangesPreserves DEF Request
<1>3. CASE \E v \in Versions : FailExhaustedOperation(v) \/ DeploymentLeaseExpires(v)
  BY <1>3, TimePreserves
<1>4. CASE \E w \in Workers :
               (\E v \in Versions : ClaimOperation(w, v)) \/ Execute(w) \/ Abort(w)
  BY <1>4, ClaimOperationPreserves, ExecutePreserves, AbortPreserves
<1>5. CASE UNCHANGED vars
  BY <1>5 DEF vars, groupVars, draftVars, depVars, reqVars, queueVars, IInv, TypeOK,
     JobsAreNewest, OneExecutor, RowsHaveOperations, NewestIsActive, RowShape, Shape,
      TargetsSucceeded, StepMatchesRow, Matches, OperationTellsOutcome, Dep
<1> QED
  BY <1>1, <1>2, <1>3, <1>4, <1>5 DEF Next

\* IInv holds in every reachable state.
THEOREM Inductive ==
    ASSUME DeploymentsAssumption
    PROVE  Spec => []IInv
<1>1. Init => IInv
  BY InitIInv
<1>2. IInv /\ [Next]_vars => IInv'
  BY StepPreserves
<1> QED
  BY <1>1, <1>2, PTL DEF Spec

\* The types hold in every reachable state.
THEOREM TypesCorrect ==
    ASSUME DeploymentsAssumption
    PROVE  Spec => []TypeOK
<1>1. IInv => TypeOK
  BY DEF IInv
<1> QED
  BY <1>1, Inductive, PTL

\* The version that the group points at, and the one that a rollback in progress returns
\* to, have succeeded.
THEOREM RestorePointsCorrect ==
    ASSUME DeploymentsAssumption
    PROVE  Spec => []RestorePointsSucceeded
<1>1. IInv => RestorePointsSucceeded
  BY DEF IInv, RestorePointsSucceeded, TargetsSucceeded, RowShape, Shape
<1> QED
  BY <1>1, Inductive, PTL

\* The executor of v writes no other deployment, no snapshot, and not the outcome once
\* there is one; it marks the group as in Error only after a rollback that had a target.
LEMMA ExecuteKeeps ==
    ASSUME DeploymentsAssumption, IInv, NEW w \in Workers, NEW v \in Versions, v = Dep(w), Execute(w)
    PROVE  /\ UNCHANGED snap
           /\ \A u \in Versions \ {v} : status'[u] = status[u] /\ target'[u] = target[u]
           /\ status[v] \in Terminal => status'[v] = status[v] /\ target'[v] = target[v]
           /\ groupStatus' = "Error" => groupStatus = "Error" \/ target[v] # 0
<1> USE DEF IInv, TypeOK, StepMatchesRow, Matches, RowShape, Shape, Working, Forward, Backward, Terminal,
            SetRow, RowStep, groupVars, depVars
<1>1. CASE ClaimDeploymentById(w, v)
  BY <1>1 DEF ClaimDeploymentById
<1>2. CASE ReconcileClaimedDeployment(w, v)
  BY <1>2 DEF ReconcileClaimedDeployment, DeferRecovery
<1>3. CASE AdvanceToPreparingArtifacts(w, v) \/ ProvisionArtifacts(w, v)
  BY <1>3 DEF AdvanceToPreparingArtifacts, ProvisionArtifacts, FailDeployment
<1>4. CASE AdvanceDeployment(w, v) \/ FailApply(w, v)
  BY <1>4 DEF AdvanceDeployment, NextPhase, FailApply, FailDeployment
<1>5. CASE ApplyRenderedStack(w, v) \/ ApplyRollback(w, v)
  BY <1>5 DEF ApplyRenderedStack, ApplyRollback, DockerApply
<1>6. CASE WaitForRollout(w, v) \/ ReadDraft(w) \/ WaitForRollback(w, v)
  BY <1>6 DEF WaitForRollout, ReadDraft, WaitForRollback
<1>7. CASE CompleteDeployment(w, v)
  BY <1>7 DEF CompleteDeployment
<1>8. CASE RollbackAfterRuntimeFailure(w, v)
  BY <1>8 DEF RollbackAfterRuntimeFailure, FailDeployment
<1>9. CASE MarkRollbackFailed(w, v) \/ CompleteRollback(w, v)
  BY <1>9 DEF MarkRollbackFailed, CompleteRollback
<1>10. CASE TerminalResult(w) \/ RetryOperation(w)
  BY <1>10 DEF TerminalResult, RetryOperation, CloseOperation
<1> QED
  BY <1>1, <1>2, <1>3, <1>4, <1>5, <1>6, <1>7, <1>8, <1>9, <1>10 DEF Execute

\* What every step keeps of the deployments that are there, and when a group gets into
\* Error.
LEMMA StepKeeps ==
    ASSUME DeploymentsAssumption, IInv, [Next]_vars
    PROVE  /\ OutcomeStays
           /\ groupStatus' = "Error" =>
                 groupStatus = "Error" \/ \E v \in Versions : status[v] = "Succeeded"
<1>1. CASE Edit \/ Request \/ (\E v \in Versions : FailExhaustedOperation(v) \/ DeploymentLeaseExpires(v))
           \/ (\E w \in Workers : Abort(w) \/ \E v \in Versions : ClaimOperation(w, v)) \/ UNCHANGED vars
  <2>1. groupStatus' = groupStatus
    BY <1>1 DEF Edit, UpdateSingleApp, CreateSingleApp, MarkSingleAppPendingDeletion,
       MarkAppGroupDraftChanged, Request, ReadDeployableDraft, DeployAppGroup, RollbackDeployment,
       ReadRestorableSnapshot, DiscardDraftChanges, FailExhaustedOperation,
       DeploymentLeaseExpires,
       ClaimOperation, Abort, groupVars, vars
  <2>2. CASE UNCHANGED depVars
    BY <2>1, <2>2 DEF OutcomeStays, depVars
  <2>3. CASE \E v \in Versions, s \in {deployReq} \cup {[snap[t] EXCEPT !.source = revision] : t \in Versions},
                t \in {0} \cup Versions : CreateDeployment(v, s, t)
    BY <2>1, <2>3 DEF CreateDeployment, NextVersion, OutcomeStays, Terminal, IInv, TypeOK
  <2>4. CASE UNCHANGED <<status, target, snap>>
    BY <2>1, <2>4 DEF OutcomeStays
  <2>5. \/ UNCHANGED depVars \/ UNCHANGED <<status, target, snap>>
        \/ \E v \in Versions, s \in {deployReq} \cup {[snap[t] EXCEPT !.source = revision] : t \in Versions},
              t \in {0} \cup Versions : CreateDeployment(v, s, t)
    BY <1>1 DEF Edit, UpdateSingleApp, CreateSingleApp, MarkSingleAppPendingDeletion,
       MarkAppGroupDraftChanged, Request, ReadDeployableDraft, DeployAppGroup, RollbackDeployment,
       ReadRestorableSnapshot, DiscardDraftChanges, FailExhaustedOperation,
       DeploymentLeaseExpires,
       ClaimOperation, Abort, vars
  <2> QED
    BY <2>1, <2>2, <2>3, <2>4, <2>5
<1>2. ASSUME NEW w \in Workers, Execute(w)
      PROVE  /\ OutcomeStays
             /\ groupStatus' = "Error" =>
                   groupStatus = "Error" \/ \E v \in Versions : status[v] = "Succeeded"
  <2>1. pc[w] # "Idle"
    BY <1>2 DEF Execute, ClaimDeploymentById, ReconcileClaimedDeployment,
       AdvanceToPreparingArtifacts,
       ProvisionArtifacts, AdvanceDeployment, NextPhase, ApplyRenderedStack, FailApply,
       WaitForRollout,
       ReadDraft, CompleteDeployment, RollbackAfterRuntimeFailure, ApplyRollback, WaitForRollback,
       MarkRollbackFailed, CompleteRollback, TerminalResult, RetryOperation
  <2>2. Dep(w) \in Versions
    BY <2>1, Executes
  <2>3. target[Dep(w)] # 0 => \E v \in Versions : status[v] = "Succeeded"
    BY <2>2 DEF IInv, TypeOK, TargetsSucceeded
  <2> QED
    BY <1>2, <2>2, <2>3, ExecuteKeeps DEF OutcomeStays
<1> QED
  BY <1>1, <1>2 DEF Next

\* A deployment that ended keeps its outcome, and the snapshot it was accepted with, at
\* every step (claimDeploymentById, the completing updates).
THEOREM OutcomeIsFinalCorrect ==
    ASSUME DeploymentsAssumption
    PROVE  Spec => OutcomeIsFinal
<1>1. IInv /\ [Next]_vars => [OutcomeStays]_vars
  BY StepKeeps
<1> QED
  BY <1>1, Inductive, PTL DEF Spec, OutcomeIsFinal

\* A group gets into Error only by a rollback that had a target, and a version that
\* succeeded stays so: the group can be rolled back.
THEOREM ErrorRepairable ==
    ASSUME DeploymentsAssumption
    PROVE  Spec => []ErrorIsRepairable
<1>1. Init => ErrorIsRepairable
  BY DEF Init, ErrorIsRepairable
<1>2. IInv /\ ErrorIsRepairable /\ [Next]_vars => ErrorIsRepairable'
  BY StepKeeps DEF ErrorIsRepairable, OutcomeStays, Terminal
<1> QED
  BY <1>1, <1>2, Inductive, PTL DEF Spec

\* A process at work on the stack has the lease of an active deployment, and is alone.
THEOREM OneStackWriterCorrect ==
    ASSUME DeploymentsAssumption
    PROVE  Spec => []OneStackWriter
<1>1. IInv => OneStackWriter
  <2> SUFFICES ASSUME IInv PROVE OneStackWriter
    OBVIOUS
  <2> DEFINE Writers == {w \in Workers : pc[w] \notin {"Idle", "Claimed", "Result", "Transient"}}
  <2>1. ASSUME NEW w \in Writers
        PROVE  /\ status[Dep(w)] \in {"Deploying", "RollingBack"} /\ owner[Dep(w)] = w
               /\ Dep(w) \in Versions /\ job[w] # NoJob
    <3>1. pc[w] \in Working
      BY DEF IInv, TypeOK, Steps, Working, Forward, Backward
    <3> QED
      BY <3>1, Executes DEF IInv, StepMatchesRow, Matches
  <2>2. ASSUME NEW v \in Writers, NEW w \in Writers PROVE v = w
    <3>1. Dep(v) = Dep(w)
      BY <2>1 DEF IInv, NewestIsActive, Active, Versions
    <3> QED
      BY <2>1, <3>1 DEF IInv, OneExecutor
  <2> QED
    BY <2>1, <2>2 DEF OneStackWriter
<1> QED
  BY <1>1, Inductive, PTL

\* An Operation is never closed better than its deployment or ahead of it.
THEOREM OutcomeTold ==
    ASSUME DeploymentsAssumption
    PROVE  Spec => []OperationTellsOutcome
<1>1. IInv => OperationTellsOutcome
  BY DEF IInv
<1> QED
  BY <1>1, Inductive, PTL

-----------------------------------------------------------------------------
(* While nothing was resumed, as with one attempt, a process knows what it   *)
(* has applied, and the stack of a settled group is that of its current      *)
(* version.                                                                  *)

What(s) == [apps |-> s.apps, content |-> s.content]

Applied(v) == phase[v] \notin {"Validating", "PreparingArtifacts", "GeneratingStack"}

\* A process begins at the beginning; after an apply the stack is the one it applied.
Knows(w, v) ==
    /\ pc[w] = "Claimed" => status[v] = "Pending"
    /\ pc[w] = "Reconcile" => status[v] = "Deploying" /\ phase[v] = "Validating"
    /\ pc[w] \in {"Validate", "Provision", "Generate", "BeginApply"} => ~Applied(v)
    /\ pc[w] \in {"Apply", "ApplyFailed"} => phase[v] = "ApplyingStack"
    /\ pc[w] \in {"BeginRollout", "Rollout", "ReadDraft", "Complete"} => stack = What(snap[v])
    /\ pc[w] \in {"RollbackRollout", "RollbackDone"} => stack = What(snap[target[v]])

\* A deployment that was not claimed is as it was made, and a rollback the user asked for
\* deploys what its target did.
NotBegun(v) == opToken[v] = 0 => status[v] \in {"Absent", "Pending"}
SameAsTarget(v) ==
    status[v] \in {"Pending", "Deploying"} /\ target[v] # 0 => What(snap[v]) = What(snap[target[v]])

OnceInv ==
    /\ IInv
    /\ NoneResumed
    /\ \A w \in Workers : Knows(w, Dep(w))
    /\ \A v \in Versions : NotBegun(v) /\ SameAsTarget(v)
    /\ StackIsCurrent

\* While a deployment is executed no other process executes an active one.
LEMMA Alone ==
    ASSUME OnceInv, NEW w \in Workers, NEW u \in Workers, u # w, pc[w] # "Idle",
           DeploymentsAssumption, status[Dep(w)] \in Active
    PROVE  pc[u] \notin Working \cup {"Claimed"}
<1> SUFFICES ASSUME pc[u] \in Working \cup {"Claimed"} PROVE FALSE
  OBVIOUS
<1>1. pc[u] # "Idle" /\ status[Dep(u)] \in Active
  BY DEF OnceInv, Knows, IInv, StepMatchesRow, Matches, Working, Forward, Backward, Active
<1>2. Dep(u) \in Versions /\ Dep(w) \in Versions /\ Dep(u) # Dep(w)
  BY <1>1, Executes DEF OnceInv
<1> QED
  BY <1>1, <1>2 DEF OnceInv, IInv, NewestIsActive, Active, Versions

\* A step that writes no deployment and not the stack preserves OnceInv.
LEMMA OnceQuiet ==
    ASSUME OnceInv, IInv', NoneResumed', UNCHANGED <<current, status, phase, target, snap, stack>>,
           \A v \in Versions : opToken'[v] = 0 => opToken[v] = 0,
           \A w \in Workers : Knows(w, Dep(w))'
    PROVE  OnceInv'
  BY DEF OnceInv, NotBegun, SameAsTarget, StackIsCurrent, LastApplied

\* The INSERT of a deployment preserves OnceInv.
LEMMA OnceCreate ==
    ASSUME DeploymentsAssumption, OnceInv, IInv', NoneResumed', NEW v \in Versions, NEW s \in Snaps,
           NEW t \in {0} \cup Versions, t # 0 => status[t] = "Succeeded" /\ What(s) = What(snap[t]),
           ~ActiveDeployment, CreateDeployment(v, s, t), UNCHANGED <<groupVars, pc, stack>>
    PROVE  OnceInv'
<1> USE DEF CreateDeployment, NextVersion, Queue!Enqueue
<1>1. /\ \A u \in Versions : status[u] \notin Active
      /\ \A u \in Versions \ {v} : status'[u] = status[u] /\ snap'[u] = snap[u] /\ target'[u] = target[u]
      /\ status[v] = "Absent" /\ status'[v] = "Pending" /\ snap'[v] = s /\ target'[v] = t
      /\ phase[v] = "Validating" /\ phase' = phase
      /\ UNCHANGED <<opToken, current, stack>>
  BY DEF OnceInv, IInv, TypeOK, RowShape, Shape, ActiveDeployment, Active, groupVars
<1>2. ASSUME NEW w \in Workers PROVE Knows(w, Dep(w))'
  <2>1. ASSUME pc[w] \in Working \cup {"Claimed"} PROVE FALSE
    <3>1. status[Dep(w)] \in Active /\ pc[w] # "Idle"
      BY <2>1 DEF OnceInv, IInv, StepMatchesRow, Matches, Knows, Working, Forward, Backward,
         Active
    <3> QED
      BY <1>1, <3>1, Executes DEF OnceInv
  <2> QED
    BY <2>1 DEF Knows, Working, Forward, Backward
<1>3. ASSUME NEW u \in Versions PROVE NotBegun(u)' /\ SameAsTarget(u)'
  <2>1. CASE u = v
    BY <1>1, <2>1 DEF NotBegun, SameAsTarget
  <2>2. CASE u # v
    <3>1. status[u] \notin Active
      BY <1>1
    <3> QED
      BY <1>1, <2>2, <3>1 DEF OnceInv, NotBegun, SameAsTarget, Active
  <2> QED
    BY <2>1, <2>2
<1>4. StackIsCurrent'
  <2> SUFFICES ASSUME NEW x \in Versions, LastApplied(x)', status'[x] \in {"Succeeded", "RolledBack"}
               PROVE  current' # 0 /\ stack' = What(snap'[current'])
    BY DEF StackIsCurrent, What
  <2>1. x # v /\ LastApplied(x) /\ status[x] \in {"Succeeded", "RolledBack"}
    BY <1>1 DEF LastApplied
  <2>2. current # 0 /\ stack = What(snap[current])
    BY <2>1 DEF OnceInv, StackIsCurrent, What
  <2>3. current # v /\ current \in Versions
    BY <1>1, <2>2 DEF OnceInv, IInv, TypeOK, TargetsSucceeded
  <2> QED
    BY <1>1, <2>2, <2>3
<1> QED
  BY <1>2, <1>3, <1>4 DEF OnceInv

\* A step of the executor of v preserves OnceInv if it keeps what is said of v, and
\* writes the stack and the group's version only once it has applied.
LEMMA OnceExecutorStep ==
    ASSUME DeploymentsAssumption, OnceInv, IInv', NoneResumed', NEW w \in Workers, NEW v \in Versions, v = Dep(w),
           pc[w] \in Working \cup {"Claimed"}, Only(pc, pc', w),
           Only(status, status', v), Only(phase, phase', v), Only(target, target', v),
           UNCHANGED <<snap, queueVars>>,
           Knows(w, v)', SameAsTarget(v)', status'[v] # "Absent",
           Applied(v) => Applied(v)',
           ~Applied(v)' => UNCHANGED <<stack, current>>,
           status'[v] \in {"Succeeded", "RolledBack"} =>
               current' # 0 /\ stack' = What(snap[current'])
    PROVE  OnceInv'
<1>1. /\ status[v] \in Active /\ opToken[v] # 0
      /\ \A u \in Versions \ {v} : /\ status'[u] = status[u] /\ phase'[u] = phase[u]
                                   /\ target'[u] = target[u]
      /\ \A u \in Workers : Dep(u)' = Dep(u)
      /\ \A u \in Workers \ {w} : pc'[u] = pc[u] /\ pc[u] \notin Working \cup {"Claimed"}
  <2>1. pc[w] # "Idle"
    BY DEF Working, Forward, Backward
  <2>2. status[v] \in Active /\ opToken[v] # 0
    BY <2>1, Executes
    DEF OnceInv, Knows, IInv, StepMatchesRow, Matches, JobsAreNewest, Working, Forward, Backward,
    Active
  <2> QED
    BY <2>1, <2>2, Alone DEF OnceInv, IInv, TypeOK, Only, Dep, queueVars
<1>2. ASSUME NEW u \in Workers PROVE Knows(u, Dep(u))'
  BY <1>1 DEF Knows, Working, Forward, Backward
<1>3. ASSUME NEW u \in Versions PROVE NotBegun(u)' /\ SameAsTarget(u)'
  BY <1>1 DEF OnceInv, NotBegun, SameAsTarget, queueVars
<1>4. StackIsCurrent'
  <2> SUFFICES ASSUME NEW x \in Versions, LastApplied(x)', status'[x] \in {"Succeeded", "RolledBack"}
               PROVE  current' # 0 /\ stack' = What(snap'[current'])
    BY DEF StackIsCurrent, What
  <2>1. CASE x = v
    BY <2>1
  <2>2. CASE x # v
    <3>1. status[x] # "Absent" /\ status[x] \in {"Succeeded", "RolledBack"} /\ phase'[x] = phase[x]
      BY <1>1, <2>2
    <3>2. v > x
      BY <1>1, <2>2, <3>1 DEF OnceInv, IInv, NewestIsActive, Versions
    <3>3. ~Applied(v)'
      BY <3>2 DEF LastApplied, Applied
    <3>4. LastApplied(x)
      BY <1>1, <3>1, <3>3 DEF LastApplied, Applied
    <3> QED
      BY <3>1, <3>3, <3>4 DEF OnceInv, StackIsCurrent, What
  <2> QED
    BY <2>1, <2>2
<1> QED
  BY <1>2, <1>3, <1>4 DEF OnceInv

\* The executor's steps that write rows and the stack preserve OnceInv.
LEMMA OnceRowStep ==
    ASSUME DeploymentsAssumption, OnceInv, IInv', NoneResumed', NEW w \in Workers, NEW v \in Versions, v = Dep(w),
           \/ ClaimDeploymentById(w, v) \/ ReconcileClaimedDeployment(w, v)
           \/ AdvanceToPreparingArtifacts(w, v) \/ ProvisionArtifacts(w, v)
           \/ AdvanceDeployment(w, v) \/ FailApply(w, v) \/ WaitForRollout(w, v)
           \/ RollbackAfterRuntimeFailure(w, v) \/ WaitForRollback(w, v)
           \/ MarkRollbackFailed(w, v)
    PROVE  OnceInv'
<1> USE DEF Goto, SetRow, RowStep, Only, Knows, Applied, SameAsTarget, groupVars, draftVars, depVars
<1>1. /\ Knows(w, v) /\ Matches(w, v) /\ SameAsTarget(v) /\ Shape(v)
      /\ pc \in [Workers -> Steps]
      /\ status \in [Versions -> Statuses] /\ phase \in [Versions -> Phases]
      /\ target \in [Versions -> {0} \cup Versions]
  BY DEF OnceInv, IInv, TypeOK, StepMatchesRow, RowShape
<1>2. CASE ClaimDeploymentById(w, v)
  BY <1>1, <1>2, OnceExecutorStep DEF ClaimDeploymentById, Terminal, Shape
<1>3. CASE ReconcileClaimedDeployment(w, v)
  BY <1>1, <1>3, OnceExecutorStep DEF ReconcileClaimedDeployment, Observes, Working
<1>4. CASE AdvanceToPreparingArtifacts(w, v)
  BY <1>1, <1>4, OnceExecutorStep DEF AdvanceToPreparingArtifacts, FailDeployment, Working,
     Forward, Matches
<1>5. CASE ProvisionArtifacts(w, v)
  BY <1>1, <1>5, OnceExecutorStep DEF ProvisionArtifacts, FailDeployment, Working, Forward,
     Matches
<1>6. CASE AdvanceDeployment(w, v)
  BY <1>1, <1>6, OnceExecutorStep DEF AdvanceDeployment, NextPhase, Working, Forward, Matches
<1>7. CASE FailApply(w, v)
  BY <1>1, <1>7, OnceExecutorStep DEF FailApply, FailDeployment, Working, Forward, Matches
<1>8. CASE WaitForRollout(w, v)
  BY <1>1, <1>8, OnceExecutorStep DEF WaitForRollout, Working, Forward, Matches
<1>9. CASE RollbackAfterRuntimeFailure(w, v)
  BY <1>1, <1>9, OnceExecutorStep DEF RollbackAfterRuntimeFailure, FailDeployment, Working,
     Forward, Matches
<1>10. CASE WaitForRollback(w, v)
  BY <1>1, <1>10, OnceExecutorStep DEF WaitForRollback, Working, Backward, Matches
<1>11. CASE MarkRollbackFailed(w, v)
  BY <1>1, <1>11, OnceExecutorStep DEF MarkRollbackFailed, Working, Backward, Matches
<1> QED
  BY <1>2, <1>3, <1>4, <1>5, <1>6, <1>7, <1>8, <1>9, <1>10, <1>11

\* The steps that apply a stack preserve OnceInv.
LEMMA OnceApply ==
    ASSUME DeploymentsAssumption, OnceInv, IInv', NoneResumed', NEW w \in Workers, NEW v \in Versions, v = Dep(w),
           ApplyRenderedStack(w, v) \/ ApplyRollback(w, v)
    PROVE  OnceInv'
<1> USE DEF Goto, Only, Knows, Applied, SameAsTarget, groupVars, draftVars, depVars, What
<1>1. /\ Knows(w, v) /\ Matches(w, v) /\ SameAsTarget(v) /\ Shape(v)
      /\ pc \in [Workers -> Steps]
      /\ status \in [Versions -> Statuses] /\ phase \in [Versions -> Phases]
      /\ target \in [Versions -> {0} \cup Versions]
  BY DEF OnceInv, IInv, TypeOK, StepMatchesRow, RowShape
<1>2. CASE ApplyRenderedStack(w, v)
  <2>1. /\ pc[w] = "Apply" /\ status[v] = "Deploying" /\ phase[v] = "ApplyingStack"
        /\ Only(pc, pc', w) /\ pc'[w] \in {"BeginRollout", "ApplyFailed"}
        /\ pc'[w] = "BeginRollout" => stack' = What(snap[v])
        /\ UNCHANGED <<current, status, phase, snap, target, queueVars>>
    BY <1>1, <1>2 DEF ApplyRenderedStack, DockerApply, Matches, Forward
  <2>2. Knows(w, v)' /\ SameAsTarget(v)'
    BY <1>1, <2>1
  <2> QED
    BY <1>1, <2>1, <2>2, OnceExecutorStep DEF Working, Forward
<1>3. CASE ApplyRollback(w, v)
  <2>1. /\ pc[w] = "RollbackApply" /\ status[v] = "RollingBack" /\ phase[v] = "RollingBack"
        /\ Only(pc, pc', w) /\ pc'[w] \in {"RollbackRollout", "RollbackFailed"}
        /\ pc'[w] = "RollbackRollout" => stack' = What(snap[target[v]])
        /\ UNCHANGED <<current, status, phase, snap, target, queueVars>>
    BY <1>1, <1>3 DEF ApplyRollback, DockerApply, Matches, Backward, Shape
  <2>2. Knows(w, v)' /\ SameAsTarget(v)'
    BY <1>1, <2>1
  <2> QED
    BY <1>1, <2>1, <2>2, OnceExecutorStep DEF Working, Backward
<1> QED
  BY <1>2, <1>3

\* The completing transactions preserve OnceInv: the group points at what was applied.
LEMMA OnceComplete ==
    ASSUME DeploymentsAssumption, OnceInv, IInv', NoneResumed', NEW w \in Workers, NEW v \in Versions, v = Dep(w),
           CompleteDeployment(w, v) \/ CompleteRollback(w, v)
    PROVE  OnceInv'
<1> USE DEF Goto, SetRow, Only, Knows, Applied, SameAsTarget, depVars
<1>1. /\ Knows(w, v) /\ Matches(w, v) /\ SameAsTarget(v) /\ Shape(v)
      /\ pc \in [Workers -> Steps]
      /\ status \in [Versions -> Statuses] /\ phase \in [Versions -> Phases]
      /\ target \in [Versions -> {0} \cup Versions]
  BY DEF OnceInv, IInv, TypeOK, StepMatchesRow, RowShape
<1>2. CASE CompleteDeployment(w, v)
  <2>1. /\ pc[w] = "Complete" /\ status[v] = "Deploying" /\ stack = What(snap[v])
        /\ Only(pc, pc', w) /\ pc'[w] = "Result"
        /\ Only(status, status', v) /\ status'[v] \in {"RolledBack", "Succeeded"}
        /\ Only(phase, phase', v) /\ phase'[v] = "Completed"
        /\ current' = IF target[v] # 0 THEN target[v] ELSE v
        /\ UNCHANGED <<stack, snap, target, queueVars>>
    BY <1>1, <1>2 DEF CompleteDeployment, Matches, Forward
  <2>2. Knows(w, v)' /\ SameAsTarget(v)'
    BY <2>1
  <2>3. current' # 0 /\ stack' = What(snap[current'])
    BY <1>1, <2>1 DEF Versions
  <2> QED
    BY <1>1, <2>1, <2>2, <2>3, OnceExecutorStep DEF Working, Forward
<1>3. CASE CompleteRollback(w, v)
  BY ZenonT(60), <1>1, <1>3, OnceExecutorStep DEF CompleteRollback, Working, Backward, Matches, Shape,
     Versions
<1> QED
  BY <1>2, <1>3

\* The steps that take or leave an Operation preserve OnceInv: while nothing is resumed,
\* an Operation is claimed only before its deployment has begun.
LEMMA OnceWorker ==
    ASSUME DeploymentsAssumption, OnceInv, IInv', NoneResumed', NEW w \in Workers,
           \/ \E v \in Versions : ClaimOperation(w, v)
           \/ TerminalResult(w) \/ RetryOperation(w) \/ Abort(w) \/ ReadDraft(w)
    PROVE  OnceInv'
<1>1. ASSUME NEW u \in Workers, u # w
      PROVE  pc'[u] = pc[u] /\ job'[u] = job[u]
  BY <1>1 DEF OnceInv, IInv, TypeOK, ClaimOperation, Queue!Claim, TerminalResult, RetryOperation,
     CloseOperation, Abort, ReadDraft, Goto, queueVars, Queue!Close, Queue!Drop
<1>2. UNCHANGED <<current, status, phase, target, snap, stack>>
  BY DEF ClaimOperation, TerminalResult, RetryOperation, CloseOperation, Abort, ReadDraft,
         groupVars, depVars
<1>3. Knows(w, Dep(w))'
  <2>1. CASE \E v \in Versions : ClaimOperation(w, v)
    <3>1. PICK v \in Versions : ClaimOperation(w, v)
      BY <2>1
    <3>2. opToken[v] = 0 /\ opStatus[v] # "Absent"
      BY <3>1 DEF ClaimOperation, Queue!Claim, OnceInv, NoneResumed, IInv, TypeOK
    <3>3. status[v] = "Pending"
      BY <3>2 DEF OnceInv, NotBegun, IInv, RowsHaveOperations
    <3>4. Dep(w)' = v /\ pc'[w] = "Claimed"
      BY <3>1 DEF ClaimOperation, Queue!Claim, OnceInv, IInv, TypeOK, Dep
    <3> QED
      BY <1>2, <3>3, <3>4 DEF Knows
  <2>2. CASE TerminalResult(w) \/ RetryOperation(w) \/ Abort(w)
    <3>1. pc'[w] = "Idle"
      BY <2>2 DEF TerminalResult, RetryOperation, CloseOperation, Abort, OnceInv, IInv, TypeOK
    <3> QED
      BY <3>1 DEF Knows
  <2>3. CASE ReadDraft(w)
    BY <2>3 DEF ReadDraft, Goto, OnceInv, Knows, IInv, TypeOK, Dep, depVars, queueVars
  <2> QED
    BY <2>1, <2>2, <2>3
<1>4. ASSUME NEW u \in Workers PROVE Knows(u, Dep(u))'
  BY <1>1, <1>2, <1>3 DEF OnceInv, Knows, Dep, Applied
<1>5. ASSUME NEW v \in Versions, opToken'[v] = 0 PROVE opToken[v] = 0
  BY <1>5 DEF OnceInv, IInv, TypeOK, ClaimOperation, Queue!Claim, TerminalResult, RetryOperation,
     CloseOperation, Abort, ReadDraft, queueVars, Queue!Close, Queue!Drop
<1> QED
  BY <1>2, <1>4, <1>5, OnceQuiet

\* The steps of the API and of time preserve OnceInv.
LEMMA OnceRequest ==
    ASSUME DeploymentsAssumption, OnceInv, IInv', NoneResumed',
           \/ Edit \/ Request
           \/ \E v \in Versions : FailExhaustedOperation(v) \/ DeploymentLeaseExpires(v)
    PROVE  OnceInv'
<1>1. CASE DeployAppGroup /\ ~ActiveDeployment
  <2>1. PICK v \in Versions : CreateDeployment(v, deployReq, 0)
    BY <1>1 DEF DeployAppGroup
  <2>2. deployReq \in Snaps
    BY <1>1 DEF DeployAppGroup, OnceInv, IInv, TypeOK
  <2> QED
    BY <1>1, <2>1, <2>2, OnceCreate DEF DeployAppGroup
<1>2. CASE \E t \in Versions : RollbackDeployment(t)
  <2>1. PICK t \in Versions : RollbackDeployment(t)
    BY <1>2
  <2>2. PICK v \in Versions : CreateDeployment(v, [snap[t] EXCEPT !.source = revision], t)
    BY <2>1 DEF RollbackDeployment
  <2>3. /\ [snap[t] EXCEPT !.source = revision] \in Snaps
        /\ What([snap[t] EXCEPT !.source = revision]) = What(snap[t])
    <3>1. snap[t] \in [apps : SUBSET Apps, content : Nat, source : Nat] /\ revision \in Nat
      BY DEF OnceInv, IInv, TypeOK, Snaps
    <3> QED
      BY <3>1 DEF Snaps, What
  <2> QED
    BY <2>1, <2>2, <2>3, OnceCreate DEF RollbackDeployment
<1>3. CASE \/ Edit \/ ReadDeployableDraft \/ ReadRestorableSnapshot \/ DiscardDraftChanges
           \/ DeployAppGroup /\ ActiveDeployment
           \/ \E v \in Versions : FailExhaustedOperation(v) \/ DeploymentLeaseExpires(v)
  <2>1. UNCHANGED <<current, status, phase, target, snap, stack, opToken, job, pc>>
    BY <1>3 DEF Edit, UpdateSingleApp, CreateSingleApp, MarkSingleAppPendingDeletion,
       MarkAppGroupDraftChanged, ReadDeployableDraft, ReadRestorableSnapshot, DiscardDraftChanges,
       DeployAppGroup, FailExhaustedOperation, DeploymentLeaseExpires, Queue!GiveUp,
       groupVars, depVars, queueVars
  <2>2. ASSUME NEW w \in Workers PROVE Knows(w, Dep(w))'
    BY <2>1 DEF OnceInv, Knows, Dep, Applied
  <2> QED
    BY <2>1, <2>2, OnceQuiet
<1> QED
  BY <1>1, <1>2, <1>3 DEF Request, DeployAppGroup

\* The tokens of the queue only grow.
LEMMA TokensGrow ==
    ASSUME DeploymentsAssumption, IInv, [Next]_vars, NoneResumed'
    PROVE  NoneResumed
<1>1. \A v \in Versions : opToken'[v] = opToken[v] \/ opToken'[v] = opToken[v] + 1
  <2>1. \/ opToken' = opToken
        \/ \E v \in Versions : opToken' = [opToken EXCEPT ![v] = @ + 1]
    BY DEF Next, Edit, UpdateSingleApp, CreateSingleApp, MarkSingleAppPendingDeletion,
       MarkAppGroupDraftChanged, Request, ReadDeployableDraft, DeployAppGroup, RollbackDeployment,
       CreateDeployment, ReadRestorableSnapshot, DiscardDraftChanges, FailExhaustedOperation,
       DeploymentLeaseExpires, ClaimOperation, Abort, Execute, ClaimDeploymentById,
       ReconcileClaimedDeployment, AdvanceToPreparingArtifacts, ProvisionArtifacts,
       AdvanceDeployment, NextPhase, ApplyRenderedStack, DockerApply, FailApply, WaitForRollout,
       ReadDraft, CompleteDeployment, RollbackAfterRuntimeFailure, ApplyRollback, WaitForRollback,
       MarkRollbackFailed, CompleteRollback, TerminalResult, RetryOperation, CloseOperation,
       Queue!Enqueue, Queue!Claim, Queue!Close, Queue!Drop, Queue!GiveUp, RowStep, queueVars, vars
  <2> QED
    BY <2>1 DEF IInv, TypeOK
<1> QED
  BY <1>1 DEF NoneResumed, IInv, TypeOK

\* As long as no deployment was resumed (with the one attempt that the trigger grants,
\* always), a group that is settled runs the version it points at, whatever was
\* deployed, rolled back, refused or cut off before.
THEOREM StackIsCurrentCorrect ==
    ASSUME DeploymentsAssumption
    PROVE  Spec => []StackIsCurrent
<1> DEFINE Inv == IInv /\ (NoneResumed => OnceInv)
<1>1. Init => Inv
  BY ZenonT(60), InitIInv DEF Init, OnceInv, Knows, NotBegun, SameAsTarget, StackIsCurrent, LastApplied,
     Queue!Init, Versions
<1>2. Inv /\ [Next]_vars => Inv'
  <2> SUFFICES ASSUME IInv, [Next]_vars, OnceInv, NoneResumed', IInv' PROVE OnceInv'
    BY StepPreserves, TokensGrow
  <2>2. CASE UNCHANGED vars
    BY <2>2, OnceQuiet DEF OnceInv, Knows, Dep, Applied, vars, groupVars, depVars, queueVars
  <2>3. ASSUME NEW w \in Workers, Execute(w) PROVE OnceInv'
    <3>1. CASE pc[w] = "Idle"
      BY <2>3, <3>1 DEF Execute, ClaimDeploymentById, ReconcileClaimedDeployment,
         AdvanceToPreparingArtifacts, ProvisionArtifacts, AdvanceDeployment, NextPhase,
         ApplyRenderedStack, FailApply, WaitForRollout, ReadDraft, CompleteDeployment,
         RollbackAfterRuntimeFailure, ApplyRollback, WaitForRollback, MarkRollbackFailed,
         CompleteRollback, TerminalResult, RetryOperation
    <3>2. CASE pc[w] # "Idle"
      <4>1. Dep(w) \in Versions
        BY <3>2, Executes
      <4> QED
        BY <2>3, <4>1, OnceRowStep, OnceApply, OnceComplete, OnceWorker DEF Execute
    <3> QED
      BY <3>1, <3>2
  <2> QED
    BY <2>2, <2>3, OnceRequest, OnceWorker DEF Next
<1>3. Inv => StackIsCurrent
  BY DEF OnceInv, StackIsCurrent
<1> QED
  BY <1>1, <1>2, <1>3, PTL DEF Spec

\* With one attempt, which is what the trigger grants, nothing is ever resumed.
THEOREM OneAttemptIsNotResumed ==
    ASSUME DeploymentsAssumption, Attempts = {1}
    PROVE  Spec => []NoneResumed
<1>1. Init => NoneResumed
  BY DEF Init, Queue!Init, NoneResumed
<1>2. IInv /\ NoneResumed /\ [Next]_vars => NoneResumed'
  <2> SUFFICES ASSUME IInv, NoneResumed, [Next]_vars PROVE NoneResumed'
    OBVIOUS
  <2>1. \/ opToken' = opToken
        \/ \E v \in Versions : opToken[v] < maxAttempts /\ opToken' = [opToken EXCEPT ![v] = @ + 1]
    BY DEF Next, Edit, UpdateSingleApp, CreateSingleApp, MarkSingleAppPendingDeletion,
       MarkAppGroupDraftChanged, Request, ReadDeployableDraft, DeployAppGroup, RollbackDeployment,
       CreateDeployment, ReadRestorableSnapshot, DiscardDraftChanges, FailExhaustedOperation,
       DeploymentLeaseExpires, ClaimOperation, Abort, Execute, ClaimDeploymentById,
       ReconcileClaimedDeployment, AdvanceToPreparingArtifacts, ProvisionArtifacts,
       AdvanceDeployment, NextPhase, ApplyRenderedStack, DockerApply, FailApply, WaitForRollout,
       ReadDraft, CompleteDeployment, RollbackAfterRuntimeFailure, ApplyRollback, WaitForRollback,
       MarkRollbackFailed, CompleteRollback, TerminalResult, RetryOperation, CloseOperation,
       Queue!Enqueue, Queue!Claim, Queue!Close, Queue!Drop, Queue!GiveUp, RowStep, queueVars, vars
  <2> QED
    BY <2>1 DEF NoneResumed, IInv, TypeOK
<1> QED
  BY <1>1, <1>2, Inductive, PTL DEF Spec
=============================================================================
