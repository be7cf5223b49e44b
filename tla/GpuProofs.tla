----------------------------- MODULE GpuProofs ------------------------------
(***************************************************************************)
(* Proofs about exclusive devices and the removal of AppGroups, for every  *)
(* number of apps, devices, deployments, failures and attempts.            *)
(*                                                                         *)
(* The argument: an artifact that is about to be applied was found to name *)
(* a device of its app, and nobody frees that device before a deployment   *)
(* that needs it has ended; who frees a device has seen that nothing of    *)
(* its app is left, and nothing can start before it acts.                  *)
(*                                                                         *)
(* Then what is proved of starts and stops and of volumes is carried over  *)
(* to the system in which they are one component of several; and OAuth     *)
(* applications and service identities are proved right in that system.    *)
(***************************************************************************)
EXTENDS MCApplications, TLAPS, FiniteSetTheorems

Deps == [pc : {"Idle", "Requested", "Verified", "Applied", "Converged"},
         kind : {"deploy", "rollback", "auto"}, art : Artifacts]
Dels == [pc : {"None", "Queued", "Removed", "Checked", "Failed", "Done"},
         n : 0..MaxAttempts, verify : BOOLEAN]
Services == [gpu : Gpus \cup {None}, up : BOOLEAN]
Recs == [pc : {"Idle", "Diagnosed", "Release"}, gpu : Gpus \cup {None}]

Types ==
    /\ row \in [Apps -> {"Active", "Pending", "Gone"}]
    /\ run \in [Apps -> {"Running", "Stopped"}]
    /\ group \in [Apps -> {"Ready", "Deleting", "Gone"}]
    /\ owner \in [Gpus -> Apps \cup {None}]
    /\ observed \in [Gpus -> {"Available", "Unavailable"}]
    /\ attempts \in [Apps -> SUBSET Artifacts]
    /\ good \in [Apps -> SUBSET Artifacts]
    /\ current \in [Apps -> Artifacts \cup {None}]
    /\ dep \in [Apps -> Deps]
    /\ service \in [Apps -> Services \cup {None}]
    /\ tasks \in SUBSET (Apps \X Gpus)
    /\ del \in [Apps -> Dels]
    /\ rec \in Recs
    /\ works \in SUBSET Gpus
    /\ ready \in BOOLEAN

Reserved == {g \in Gpus : owner[g] # None}

\* What succeeded was attempted, and a rollback returns to what succeeded.
HistoryIsKept ==
    \A a \in Apps :
        /\ good[a] \subseteq attempts[a] /\ current[a] \in good[a] \cup {None}
        /\ dep[a].pc # "Idle" => dep[a].art \in attempts[a]
        /\ dep[a].pc # "Idle" /\ dep[a].kind # "deploy" => dep[a].art \in good[a]

\* An app has one device at most, and the tenant no more than its quota.
OneEach == \A g, h \in Gpus : owner[g] # None /\ owner[g] = owner[h] => g = h
WithinQuota == Cardinality(Reserved) <= Quota

\* A deletion that has not ended has an attempt left.
AttemptsAreCounted ==
    \A a \in Apps :
        del[a].pc \in {"None", "Queued", "Removed", "Checked"} => del[a].n < MaxAttempts

TInv == Types /\ HistoryIsKept /\ OneEach /\ WithinQuota /\ AttemptsAreCounted

-----------------------------------------------------------------------------
(* Types and counts, in every window *)

LEMMA InitTInv == ASSUME GpuAssumption, Init PROVE TInv
<1>1. Types
  BY DEF GpuAssumption, Init, Types, Deps, Idle, Artifacts, Dels, Recs, NoRec
<1>2. HistoryIsKept /\ OneEach /\ AttemptsAreCounted
  BY DEF GpuAssumption, Init, HistoryIsKept, OneEach, AttemptsAreCounted, Idle
<1>3. Reserved = {}
  BY DEF Init, Reserved
<1>4. WithinQuota
  BY <1>3, FS_EmptySet DEF WithinQuota, GpuAssumption
<1> QED
  BY <1>1, <1>2, <1>4 DEF TInv

\* A deployment is requested, is verified, applied, and ends; the rest leaves it alone.
LEMMA DepStep ==
    ASSUME GpuAssumption, TInv, [Next]_vars
    PROVE  \/ UNCHANGED <<dep, history>>
           \/ \E a \in Apps : Deploy(a) \/ Rollback(a)
           \/ \E a \in Apps : VerifyArtifact(a) \/ Apply(a) \/ Rollout(a) \/ Complete(a)
           \/ \E a \in Apps : DeploymentGone(a)
  BY ZenonT(60) DEF Next, Observe, Environment, TakeCensus, Release, Diagnose, TaskEnds, Reserve,
     MarkPending,
     SetRuntimeState, Scale, Discard, TaskStarts, RequestDelete, MarkGroupDeleting,
     RetryOperation,
     RemoveRuntime, CheckRemoved, DeleteGroup, vars

\* The artifact of a draft
LEMMA DraftArtifact ==
    ASSUME Types, NEW a \in Apps
    PROVE  [there |-> row[a] = "Active",
            gpu |-> IF row[a] = "Active" /\ Owned(a) # {} THEN CHOOSE g \in Owned(a) : TRUE ELSE None,
            up |-> row[a] = "Active" /\ run[a] = "Running"] \in Artifacts
<1>1. Owned(a) # {} => (CHOOSE g \in Owned(a) : TRUE) \in Gpus
  BY DEF Owned
<1> QED
  BY <1>1 DEF Artifacts

LEMMA HistoryStep ==
    ASSUME GpuAssumption, TInv, [Next]_vars
    PROVE  /\ attempts' \in [Apps -> SUBSET Artifacts] /\ good' \in [Apps -> SUBSET Artifacts]
           /\ current' \in [Apps -> Artifacts \cup {None}] /\ dep' \in [Apps -> Deps]
           /\ HistoryIsKept'
<1>1. ASSUME NEW a \in Apps, NEW k \in {"deploy", "rollback"}, NEW art \in Artifacts,
             k = "rollback" => art \in good[a], Requested(a, k, art)
      PROVE  /\ attempts' \in [Apps -> SUBSET Artifacts] /\ dep' \in [Apps -> Deps]
             /\ UNCHANGED <<good, current>> /\ HistoryIsKept'
  <2> DEFINE d == [pc |-> "Requested", kind |-> k, art |-> art]
  <2>1. d \in Deps /\ d.pc = "Requested" /\ d.kind = k /\ d.art = art
    BY DEF Deps
  <2>2. /\ dep' = [dep EXCEPT ![a] = d] /\ attempts' = [attempts EXCEPT ![a] = @ \cup {art}]
        /\ UNCHANGED <<good, current>>
    BY <1>1 DEF Requested
  <2>3. attempts' \in [Apps -> SUBSET Artifacts] /\ dep' \in [Apps -> Deps]
    BY <2>1, <2>2 DEF TInv, Types
  <2>4. /\ dep'[a] = d /\ \A b \in Apps \ {a} : dep'[b] = dep[b]
        /\ art \in attempts'[a] /\ \A b \in Apps : attempts[b] \subseteq attempts'[b]
    BY <2>2 DEF TInv, Types
  <2>5. HistoryIsKept'
    <3> SUFFICES ASSUME NEW b \in Apps
                 PROVE  /\ good'[b] \subseteq attempts'[b] /\ current'[b] \in good'[b] \cup {None}
                        /\ dep'[b].pc # "Idle" => dep'[b].art \in attempts'[b]
                        /\ dep'[b].pc # "Idle" /\ dep'[b].kind # "deploy" => dep'[b].art \in good'[b]
      BY DEF HistoryIsKept
    <3> HIDE DEF d
    <3> QED
      BY <1>1, <2>1, <2>2, <2>4 DEF TInv, HistoryIsKept
  <2> QED
    BY <2>2, <2>3, <2>5
<1>2. ASSUME NEW a \in Apps, NEW d \in Deps, dep' = [dep EXCEPT ![a] = d], UNCHANGED history,
             d.pc = "Idle" \/ (d.kind = dep[a].kind /\ d.art = dep[a].art /\ dep[a].pc # "Idle")
                           \/ (d.kind = "auto" /\ d.art \in good[a])
      PROVE  dep' \in [Apps -> Deps] /\ HistoryIsKept'
  BY <1>2 DEF TInv, Types, HistoryIsKept, history
<1>3. ASSUME NEW a \in Apps, Deploy(a) \/ Rollback(a)
      PROVE  /\ attempts' \in [Apps -> SUBSET Artifacts] /\ dep' \in [Apps -> Deps]
             /\ UNCHANGED <<good, current>> /\ HistoryIsKept'
  BY <1>1, <1>3, DraftArtifact DEF Deploy, Rollback, TInv, Types
<1>4. ASSUME NEW a \in Apps, VerifyArtifact(a) \/ Apply(a) \/ DeploymentGone(a) \/ Rollout(a)
      PROVE  dep' \in [Apps -> Deps] /\ HistoryIsKept' /\ UNCHANGED history
  <2>1. UNCHANGED history /\ dep[a].pc # "Idle" /\ dep[a] \in Deps
    BY <1>4 DEF VerifyArtifact, Apply, DeploymentGone, Rollout, TInv, Types
  <2>2. Idle \in Deps /\ Idle.pc = "Idle"
    BY DEF Idle, Deps, Artifacts
  <2>3. \/ dep' = [dep EXCEPT ![a] = Idle]
        \/ \E x \in {"Verified", "Applied", "Converged"} : dep' = [dep EXCEPT ![a].pc = x]
        \/ \E art \in good[a] : dep' = [dep EXCEPT ![a] = [pc |-> "Requested", kind |-> "auto", art |-> art]]
    BY <1>4 DEF VerifyArtifact, Apply, DeploymentGone, Rollout, Failed
  <2>4. CASE dep' = [dep EXCEPT ![a] = Idle]
    BY <1>2, <2>1, <2>2, <2>4
  <2>5. ASSUME NEW x \in {"Verified", "Applied", "Converged"}, dep' = [dep EXCEPT ![a].pc = x]
        PROVE  dep' \in [Apps -> Deps] /\ HistoryIsKept'
    <3> DEFINE d == [dep[a] EXCEPT !.pc = x]
    <3>1. d \in Deps /\ d.kind = dep[a].kind /\ d.art = dep[a].art
      BY <2>1 DEF Deps
    <3>2. dep' = [dep EXCEPT ![a] = d]
      BY <2>5
    <3> QED
      BY <1>2, <2>1, <3>1, <3>2
  <2>6. ASSUME NEW art \in good[a],
               dep' = [dep EXCEPT ![a] = [pc |-> "Requested", kind |-> "auto", art |-> art]]
        PROVE  dep' \in [Apps -> Deps] /\ HistoryIsKept'
    <3> DEFINE d == [pc |-> "Requested", kind |-> "auto", art |-> art]
    <3>1. d \in Deps /\ d.kind = "auto" /\ d.art \in good[a]
      BY DEF Deps, TInv, Types
    <3> QED
      BY <1>2, <2>1, <2>6, <3>1
  <2> QED
    BY <2>1, <2>3, <2>4, <2>5, <2>6
<1>5. ASSUME NEW a \in Apps, Complete(a)
      PROVE  /\ good' \in [Apps -> SUBSET Artifacts] /\ current' \in [Apps -> Artifacts \cup {None}]
             /\ dep' \in [Apps -> Deps] /\ HistoryIsKept' /\ UNCHANGED attempts
  <2>1. /\ UNCHANGED attempts /\ dep[a].pc # "Idle" /\ dep' = [dep EXCEPT ![a] = Idle]
        /\ current' = [current EXCEPT ![a] = dep[a].art]
        /\ \/ dep[a].kind # "deploy" /\ good' = good
           \/ dep[a].kind = "deploy" /\ good' = [good EXCEPT ![a] = @ \cup {dep[a].art}]
    <3>1. dep[a].kind # "auto" => good' = [good EXCEPT ![a] = IF dep[a].kind = "deploy" THEN @ \cup {dep[a].art} ELSE @]
      BY <1>5 DEF Complete
    <3>2. good \in [Apps -> SUBSET Artifacts]
      BY DEF TInv, Types
    <3> QED
      BY <1>5, <3>1, <3>2 DEF Complete
  <2>2. Idle \in Deps /\ Idle.pc = "Idle" /\ dep[a].art \in Artifacts
    BY DEF Idle, Deps, Artifacts, TInv, Types
  <2>3. /\ good' \in [Apps -> SUBSET Artifacts] /\ current' \in [Apps -> Artifacts \cup {None}]
        /\ dep' \in [Apps -> Deps]
    BY <2>1, <2>2 DEF TInv, Types
  <2>4. /\ \A b \in Apps : good[b] \subseteq good'[b]
        /\ dep[a].art \in good'[a] /\ \A b \in Apps : good'[b] \subseteq good[b] \cup (IF b = a THEN {dep[a].art} ELSE {})
    BY <2>1 DEF TInv, Types, HistoryIsKept
  <2> QED
    BY <2>1, <2>2, <2>3, <2>4 DEF TInv, Types, HistoryIsKept
<1>6. CASE UNCHANGED <<dep, history>>
  BY <1>6 DEF history, TInv, Types, HistoryIsKept
<1> QED
  BY <1>3, <1>4, <1>5, <1>6, DepStep DEF history, TInv, Types

\* Which steps change what
LEMMA Frames ==
    ASSUME [Next]_vars
    PROVE  /\ owner' = owner \/ Release \/ (\E a \in Apps, g \in Gpus : Reserve(a, g))
             \/ \E a \in Apps : Discard(a) \/ Complete(a) \/ DeleteGroup(a)
           /\ service' = service \/ \E a \in Apps : Scale(a) \/ Apply(a) \/ RemoveRuntime(a)
           /\ tasks' = tasks \/ (\E a \in Apps : TaskStarts(a)) \/ \E t \in Apps \X Gpus : TaskEnds(t)
           /\ row' = row
             \/ \E a \in Apps : MarkPending(a) \/ Discard(a) \/ Complete(a) \/ RequestDelete(a) \/ DeleteGroup(a)
           /\ run' = run \/ \E a \in Apps : SetRuntimeState(a) \/ Discard(a) \/ RequestDelete(a)
           /\ group' = group \/ \E a \in Apps : Complete(a) \/ RequestDelete(a) \/ DeleteGroup(a)
           /\ observed' = observed \/ Observe \/ \E g \in Gpus : Diagnose(g)
           /\ rec' = rec \/ TakeCensus \/ Release \/ \E g \in Gpus : Diagnose(g)
           /\ env' = env \/ Environment
           /\ del' = del
             \/ \E a \in Apps : \/ RequestDelete(a) \/ RetryOperation(a)
                              \/ RemoveRuntime(a) \/ CheckRemoved(a) \/ DeleteGroup(a)
<1>1. owner' = owner \/ Release \/ (\E a \in Apps, g \in Gpus : Reserve(a, g))
      \/ \E a \in Apps : Discard(a) \/ Complete(a) \/ DeleteGroup(a)
  BY DEF Next, Observe, Environment, TakeCensus, Diagnose, TaskEnds, MarkPending, SetRuntimeState,
     Scale, Deploy, Rollback, Requested, VerifyArtifact, Apply, Rollout, DeploymentGone,
     TaskStarts, RequestDelete, MarkGroupDeleting, RetryOperation, RemoveRuntime, CheckRemoved,
     vars, db, swarm
<1>2. service' = service \/ \E a \in Apps : Scale(a) \/ Apply(a) \/ RemoveRuntime(a)
  BY ZenonT(60) DEF Next, Observe, Environment, TakeCensus, Release, Diagnose, TaskEnds, Reserve,
     MarkPending, SetRuntimeState, Discard, Deploy, Rollback, Requested, VerifyArtifact, Rollout,
     Complete, DeploymentGone, TaskStarts, RequestDelete, MarkGroupDeleting, RetryOperation,
     CheckRemoved, DeleteGroup, vars, db, swarm
<1>3. tasks' = tasks \/ (\E a \in Apps : TaskStarts(a)) \/ \E t \in Apps \X Gpus : TaskEnds(t)
  BY ZenonT(60) DEF Next, Observe, Environment, TakeCensus, Release, Diagnose, Reserve, MarkPending,
     SetRuntimeState, Scale, Discard, Deploy, Rollback, Requested, VerifyArtifact, Apply, Rollout,
     Complete, DeploymentGone, RequestDelete, MarkGroupDeleting, RetryOperation, RemoveRuntime,
     CheckRemoved, DeleteGroup, vars, db, swarm
<1>4. row' = row
      \/ \E a \in Apps : MarkPending(a) \/ Discard(a) \/ Complete(a) \/ RequestDelete(a) \/ DeleteGroup(a)
  BY DEF Next, Observe, Environment, TakeCensus, Release, Diagnose, TaskEnds, Reserve,
     SetRuntimeState, Scale, Deploy, Rollback, Requested, VerifyArtifact, Apply, Rollout,
     DeploymentGone, TaskStarts, RetryOperation, RemoveRuntime, CheckRemoved, vars, db, swarm
<1>5. run' = run \/ \E a \in Apps : SetRuntimeState(a) \/ Discard(a) \/ RequestDelete(a)
  BY ZenonT(60) DEF Next, Observe, Environment, TakeCensus, Release, Diagnose, TaskEnds, Reserve,
     MarkPending, Scale, Deploy, Rollback, Requested, VerifyArtifact, Apply, Rollout, Complete,
     DeploymentGone, TaskStarts, RetryOperation, RemoveRuntime, CheckRemoved, DeleteGroup, vars,
     db, swarm
<1>6. group' = group \/ \E a \in Apps : Complete(a) \/ RequestDelete(a) \/ DeleteGroup(a)
  BY ZenonT(60) DEF Next, Observe, Environment, TakeCensus, Release, Diagnose, TaskEnds, Reserve,
     MarkPending, SetRuntimeState, Scale, Discard, Deploy, Rollback, Requested, VerifyArtifact,
     Apply, Rollout, DeploymentGone, TaskStarts, RetryOperation, RemoveRuntime, CheckRemoved,
     vars, db, swarm
<1>7. observed' = observed \/ Observe \/ \E g \in Gpus : Diagnose(g)
  BY ZenonT(60) DEF Next, Environment, TakeCensus, Release, TaskEnds, Reserve, MarkPending, SetRuntimeState,
     Scale, Discard, Deploy, Rollback, Requested, VerifyArtifact, Apply, Rollout, Complete,
     DeploymentGone, TaskStarts, RequestDelete, MarkGroupDeleting, RetryOperation, RemoveRuntime,
     CheckRemoved, DeleteGroup, vars, db, swarm
<1>8. rec' = rec \/ TakeCensus \/ Release \/ \E g \in Gpus : Diagnose(g)
  BY ZenonT(60) DEF Next, Observe, Environment, TaskEnds, Reserve, MarkPending, SetRuntimeState, Scale,
     Discard, Deploy, Rollback, Requested, VerifyArtifact, Apply, Rollout, Complete,
     DeploymentGone, TaskStarts, RequestDelete, MarkGroupDeleting, RetryOperation, RemoveRuntime,
     CheckRemoved, DeleteGroup, vars, db, swarm, Outside
<1>9. env' = env \/ Environment
  BY ZenonT(60) DEF Next, Observe, TakeCensus, Release, Diagnose, TaskEnds, Reserve, MarkPending,
     SetRuntimeState, Scale, Discard, Deploy, Rollback, Requested, VerifyArtifact, Apply, Rollout,
     Complete, DeploymentGone, TaskStarts, RequestDelete, MarkGroupDeleting, RetryOperation,
     RemoveRuntime, CheckRemoved, DeleteGroup, vars, db, swarm
<1>10. del' = del
      \/ \E a \in Apps : \/ RequestDelete(a) \/ RetryOperation(a)
                       \/ RemoveRuntime(a) \/ CheckRemoved(a) \/ DeleteGroup(a)
  BY ZenonT(60) DEF Next, Observe, Environment, TakeCensus, Release, Diagnose, TaskEnds, Reserve,
     MarkPending, SetRuntimeState, Scale, Discard, Deploy, Rollback, Requested, VerifyArtifact,
     Apply, Rollout, Complete, DeploymentGone, TaskStarts, vars, db, swarm
<1> QED
  BY <1>1, <1>2, <1>3, <1>4, <1>5, <1>6, <1>7, <1>8, <1>9, <1>10

\* Devices are reserved one at a time, for an app without one, within the quota; else they
\* are only freed.
LEMMA OwnerStep ==
    ASSUME GpuAssumption, TInv, [Next]_vars
    PROVE  owner' \in [Gpus -> Apps \cup {None}] /\ OneEach' /\ WithinQuota'
<1>1. IsFiniteSet(Reserved) /\ IsFiniteSet(Gpus) /\ owner \in [Gpus -> Apps \cup {None}]
  <2>1. Reserved \subseteq Gpus
    BY DEF Reserved
  <2> QED
    BY <2>1, FS_Subset DEF GpuAssumption, TInv, Types
<1>2. ASSUME NEW a \in Apps, NEW g \in Gpus, Reserve(a, g)
      PROVE  owner' \in [Gpus -> Apps \cup {None}] /\ OneEach' /\ WithinQuota'
  <2>1. /\ owner[g] = None /\ owner' = [owner EXCEPT ![g] = a] /\ a # None
        /\ \A h \in Gpus : owner[h] # a
        /\ Cardinality({h \in Gpus : owner[h] # None}) < Quota
    BY <1>2 DEF Reserve, Owned, GpuAssumption
  <2>2. owner' \in [Gpus -> Apps \cup {None}] /\ OneEach'
    BY <1>1, <2>1 DEF TInv, OneEach
  <2>3. Reserved' = Reserved \cup {g} /\ g \notin Reserved
    BY <1>1, <2>1 DEF Reserved
  <2>4. Cardinality(Reserved') = Cardinality(Reserved) + 1 /\ Cardinality(Reserved) \in Nat
    BY <1>1, <2>3, FS_AddElement, FS_CardinalityType
  <2>5. Cardinality(Reserved) < Quota
    BY <2>1 DEF Reserved
  <2> QED
    BY <2>2, <2>4, <2>5 DEF WithinQuota, GpuAssumption
<1>3. ASSUME owner' \in [Gpus -> Apps \cup {None}], \A g \in Gpus : owner'[g] \in {owner[g], None}
      PROVE  OneEach' /\ WithinQuota'
  <2>1. OneEach'
    BY <1>1, <1>3 DEF TInv, OneEach
  <2>2. Reserved' \subseteq Reserved
    BY <1>3 DEF Reserved
  <2>3. /\ Cardinality(Reserved') <= Cardinality(Reserved)
        /\ Cardinality(Reserved') \in Nat /\ Cardinality(Reserved) \in Nat
    BY <1>1, <2>2, FS_Subset, FS_CardinalityType
  <2> QED
    BY <2>1, <2>3 DEF TInv, WithinQuota, GpuAssumption
<1>4. ASSUME ~\E a \in Apps, g \in Gpus : Reserve(a, g)
      PROVE  owner' \in [Gpus -> Apps \cup {None}] /\ \A g \in Gpus : owner'[g] \in {owner[g], None}
  <2>1. \/ owner' = owner
        \/ \E a \in Apps : owner' = [g \in Gpus |-> IF owner[g] = a THEN None ELSE owner[g]]
        \/ \E a \in Apps : Complete(a)
        \/ Release
    BY <1>4, Frames DEF Discard, DeleteGroup
  <2>2. ASSUME NEW a \in Apps, Complete(a)
        PROVE  \/ owner' = owner
               \/ owner' = [g \in Gpus |-> IF owner[g] = a /\ row[a] = "Pending" THEN None ELSE owner[g]]
    BY <2>2 DEF Complete
  <2>3. ASSUME Release PROVE owner' = owner \/ owner' = [owner EXCEPT ![rec.gpu] = None]
    BY <2>3 DEF Release
  <2> QED
    BY <1>1, <2>1, <2>2, <2>3
<1> QED
  BY <1>2, <1>3, <1>4

\* An attempt of a deletion ends it, or leaves another one.
LEMMA DelStep ==
    ASSUME GpuAssumption, TInv, [Next]_vars
    PROVE  del' \in [Apps -> Dels] /\ AttemptsAreCounted'
<1>1. ASSUME NEW a \in Apps, NEW d \in Dels, del' = [del EXCEPT ![a] = d],
             d.pc \in {"None", "Queued", "Removed", "Checked"} => d.n < MaxAttempts
      PROVE  del' \in [Apps -> Dels] /\ AttemptsAreCounted'
  BY <1>1 DEF TInv, Types, AttemptsAreCounted
<1>2. ASSUME NEW a \in Apps, NEW p \in {"Queued", "Removed", "Checked", "Done", "Failed"}, NEW v \in BOOLEAN,
             del' = [del EXCEPT ![a] = [pc |-> p, n |-> del[a].n, verify |-> v]],
             del[a].pc \in {"Queued", "Removed", "Checked"}
      PROVE  del' \in [Apps -> Dels] /\ AttemptsAreCounted'
  <2> DEFINE d == [pc |-> p, n |-> del[a].n, verify |-> v]
  <2>1. d \in Dels /\ d.n < MaxAttempts
    BY <1>2 DEF TInv, Types, AttemptsAreCounted, Dels
  <2> QED
    BY <1>1, <1>2, <2>1
<1>3. ASSUME NEW a \in Apps, Retry(a), del[a].pc \in {"Queued", "Removed", "Checked"}
      PROVE  del' \in [Apps -> Dels] /\ AttemptsAreCounted'
  <2> DEFINE d == [pc |-> IF del[a].n + 1 >= MaxAttempts THEN "Failed" ELSE "Queued",
                   n |-> del[a].n + 1, verify |-> FALSE]
  <2>1. del[a].n \in 0..MaxAttempts /\ del[a].n < MaxAttempts
    BY <1>3 DEF TInv, Types, AttemptsAreCounted, Dels
  <2>2. d \in Dels /\ (d.pc \in {"None", "Queued", "Removed", "Checked"} => d.n < MaxAttempts)
    BY <2>1 DEF Dels, GpuAssumption
  <2>3. del' = [del EXCEPT ![a] = d]
    BY <1>3 DEF Retry
  <2> QED
    BY <1>1, <2>2, <2>3
<1>4. ASSUME NEW a \in Apps, RequestDelete(a) \/ RetryOperation(a)
      PROVE  del' \in [Apps -> Dels] /\ AttemptsAreCounted'
  <2>1. CASE del' = [del EXCEPT ![a] = [pc |-> "Queued", n |-> 0, verify |-> FALSE]]
    <3> DEFINE d == [pc |-> "Queued", n |-> 0, verify |-> FALSE]
    <3>1. d \in Dels /\ d.n < MaxAttempts
      BY DEF Dels, GpuAssumption
    <3> QED
      BY <1>1, <2>1, <3>1
  <2>2. CASE del' = [del EXCEPT ![a] = IF @.pc = "None" THEN [@ EXCEPT !.pc = "Queued"] ELSE @]
    <3>1. CASE del[a].pc = "None"
      <4> DEFINE d == [del[a] EXCEPT !.pc = "Queued"]
      <4>1. d \in Dels /\ d.pc = "Queued" /\ d.n = del[a].n
        BY DEF TInv, Types, Dels
      <4>2. del' = [del EXCEPT ![a] = d]
        BY <2>2, <3>1
      <4>3. del[a].n < MaxAttempts
        BY <3>1 DEF TInv, AttemptsAreCounted
      <4> QED
        BY <1>1, <4>1, <4>2, <4>3
    <3>2. CASE del[a].pc # "None"
      BY <2>2, <3>2 DEF TInv, Types, AttemptsAreCounted
    <3> QED
      BY <3>1, <3>2
  <2> QED
    BY <1>4, <2>1, <2>2 DEF RequestDelete, MarkGroupDeleting, RetryOperation
<1>5. ASSUME NEW a \in Apps, RemoveRuntime(a) \/ CheckRemoved(a) \/ DeleteGroup(a)
      PROVE  del' \in [Apps -> Dels] /\ AttemptsAreCounted'
  <2>1. del[a] \in Dels /\ del \in [Apps -> Dels] /\ del[a].pc \in {"Queued", "Removed", "Checked"}
    BY <1>5 DEF RemoveRuntime, CheckRemoved, DeleteGroup, TInv, Types
  <2>2. \/ Retry(a)
        \/ \E p \in {"Removed", "Checked", "Done", "Failed"} : del' = [del EXCEPT ![a].pc = p]
        \/ del' = [del EXCEPT ![a] = [@ EXCEPT !.pc = "Checked", !.verify = TRUE]]
    BY <1>5 DEF RemoveRuntime, CheckRemoved, DeleteGroup
  <2>3. ASSUME NEW p \in {"Removed", "Checked", "Done", "Failed"}, del' = [del EXCEPT ![a].pc = p]
        PROVE  del' = [del EXCEPT ![a] = [pc |-> p, n |-> del[a].n, verify |-> del[a].verify]]
    <3>1. [del[a] EXCEPT !.pc = p] = [pc |-> p, n |-> del[a].n, verify |-> del[a].verify]
      BY <2>1 DEF Dels
    <3> QED
      BY <2>3, <3>1
  <2>4. ASSUME del' = [del EXCEPT ![a] = [@ EXCEPT !.pc = "Checked", !.verify = TRUE]]
        PROVE  del' \in [Apps -> Dels] /\ AttemptsAreCounted'
    <3> DEFINE d == [del[a] EXCEPT !.pc = "Checked", !.verify = TRUE]
    <3>1. d \in Dels /\ d.n = del[a].n /\ del[a].n < MaxAttempts
      BY <2>1 DEF Dels, TInv, AttemptsAreCounted
    <3>2. del' = [del EXCEPT ![a] = d]
      BY <2>4
    <3> QED
      BY <1>1, <3>1, <3>2
  <2>5. del[a].verify \in BOOLEAN
    BY <2>1 DEF Dels
  <2> QED
    BY <1>2, <1>3, <2>1, <2>2, <2>3, <2>4, <2>5
<1>6. CASE del' = del
  BY <1>6 DEF TInv, Types, AttemptsAreCounted
<1> QED
  BY <1>4, <1>5, <1>6, Frames

LEMMA RowsStep ==
    ASSUME GpuAssumption, TInv, [Next]_vars
    PROVE  /\ row' \in [Apps -> {"Active", "Pending", "Gone"}]
           /\ run' \in [Apps -> {"Running", "Stopped"}]
           /\ group' \in [Apps -> {"Ready", "Deleting", "Gone"}]
           /\ observed' \in [Gpus -> {"Available", "Unavailable"}]
           /\ rec' \in Recs /\ works' \in SUBSET Gpus /\ ready' \in BOOLEAN
<1>1. row' \in [Apps -> {"Active", "Pending", "Gone"}]
  <2>1. \/ row' = row
        \/ \E a \in Apps : MarkPending(a) \/ Discard(a) \/ Complete(a) \/ RequestDelete(a) \/ DeleteGroup(a)
    BY Frames
  <2>2. \A a \in Apps : row[a] \in {"Active", "Pending", "Gone"}
    BY DEF TInv, Types
  <2> QED
    BY <2>1, <2>2 DEF MarkPending, Discard, Complete, RequestDelete, MarkGroupDeleting,
       DeleteGroup, TInv, Types
<1>2. run' \in [Apps -> {"Running", "Stopped"}]
  <2>1. run' = run \/ \E a \in Apps : SetRuntimeState(a) \/ Discard(a) \/ RequestDelete(a)
    BY Frames
  <2> QED
    BY <2>1 DEF SetRuntimeState, Discard, RequestDelete, MarkGroupDeleting, TInv, Types
<1>3. group' \in [Apps -> {"Ready", "Deleting", "Gone"}]
  <2>1. group' = group \/ \E a \in Apps : Complete(a) \/ RequestDelete(a) \/ DeleteGroup(a)
    BY Frames
  <2>2. \A a \in Apps : group[a] \in {"Ready", "Deleting", "Gone"}
    BY DEF TInv, Types
  <2> QED
    BY <2>1, <2>2 DEF Complete, RequestDelete, MarkGroupDeleting, DeleteGroup, TInv, Types
<1>4. observed' \in [Gpus -> {"Available", "Unavailable"}]
  <2>1. observed' = observed \/ Observe \/ \E g \in Gpus : Diagnose(g)
    BY Frames
  <2> QED
    BY <2>1 DEF Observe, Diagnose, TInv, Types
<1>5. rec' \in Recs
  <2>1. rec' = rec \/ TakeCensus \/ Release \/ \E g \in Gpus : Diagnose(g)
    BY Frames
  <2>2. NoRec \in Recs /\ [rec EXCEPT !.pc = "Release"] \in Recs
    BY DEF Recs, NoRec, TInv, Types
  <2> QED
    BY <2>1, <2>2 DEF TakeCensus, Release, Diagnose, Recs, TInv, Types
<1>6. works' \in SUBSET Gpus /\ ready' \in BOOLEAN
  <2>1. env' = env \/ Environment
    BY Frames
  <2> QED
    BY <2>1 DEF Environment, env, TInv, Types
<1> QED
  BY <1>1, <1>2, <1>3, <1>4, <1>5, <1>6

\* The service and the tasks of an app
LEMMA DockerStep ==
    ASSUME GpuAssumption, TInv, [Next]_vars
    PROVE  service' \in [Apps -> Services \cup {None}] /\ tasks' \in SUBSET (Apps \X Gpus)
<1>1. ASSUME NEW a \in Apps, NEW s \in Services \cup {None}, service' = [service EXCEPT ![a] = s]
      PROVE  service' \in [Apps -> Services \cup {None}]
  BY <1>1 DEF TInv, Types
<1>2. ASSUME NEW a \in Apps, Scale(a)
      PROVE  service' \in [Apps -> Services \cup {None}] /\ tasks' = tasks
  <2> DEFINE s == [service[a] EXCEPT !.up = (run[a] = "Running")]
  <2>1. service[a] \in Services /\ service' = [service EXCEPT ![a] = s] /\ tasks' = tasks
    BY <1>2 DEF Scale, TInv, Types
  <2>2. s \in Services
    BY <2>1 DEF Services
  <2> QED
    BY <1>1, <2>1, <2>2
<1>3. ASSUME NEW a \in Apps, Apply(a)
      PROVE  service' \in [Apps -> Services \cup {None}] /\ tasks' = tasks
  <2> DEFINE s == IF dep[a].art.there THEN [gpu |-> dep[a].art.gpu, up |-> dep[a].art.up] ELSE None
  <2>1. s \in Services \cup {None}
    BY DEF TInv, Types, Deps, Artifacts, Services
  <2> QED
    BY <1>1, <1>3, <2>1 DEF Apply
<1>4. ASSUME NEW a \in Apps, RemoveRuntime(a)
      PROVE  service' \in [Apps -> Services \cup {None}] /\ tasks' = tasks
  BY <1>1, <1>4 DEF RemoveRuntime, StackRemoved, TInv, Types
<1>5. ASSUME NEW a \in Apps, TaskStarts(a)
      PROVE  service' = service /\ tasks' \in SUBSET (Apps \X Gpus)
  BY <1>5 DEF TaskStarts, Uses, TInv, Types
<1>6. ASSUME NEW t \in Apps \X Gpus, TaskEnds(t)
      PROVE  service' = service /\ tasks' \in SUBSET (Apps \X Gpus)
  BY <1>6 DEF TaskEnds, TInv, Types
<1> QED
  BY Frames, <1>2, <1>3, <1>4, <1>5, <1>6 DEF TInv, Types

LEMMA NextTInv == ASSUME GpuAssumption, TInv, [Next]_vars PROVE TInv'
  BY HistoryStep, OwnerStep, DelStep, RowsStep, DockerStep DEF TInv, Types

\* One device at most for an app, counted
LEMMA CountOwned == ASSUME GpuAssumption, TInv, NEW a \in Apps PROVE Cardinality(Owned(a)) <= 1
<1>1. CASE Owned(a) = {}
  BY <1>1, FS_EmptySet
<1>2. ASSUME NEW g \in Owned(a) PROVE Cardinality(Owned(a)) <= 1
  <2>1. Owned(a) = {g}
    <3>1. \A h \in Owned(a) : h = g
      BY <1>2 DEF TInv, OneEach, Owned, GpuAssumption
    <3>2. Owned(a) \subseteq {g} /\ g \in Owned(a)
      BY <3>1
    <3> QED
      BY <3>2
  <2>2. Cardinality({g}) = 1
    BY FS_Singleton
  <2> QED
    BY <2>1, <2>2
<1> QED
  BY <1>1, <1>2

LEMMA TypesAreRight == ASSUME GpuAssumption, TInv PROVE TypeOK
<1>1. \A a \in Apps :
          /\ dep[a].pc \in {"Idle", "Requested", "Verified", "Applied", "Converged"}
          /\ dep[a].kind \in {"deploy", "rollback", "auto"} /\ dep[a].art \in Artifacts
          /\ del[a].n \in 0..MaxAttempts /\ del[a].verify \in BOOLEAN
          /\ del[a].pc \in {"None", "Queued", "Removed", "Checked", "Failed", "Done"}
  BY DEF TInv, Types, Deps, Dels
<1>2. \A a \in Apps : Cardinality(Owned(a)) <= 1
  BY CountOwned
<1>3. Cardinality({g \in Gpus : owner[g] # None}) <= Quota
  BY DEF TInv, WithinQuota, Reserved
<1>4. rec.pc \in {"Idle", "Diagnosed", "Release"} /\ rec.gpu \in Gpus \cup {None}
  BY DEF TInv, Types, Recs
<1>5. \A a \in Apps :
          /\ attempts[a] \subseteq Artifacts /\ good[a] \subseteq attempts[a]
          /\ current[a] \in good[a] \cup {None}
          /\ service[a] = None \/ service[a] \in [gpu : Gpus \cup {None}, up : BOOLEAN]
  BY DEF TInv, Types, HistoryIsKept, Services
<1> QED
  BY <1>1, <1>2, <1>3, <1>4, <1>5 DEF TypeOK, TInv, Types

-----------------------------------------------------------------------------
(* Theorems: types *)

\* Rows, reservations and Operations stay within their states and the tenant within its
\* quota, in every window (reserve, under the advisory lock; the attempts of a deletion).
THEOREM TypesInductive ==
    ASSUME GpuAssumption
    PROVE  Spec => []TInv
<1>1. Init => TInv
  BY InitTInv
<1>2. TInv /\ [Next]_vars => TInv'
  BY NextTInv
<1> QED
  BY <1>1, <1>2, PTL DEF Spec

-----------------------------------------------------------------------------
(* Exclusive use, while the windows are closed *)

\* Nothing of an app is left in Docker.
Empty(a) == service[a] = None /\ \A t \in tasks : t[1] # a

\* What was verified before an apply is true when it is applied.
VerifiedIsOwned ==
    \A a \in Apps : dep[a].pc = "Verified" /\ dep[a].art.gpu # None => owner[dep[a].art.gpu] = a

\* A rollout without the app has seen that nothing of it is left, if it frees a device.
ConvergedIsEmpty ==
    \A a \in Apps : dep[a].pc = "Converged" /\ row[a] = "Pending" => Owned(a) = {} \/ Empty(a)

\* What runs was attempted.
RunningWasAttempted ==
    /\ \A a \in Apps : service[a] # None =>
          \E art \in attempts[a] : art.there /\ art.gpu = service[a].gpu
    /\ \A t \in tasks : \E art \in attempts[t[1]] : art.there /\ art.gpu = t[2]

\* A group that is deleted is deployed no more, its stack is removed before the devices are
\* looked at, and these are free before they are released.
DeletionIsOrdered ==
    \A a \in Apps :
        /\ group[a] # "Ready" => dep[a].pc = "Idle"
        /\ del[a].pc \in {"Removed", "Checked"} => group[a] = "Deleting" /\ service[a] = None
        /\ del[a].verify => del[a].pc \in {"Checked", "Done"}
        /\ del[a].pc = "Checked" /\ del[a].verify => Empty(a)

\* What the census of a recovery has found is true when the device is released.
CensusHolds ==
    /\ rec.pc # "Idle" => rec.gpu \in Gpus
    /\ rec.pc = "Release" =>
          /\ \A t \in tasks : t[2] # rec.gpu
          /\ \A a \in Apps : service[a] = None \/ service[a].gpu = None

SInv ==
    /\ UsedIsReserved
    /\ DeletedHasNoService
    /\ VerifiedIsOwned
    /\ ConvergedIsEmpty
    /\ RunningWasAttempted
    /\ DeletionIsOrdered
    /\ CensusHolds

LEMMA InitSInv == ASSUME GpuAssumption, Init PROVE SInv
  BY DEF GpuAssumption, Init, SInv, UsedIsReserved, DeletedHasNoService, VerifiedIsOwned,
     ConvergedIsEmpty, RunningWasAttempted, DeletionIsOrdered, CensusHolds, Idle, NoRec

\* Stacks change by an apply, which starts what was verified, by a scaling, and by removal.
LEMMA ServiceStep ==
    ASSUME GpuAssumption, TInv, SInv, [Next]_vars, NEW b \in Apps
    PROVE  /\ service'[b] # None =>
                 \/ service[b] # None /\ service'[b].gpu = service[b].gpu
                 \/ Apply(b) /\ dep[b].art.there /\ service'[b].gpu = dep[b].art.gpu
           /\ \A x \in Apps : Apply(x) => rec.pc # "Release" \/ "census" \in Windows
<1>1. ASSUME NEW a \in Apps, Scale(a)
      PROVE  \A x \in Apps : service'[x] # None => service[x] # None /\ service'[x].gpu = service[x].gpu
  BY <1>1 DEF Scale, TInv, Types, Services
<1>2. ASSUME NEW a \in Apps, Apply(a)
      PROVE  \/ service'[b] = service[b]
             \/ b = a /\ service'[b] = IF dep[b].art.there
                                       THEN [gpu |-> dep[b].art.gpu, up |-> dep[b].art.up] ELSE None
  BY <1>2 DEF Apply, TInv, Types
<1>3. ASSUME NEW a \in Apps, RemoveRuntime(a)
      PROVE  \A x \in Apps : service'[x] \in {service[x], None}
  BY <1>3 DEF RemoveRuntime, StackRemoved, TInv, Types
<1>4. \A x \in Apps : Apply(x) => rec.pc # "Release" \/ "census" \in Windows
  BY DEF Apply, Outside
<1>5. \/ service' = service \/ (\E a \in Apps : Scale(a)) \/ (\E a \in Apps : Apply(a))
      \/ \E a \in Apps : RemoveRuntime(a)
  BY Frames
<1>6. CASE \E a \in Apps : Apply(a)
  <2> PICK a \in Apps : Apply(a)
    BY <1>6
  <2> QED
    BY <1>2, <1>4
<1> QED
  BY <1>1, <1>3, <1>4, <1>5, <1>6

\* Tasks are started by a service and end.
LEMMA TaskStep ==
    ASSUME GpuAssumption, TInv, [Next]_vars, NEW t \in tasks'
    PROVE  \/ t \in tasks
           \/ /\ t \in Apps \X Gpus /\ service[t[1]] # None /\ service[t[1]].gpu = t[2]
              /\ TaskStarts(t[1])
<1>1. ASSUME NEW a \in Apps, TaskStarts(a)
      PROVE  \/ t \in tasks
             \/ t = <<a, service[a].gpu>> /\ service[a] # None /\ service[a].gpu \in Gpus
  BY <1>1 DEF TaskStarts, Uses
<1>2. ASSUME NEW u \in Apps \X Gpus, TaskEnds(u) PROVE t \in tasks
  BY <1>2 DEF TaskEnds
<1> QED
  BY <1>1, <1>2, Frames

\* Who frees a device has seen that nothing uses it.
LEMMA FreeStep ==
    ASSUME GpuAssumption, TInv, SInv, Windows = {}, [Next]_vars, NEW g \in Gpus, owner'[g] # owner[g]
    PROVE  /\ \A t \in tasks : t[2] # g
           /\ \A a \in Apps : service[a] # None => service[a].gpu # g
           /\ \A a \in Apps : dep[a].pc = "Verified" => dep[a].art.gpu # g
<1>1. ASSUME NEW a \in Apps, owner[g] = a, Empty(a), dep[a].pc # "Verified"
      PROVE  /\ \A t \in tasks : t[2] # g
             /\ \A x \in Apps : service[x] # None => service[x].gpu # g
             /\ \A x \in Apps : dep[x].pc = "Verified" => dep[x].art.gpu # g
  BY <1>1 DEF SInv, UsedIsReserved, VerifiedIsOwned, Empty, GpuAssumption
<1>2. ASSUME NEW a \in Apps, NEW h \in Gpus, Reserve(a, h)
      PROVE  /\ \A t \in tasks : t[2] # g
             /\ \A x \in Apps : service[x] # None => service[x].gpu # g
             /\ \A x \in Apps : dep[x].pc = "Verified" => dep[x].art.gpu # g
  <2>1. h = g /\ owner[g] = None
    BY <1>2 DEF Reserve, TInv, Types
  <2>2. \A t \in tasks : t[1] \in Apps
    BY DEF TInv, Types
  <2> QED
    BY <2>1, <2>2 DEF SInv, UsedIsReserved, VerifiedIsOwned, GpuAssumption
<1>3. ASSUME NEW a \in Apps, Discard(a)
      PROVE  /\ \A t \in tasks : t[2] # g
             /\ \A x \in Apps : service[x] # None => service[x].gpu # g
             /\ \A x \in Apps : dep[x].pc = "Verified" => dep[x].art.gpu # g
  <2>1. owner[g] = a /\ NeverAttempted(a) /\ dep[a].pc = "Idle"
    BY <1>3 DEF Discard, NoActiveDeployment, TInv, Types
  <2>2. \A art \in attempts[a] : art.there => art.gpu = None
    BY <2>1 DEF NeverAttempted
  <2>3. g # None
    BY DEF GpuAssumption
  <2>4. \A t \in tasks : t[2] # g
    BY <2>1, <2>2, <2>3 DEF SInv, UsedIsReserved, RunningWasAttempted
  <2>5. \A x \in Apps : service[x] # None => service[x].gpu # g
    BY <2>1, <2>2, <2>3 DEF SInv, UsedIsReserved, RunningWasAttempted
  <2> QED
    BY <2>1, <2>3, <2>4, <2>5 DEF SInv, VerifiedIsOwned
<1>4. ASSUME NEW a \in Apps, Complete(a)
      PROVE  owner[g] = a /\ Empty(a) /\ dep[a].pc # "Verified"
  <2>1. /\ owner[g] = a /\ row[a] = "Pending" /\ dep[a].pc = "Converged"
    BY <1>4 DEF Complete, TInv, Types
  <2> QED
    BY <2>1 DEF SInv, ConvergedIsEmpty, Owned
<1>5. ASSUME NEW a \in Apps, DeleteGroup(a)
      PROVE  owner[g] = a /\ Empty(a) /\ dep[a].pc # "Verified"
  <2>1. /\ owner[g] = a /\ group[a] = "Deleting" /\ del[a].pc = "Checked"
        /\ del[a].verify \/ Owned(a) = {}
    BY <1>5 DEF DeleteGroup, TInv, Types
  <2>2. g \in Owned(a)
    BY <2>1 DEF Owned
  <2> QED
    BY <2>1, <2>2 DEF SInv, DeletionIsOrdered
<1>6. ASSUME Release
      PROVE  /\ \A t \in tasks : t[2] # g
             /\ \A x \in Apps : service[x] # None => service[x].gpu # g
             /\ \A x \in Apps : dep[x].pc = "Verified" => dep[x].art.gpu # g
  <2>1. /\ rec.pc = "Release" /\ g = rec.gpu /\ g # None
        /\ owner[g] # None /\ dep[owner[g]].pc = "Idle"
    BY <1>6 DEF Release, Stale, TInv, Types, GpuAssumption
  <2> QED
    BY <2>1 DEF SInv, CensusHolds, VerifiedIsOwned
<1> QED
  BY <1>1, <1>2, <1>3, <1>4, <1>5, <1>6, Frames

\* How the deployment of b goes on
LEMMA DepOf ==
    ASSUME GpuAssumption, TInv, [Next]_vars, NEW b \in Apps
    PROVE  /\ attempts[b] \subseteq attempts'[b]
           /\ \/ dep'[b] = dep[b]
              \/ (dep[b].pc = "Idle" /\ dep'[b].pc = "Requested" /\ (Deploy(b) \/ Rollback(b)))
              \/ (VerifyArtifact(b) /\ dep'[b].pc = "Verified" /\ dep'[b].art = dep[b].art
                  /\ VerifyOwnership(b, dep[b].art))
              \/ (Apply(b) /\ dep'[b].pc = "Applied")
              \/ (Rollout(b) /\ dep'[b].pc = "Converged" /\ (row[b] = "Pending" /\ Owned(b) # {} => VerifyRemoved(b)))
              \/ (Rollout(b) /\ dep'[b].pc = "Requested")
              \/ dep'[b].pc = "Idle"
<1> DEFINE Goes ==
              \/ dep'[b] = dep[b]
              \/ (dep[b].pc = "Idle" /\ dep'[b].pc = "Requested" /\ (Deploy(b) \/ Rollback(b)))
              \/ (VerifyArtifact(b) /\ dep'[b].pc = "Verified" /\ dep'[b].art = dep[b].art
                  /\ VerifyOwnership(b, dep[b].art))
              \/ (Apply(b) /\ dep'[b].pc = "Applied")
              \/ (Rollout(b) /\ dep'[b].pc = "Converged" /\ (row[b] = "Pending" /\ Owned(b) # {} => VerifyRemoved(b)))
              \/ (Rollout(b) /\ dep'[b].pc = "Requested")
              \/ dep'[b].pc = "Idle"
<1>1. dep \in [Apps -> Deps] /\ attempts \in [Apps -> SUBSET Artifacts] /\ dep[b] \in Deps
  BY DEF TInv, Types
<1>2. ASSUME NEW a \in Apps, NEW d, dep' = [dep EXCEPT ![a] = d]
      PROVE  dep'[b] = IF a = b THEN d ELSE dep[b]
  BY <1>1, <1>2
<1>3. ASSUME NEW a \in Apps, Deploy(a) \/ Rollback(a)
      PROVE  attempts[b] \subseteq attempts'[b] /\ Goes
  <2>1. PICK k, art : Requested(a, k, art)
    <3>1. CASE Deploy(a)
      BY <3>1, Zenon DEF Deploy
    <3>2. CASE Rollback(a)
      BY <3>2 DEF Rollback
    <3> QED
      BY <1>3, <3>1, <3>2
  <2>2. /\ attempts' = [attempts EXCEPT ![a] = @ \cup {art}] /\ dep[a].pc = "Idle"
        /\ dep' = [dep EXCEPT ![a] = [pc |-> "Requested", kind |-> k, art |-> art]]
    BY <2>1 DEF Requested
  <2>3. attempts[b] \subseteq attempts'[b]
    BY <1>1, <2>2
  <2>4. dep'[b] = dep[b] \/ (a = b /\ dep'[b].pc = "Requested")
    BY <1>1, <2>2
  <2> QED
    BY <1>3, <2>2, <2>3, <2>4
<1>4. ASSUME NEW a \in Apps, VerifyArtifact(a) PROVE attempts' = attempts /\ Goes
  BY <1>1, <1>4 DEF VerifyArtifact, history, Idle, Deps
<1>5. ASSUME NEW a \in Apps, Apply(a) PROVE attempts' = attempts /\ Goes
  <2>1. dep' = [dep EXCEPT ![a].pc = "Applied"] /\ attempts' = attempts
    BY <1>5 DEF Apply, history
  <2>2. dep'[b] = dep[b] \/ (a = b /\ dep'[b].pc = "Applied")
    BY <1>1, <2>1 DEF Deps
  <2> QED
    BY <1>5, <2>1, <2>2
<1>6. ASSUME NEW a \in Apps, Rollout(a) PROVE attempts' = attempts /\ Goes
  <2>1. /\ attempts' = attempts
        /\ \/ /\ dep' = [dep EXCEPT ![a].pc = "Converged"]
              /\ row[a] = "Pending" /\ Owned(a) # {} => VerifyRemoved(a)
           \/ dep' = [dep EXCEPT ![a] = Idle]
           \/ \E art \in good[a] : dep' = [dep EXCEPT ![a] = [pc |-> "Requested", kind |-> "auto", art |-> art]]
    BY <1>6 DEF Rollout, Failed, history
  <2>2. CASE dep' = [dep EXCEPT ![a].pc = "Converged"] /\ (row[a] = "Pending" /\ Owned(a) # {} => VerifyRemoved(a))
    <3>1. dep'[b] = dep[b] \/ (a = b /\ dep'[b].pc = "Converged")
      BY <1>1, <2>2 DEF Deps
    <3> QED
      BY <1>6, <2>1, <2>2, <3>1
  <2>3. CASE dep' = [dep EXCEPT ![a] = Idle]
    <3>1. dep'[b] = dep[b] \/ dep'[b].pc = "Idle"
      BY <1>1, <2>3 DEF Idle
    <3> QED
      BY <2>1, <3>1
  <2>4. ASSUME NEW art \in good[a],
               dep' = [dep EXCEPT ![a] = [pc |-> "Requested", kind |-> "auto", art |-> art]]
        PROVE  Goes
    <3>1. dep'[b] = dep[b] \/ (a = b /\ dep'[b].pc = "Requested")
      BY <1>1, <2>4
    <3> QED
      BY <1>6, <3>1
  <2> QED
    BY <2>1, <2>2, <2>3, <2>4
<1>7. ASSUME NEW a \in Apps, Complete(a) \/ DeploymentGone(a) PROVE attempts' = attempts /\ Goes
  <2>1. dep' = [dep EXCEPT ![a] = Idle] /\ attempts' = attempts
    BY <1>7 DEF Complete, DeploymentGone, history
  <2>2. dep'[b] = dep[b] \/ dep'[b].pc = "Idle"
    BY <1>1, <2>1 DEF Idle
  <2> QED
    BY <2>1, <2>2
<1>8. CASE UNCHANGED <<dep, history>>
  BY <1>8 DEF history
<1> QED
  BY <1>3, <1>4, <1>5, <1>6, <1>7, <1>8, DepStep

\* Only a reservation, for an active app, gives a device to b.
LEMMA OwnedStep ==
    ASSUME GpuAssumption, TInv, [Next]_vars, NEW b \in Apps, NEW g \in Gpus, owner'[g] = b
    PROVE  owner[g] = b \/ (Reserve(b, g) /\ row[b] = "Active" /\ row' = row /\ UNCHANGED <<dep, swarm, rec>>)
<1>1. ASSUME NEW a \in Apps, NEW h \in Gpus, Reserve(a, h) PROVE owner[g] = b \/ (a = b /\ h = g)
  BY <1>1 DEF Reserve, TInv, Types
<1>2. ASSUME NEW a \in Apps, Complete(a) PROVE owner[g] = b
  <2>1. \/ owner' = owner
        \/ owner' = [h \in Gpus |-> IF owner[h] = a /\ row[a] = "Pending" THEN None ELSE owner[h]]
    BY <1>2 DEF Complete
  <2> QED
    BY <2>1 DEF GpuAssumption
<1>3. ASSUME NEW a \in Apps, Discard(a) \/ DeleteGroup(a) PROVE owner[g] = b
  <2>1. \/ owner' = owner
        \/ owner' = [h \in Gpus |-> IF owner[h] = a THEN None ELSE owner[h]]
    BY <1>3 DEF Discard, DeleteGroup
  <2> QED
    BY <2>1 DEF GpuAssumption
<1>4. ASSUME Release PROVE owner[g] = b
  BY <1>4 DEF Release, TInv, Types, GpuAssumption
<1>5. Reserve(b, g) => row[b] = "Active" /\ row' = row /\ UNCHANGED <<dep, swarm, rec>>
  BY DEF Reserve, Outside
<1> QED
  BY <1>1, <1>2, <1>3, <1>4, <1>5, Frames

LEMMA UsedStep ==
    ASSUME GpuAssumption, TInv, SInv, Windows = {}, [Next]_vars
    PROVE  UsedIsReserved' /\ RunningWasAttempted'
<1>1. ASSUME NEW t \in tasks'
      PROVE  owner'[t[2]] = t[1] /\ \E art \in attempts'[t[1]] : art.there /\ art.gpu = t[2]
  <2>1. t[1] \in Apps /\ t[2] \in Gpus
    BY <1>1, TaskStep DEF TInv, Types
  <2>2. /\ owner[t[2]] = t[1]
        /\ \E art \in attempts[t[1]] : art.there /\ art.gpu = t[2]
    <3>1. CASE t \in tasks
      BY <3>1 DEF SInv, UsedIsReserved, RunningWasAttempted
    <3>2. CASE t \notin tasks
      <4>1. service[t[1]] # None /\ service[t[1]].gpu = t[2] /\ t[2] # None
        BY <1>1, <2>1, <3>2, TaskStep DEF GpuAssumption
      <4> QED
        BY <2>1, <4>1 DEF SInv, UsedIsReserved, RunningWasAttempted
    <3> QED
      BY <3>1, <3>2
  <2>3. owner'[t[2]] = owner[t[2]]
    <3>1. CASE t \in tasks
      BY <2>1, <3>1, FreeStep
    <3>2. CASE t \notin tasks
      BY <1>1, <2>1, <3>2, TaskStep, FreeStep
    <3> QED
      BY <3>1, <3>2
  <2> QED
    BY <2>1, <2>2, <2>3, DepOf
<1>2. ASSUME NEW a \in Apps, service'[a] # None
      PROVE  /\ service'[a].gpu # None => owner'[service'[a].gpu] = a
             /\ \E art \in attempts'[a] : art.there /\ art.gpu = service'[a].gpu
  <2>1. CASE service[a] # None /\ service'[a].gpu = service[a].gpu
    <3>1. service[a].gpu \in Gpus \cup {None}
      BY <2>1 DEF TInv, Types, Services
    <3>2. /\ service[a].gpu # None => owner[service[a].gpu] = a
          /\ \E art \in attempts[a] : art.there /\ art.gpu = service[a].gpu
      BY <2>1 DEF SInv, UsedIsReserved, RunningWasAttempted
    <3>3. service[a].gpu # None => owner'[service[a].gpu] = owner[service[a].gpu]
      BY <2>1, <3>1, FreeStep
    <3> QED
      BY <2>1, <3>2, <3>3, DepOf
  <2>2. CASE Apply(a) /\ dep[a].art.there /\ service'[a].gpu = dep[a].art.gpu
    <3>1. dep[a].pc = "Verified" /\ dep[a].art \in attempts[a] /\ dep[a].art.gpu \in Gpus \cup {None}
      BY <2>2 DEF Apply, TInv, HistoryIsKept, Types, Deps, Artifacts
    <3>2. dep[a].art.gpu # None => owner[dep[a].art.gpu] = a
      BY <3>1 DEF SInv, VerifiedIsOwned
    <3>3. dep[a].art.gpu # None => owner'[dep[a].art.gpu] = owner[dep[a].art.gpu]
      BY <3>1, FreeStep
    <3> QED
      BY <2>2, <3>1, <3>2, <3>3, DepOf
  <2> QED
    BY <1>2, <2>1, <2>2, ServiceStep
<1> QED
  BY <1>1, <1>2 DEF UsedIsReserved, RunningWasAttempted

LEMMA VerifiedStep ==
    ASSUME GpuAssumption, TInv, SInv, Windows = {}, [Next]_vars
    PROVE  VerifiedIsOwned'
<1> SUFFICES ASSUME NEW b \in Apps, dep'[b].pc = "Verified", dep'[b].art.gpu # None
             PROVE  owner'[dep'[b].art.gpu] = b
  BY DEF VerifiedIsOwned
<1>1. CASE dep'[b] = dep[b]
  <2>1. dep[b].art.gpu \in Gpus
    BY <1>1 DEF TInv, Types, Deps, Artifacts
  <2> QED
    BY <1>1, <2>1, FreeStep DEF SInv, VerifiedIsOwned
<1>2. CASE VerifyArtifact(b) /\ dep'[b].art = dep[b].art /\ VerifyOwnership(b, dep[b].art)
  <2>1. owner' = owner /\ owner[dep[b].art.gpu] = b
    BY <1>2 DEF VerifyArtifact, VerifyOwnership, db
  <2> QED
    BY <1>2, <2>1
<1> QED
  BY <1>1, <1>2, DepOf

LEMMA EmptyStep ==
    ASSUME GpuAssumption, TInv, SInv, [Next]_vars, NEW b \in Apps, dep[b].pc # "Verified"
    PROVE  /\ service[b] = None => service'[b] = None
           /\ Empty(b) => Empty(b)'
<1>1. ~Apply(b)
  BY DEF Apply
<1>2. service[b] = None => service'[b] = None
  BY <1>1, ServiceStep
<1>3. ASSUME Empty(b), NEW t \in tasks' PROVE t[1] # b
  BY <1>3, TaskStep DEF Empty
<1> QED
  BY <1>2, <1>3 DEF Empty

LEMMA ConvergedStep ==
    ASSUME GpuAssumption, TInv, SInv, Windows = {}, [Next]_vars
    PROVE  ConvergedIsEmpty'
<1> SUFFICES ASSUME NEW b \in Apps, dep'[b].pc = "Converged", row'[b] = "Pending"
             PROVE  Owned(b)' = {} \/ Empty(b)'
  BY DEF ConvergedIsEmpty
<1>1. CASE dep'[b] = dep[b]
  <2>1. dep[b].pc = "Converged" /\ group[b] = "Ready"
    BY <1>1 DEF SInv, DeletionIsOrdered
  <2>2. row[b] = "Pending"
    <3>1. ASSUME NEW a \in Apps, MarkPending(a) PROVE row[b] = "Pending"
      BY <2>1, <3>1 DEF MarkPending, TInv, Types
    <3>2. ASSUME NEW a \in Apps, Discard(a) PROVE row[b] = "Pending"
      BY <2>1, <3>2 DEF Discard, NoActiveDeployment, TInv, Types
    <3>3. ASSUME NEW a \in Apps, Complete(a) PROVE row[b] = "Pending"
      BY <3>3 DEF Complete, TInv, Types
    <3>4. ASSUME NEW a \in Apps, RequestDelete(a) PROVE row[b] = "Pending"
      BY <2>1, <3>4 DEF RequestDelete, MarkGroupDeleting, NoActiveDeployment, TInv, Types
    <3>5. ASSUME NEW a \in Apps, DeleteGroup(a) PROVE row[b] = "Pending"
      BY <3>5 DEF DeleteGroup, TInv, Types
    <3> QED
      BY <3>1, <3>2, <3>3, <3>4, <3>5, Frames
  <2>3. Owned(b) = {} \/ Empty(b)
    BY <2>1, <2>2 DEF SInv, ConvergedIsEmpty
  <2>4. CASE Owned(b) = {}
    <3>1. \A g \in Gpus : owner'[g] # b
      BY <2>2, <2>4, OwnedStep DEF Owned
    <3> QED
      BY <3>1 DEF Owned
  <2>5. CASE Empty(b)
    BY <2>1, <2>5, EmptyStep
  <2> QED
    BY <2>3, <2>4, <2>5
<1>2. CASE Rollout(b) /\ (row[b] = "Pending" /\ Owned(b) # {} => VerifyRemoved(b))
  BY <1>2 DEF Rollout, VerifyRemoved, Empty, Owned, db, swarm
<1> QED
  BY <1>1, <1>2, DepOf

LEMMA DeletionStep ==
    ASSUME GpuAssumption, TInv, SInv, Windows = {}, [Next]_vars
    PROVE  DeletionIsOrdered' /\ DeletedHasNoService'
<1> SUFFICES ASSUME NEW b \in Apps
             PROVE  /\ group'[b] # "Ready" => dep'[b].pc = "Idle"
                    /\ del'[b].pc \in {"Removed", "Checked"} => group'[b] = "Deleting" /\ service'[b] = None
                    /\ del'[b].verify => del'[b].pc \in {"Checked", "Done"}
                    /\ del'[b].pc = "Checked" /\ del'[b].verify => Empty(b)'
                    /\ group'[b] = "Gone" => service'[b] = None
  BY DEF DeletionIsOrdered, DeletedHasNoService
<1>1. /\ group[b] # "Ready" => dep[b].pc = "Idle"
      /\ del[b].pc \in {"Removed", "Checked"} => group[b] = "Deleting" /\ service[b] = None
      /\ del[b].verify => del[b].pc \in {"Checked", "Done"}
      /\ del[b].pc = "Checked" /\ del[b].verify => Empty(b)
      /\ group[b] = "Gone" => service[b] = None
  BY DEF SInv, DeletionIsOrdered, DeletedHasNoService
<1>2. del[b] \in Dels /\ del \in [Apps -> Dels] /\ group \in [Apps -> {"Ready", "Deleting", "Gone"}]
  BY DEF TInv, Types
\* How the group's status changes
<1>3. \/ group'[b] = group[b]
      \/ group'[b] = "Ready" /\ dep[b].pc # "Idle"
      \/ RequestDelete(b) /\ group'[b] = "Deleting"
      \/ DeleteGroup(b) /\ group'[b] = "Gone" /\ group[b] = "Deleting"
  <2>1. ASSUME NEW a \in Apps, Complete(a)
        PROVE  group'[b] = group[b] \/ (group'[b] = "Ready" /\ dep[b].pc # "Idle")
    <3>1. /\ dep[a].pc = "Converged"
          /\ group' = group \/ group' = [group EXCEPT ![a] = IF dep[a].kind = "rollback" THEN "Ready" ELSE @]
      BY <2>1 DEF Complete
    <3> QED
      BY <1>2, <3>1
  <2>2. ASSUME NEW a \in Apps, RequestDelete(a)
        PROVE  group'[b] = group[b] \/ (RequestDelete(b) /\ group'[b] = "Deleting")
    BY <1>2, <2>2 DEF RequestDelete, MarkGroupDeleting
  <2>3. ASSUME NEW a \in Apps, DeleteGroup(a)
        PROVE  \/ group'[b] = group[b]
               \/ DeleteGroup(b) /\ group'[b] = "Gone" /\ group[b] = "Deleting"
    <3>1. group' = group \/ (group[a] = "Deleting" /\ group' = [group EXCEPT ![a] = "Gone"])
      BY <2>3 DEF DeleteGroup
    <3> QED
      BY <1>2, <2>3, <3>1
  <2> QED
    BY <2>1, <2>2, <2>3, Frames
<1>4. group'[b] # "Ready" => dep'[b].pc = "Idle"
  <2>1. ASSUME group[b] # "Ready" PROVE dep'[b].pc = "Idle"
    <3>1. ~Deploy(b) /\ ~Rollback(b) /\ ~VerifyArtifact(b) /\ ~Apply(b) /\ ~Rollout(b)
      BY <1>1, <2>1 DEF Deploy, Rollback, VerifyArtifact, Apply, Rollout
    <3> QED
      BY <1>1, <2>1, <3>1, DepOf
  <2>2. ASSUME RequestDelete(b) PROVE dep'[b].pc = "Idle"
    BY <2>2 DEF RequestDelete, MarkGroupDeleting, NoActiveDeployment
  <2> QED
    BY <1>3, <2>1, <2>2
\* How the Operation changes
<1>5. \/ del'[b] = del[b] /\ ~DeleteGroup(b)
      \/ del'[b].pc \in {"None", "Queued", "Failed", "Done"} /\ (del'[b].verify => del'[b].pc = "Done")
      \/ RemoveRuntime(b) /\ group[b] = "Deleting" /\ service'[b] = None /\ ~del'[b].verify
      \/ CheckRemoved(b) /\ del'[b].pc = "Checked" /\ (del'[b].verify => VerifyRemoved(b))
  <2>1. ASSUME NEW a \in Apps, a # b,
               RequestDelete(a) \/ RetryOperation(a) \/ RemoveRuntime(a) \/ CheckRemoved(a) \/ DeleteGroup(a)
        PROVE  del'[b] = del[b]
    BY <1>2, <2>1 DEF RequestDelete, MarkGroupDeleting, RetryOperation, RemoveRuntime,
       CheckRemoved,
                      DeleteGroup, Retry
  <2>2. ASSUME Retry(b) PROVE del'[b].pc \in {"Queued", "Failed"} /\ del'[b].verify = FALSE
    BY <1>2, <2>2 DEF Retry
  <2>3. ASSUME NEW p, del' = [del EXCEPT ![b].pc = p]
        PROVE  del'[b].pc = p /\ del'[b].verify = del[b].verify
    BY <1>2, <2>3 DEF Dels
  <2>4. ASSUME RequestDelete(b)
        PROVE  del'[b] = del[b] \/ (del'[b].pc = "Queued" /\ ~del'[b].verify)
    <3>1. del' = [del EXCEPT ![b] = IF @.pc = "None" THEN [@ EXCEPT !.pc = "Queued"] ELSE @]
      BY <2>4 DEF RequestDelete, MarkGroupDeleting
    <3>2. CASE del[b].pc = "None"
      BY <1>1, <1>2, <3>1, <3>2 DEF Dels
    <3>3. CASE del[b].pc # "None"
      BY <1>2, <3>1, <3>3
    <3> QED
      BY <3>2, <3>3
  <2>5. ASSUME RetryOperation(b) PROVE del'[b].pc = "Queued" /\ del'[b].verify = FALSE
    BY <1>2, <2>5 DEF RetryOperation
  <2>6. ASSUME RemoveRuntime(b)
        PROVE  \/ del'[b].pc \in {"Queued", "Failed", "Done"} /\ ~del'[b].verify
               \/ group[b] = "Deleting" /\ service'[b] = None /\ ~del'[b].verify
    <3>1. ~del[b].verify
      BY <1>1, <2>6 DEF RemoveRuntime
    <3>2. CASE group[b] # "Deleting"
      <4>1. del' = [del EXCEPT ![b].pc = IF group[b] = "Gone" THEN "Done" ELSE "Failed"]
        BY <2>6, <3>2 DEF RemoveRuntime
      <4> QED
        BY <1>2, <3>1, <4>1 DEF Dels
    <3>3. CASE group[b] = "Deleting"
      <4>1. service'[b] = None /\ (Retry(b) \/ del' = [del EXCEPT ![b].pc = "Removed"])
        BY <2>6, <3>3 DEF RemoveRuntime, StackRemoved, TInv, Types
      <4> QED
        BY <2>2, <2>3, <3>1, <3>3, <4>1
    <3> QED
      BY <3>2, <3>3
  <2>7. ASSUME CheckRemoved(b)
        PROVE  \/ del'[b].pc \in {"Queued", "Failed"} /\ ~del'[b].verify
               \/ del'[b].pc = "Checked" /\ (del'[b].verify => VerifyRemoved(b))
    <3>1. ~del[b].verify
      BY <1>1, <2>7 DEF CheckRemoved
    <3>2. \/ del' = [del EXCEPT ![b].pc = "Checked"]
          \/ VerifyRemoved(b) /\ del' = [del EXCEPT ![b] = [@ EXCEPT !.pc = "Checked", !.verify = TRUE]]
          \/ Retry(b)
      BY <2>7 DEF CheckRemoved
    <3>3. ASSUME del' = [del EXCEPT ![b] = [@ EXCEPT !.pc = "Checked", !.verify = TRUE]]
          PROVE  del'[b].pc = "Checked"
      BY <1>2, <3>3 DEF Dels
    <3> QED
      BY <2>2, <2>3, <3>1, <3>2, <3>3
  <2>8. ASSUME DeleteGroup(b)
        PROVE  del'[b].pc \in {"Queued", "Failed", "Done"} /\ (del'[b].verify => del'[b].pc = "Done")
    <3>1. Retry(b) \/ del' = [del EXCEPT ![b].pc = "Done"]
      BY <2>8 DEF DeleteGroup
    <3> QED
      BY <2>2, <2>3, <3>1
  <2> QED
    BY <2>1, <2>4, <2>5, <2>6, <2>7, <2>8, Frames
<1>6. del'[b].pc \in {"Removed", "Checked"} => group'[b] = "Deleting" /\ service'[b] = None
  <2>1. ASSUME del'[b] = del[b], ~DeleteGroup(b), del[b].pc \in {"Removed", "Checked"}
        PROVE  group'[b] = "Deleting" /\ service'[b] = None
    BY <1>1, <1>3, <2>1, EmptyStep
  <2>2. ASSUME RemoveRuntime(b), group[b] = "Deleting" PROVE group'[b] = "Deleting"
    BY <2>2 DEF RemoveRuntime, db
  <2>3. ASSUME CheckRemoved(b) PROVE group'[b] = "Deleting" /\ service'[b] = None
    BY <1>1, <2>3 DEF CheckRemoved, db, swarm
  <2> QED
    BY <1>5, <2>1, <2>2, <2>3
<1>7. del'[b].verify => del'[b].pc \in {"Checked", "Done"}
  BY <1>1, <1>5
<1>8. del'[b].pc = "Checked" /\ del'[b].verify => Empty(b)'
  <2>1. ASSUME del'[b] = del[b], del[b].pc = "Checked", del[b].verify PROVE Empty(b)'
    BY <1>1, <2>1, EmptyStep
  <2>2. ASSUME CheckRemoved(b), VerifyRemoved(b) PROVE Empty(b)'
    BY <2>2 DEF CheckRemoved, VerifyRemoved, Empty, swarm
  <2> QED
    BY <1>5, <2>1, <2>2
<1>9. group'[b] = "Gone" => service'[b] = None
  <2>1. ASSUME group[b] = "Gone" PROVE service'[b] = None
    BY <1>1, <2>1, EmptyStep
  <2>2. ASSUME DeleteGroup(b) PROVE service'[b] = None
    BY <1>1, <2>2 DEF DeleteGroup, swarm
  <2> QED
    BY <1>3, <2>1, <2>2
<1> QED
  BY <1>4, <1>6, <1>7, <1>8, <1>9

LEMMA CensusStep ==
    ASSUME GpuAssumption, TInv, SInv, Windows = {}, [Next]_vars
    PROVE  CensusHolds'
<1>1. ASSUME rec.pc = "Release", rec' = rec PROVE swarm' = swarm
  BY <1>1 DEF Next, Observe, Environment, TakeCensus, Release, Diagnose, TaskEnds, Reserve,
     MarkPending, SetRuntimeState, Scale, Discard, Deploy, Rollback, Requested, VerifyArtifact,
     Apply, Rollout, Complete, DeploymentGone, TaskStarts, RequestDelete, MarkGroupDeleting,
     RetryOperation, RemoveRuntime, CheckRemoved, DeleteGroup, Outside, NoRec, vars
<1>2. CASE rec' = rec
  BY <1>1, <1>2 DEF SInv, CensusHolds, swarm
<1>3. CASE TakeCensus
  BY <1>3 DEF TakeCensus, Census, NoRec, SInv, CensusHolds, swarm, TInv, Types, Recs
<1>4. CASE Release
  BY <1>4 DEF Release, NoRec, CensusHolds
<1>5. ASSUME NEW g \in Gpus, Diagnose(g) PROVE CensusHolds'
  BY <1>5 DEF Diagnose, CensusHolds
<1> QED
  BY <1>2, <1>3, <1>4, <1>5, Frames

-----------------------------------------------------------------------------
(* Theorems: exclusive use *)

\* What has been verified stays true until it is used, while no window is open.
THEOREM UseInductive ==
    ASSUME GpuAssumption, Windows = {}
    PROVE  Spec => []SInv
<1>1. Init => SInv
  BY InitSInv
<1>2. TInv /\ SInv /\ [Next]_vars => SInv'
  BY UsedStep, VerifiedStep, ConvergedStep, DeletionStep, CensusStep DEF SInv
<1> QED
  BY <1>1, <1>2, TypesInductive, PTL DEF Spec

\* A device that a task uses is reserved by the task's app, and a deleted group has no
\* service left, through rollouts, rollbacks, recoveries and deletions: proved of the
\* behaviours in which nobody acts in a window without a lock.
THEOREM GpusAreSafe ==
    ASSUME GpuAssumption, Windows = {}
    PROVE  Spec => []GpuSafety
<1>1. TInv /\ SInv => GpuSafety
  BY TypesAreRight DEF SInv, GpuSafety
<1> QED
  BY <1>1, TypesInductive, UseInductive, PTL

-----------------------------------------------------------------------------
(* The system of all components: what is proved in the modules of the      *)
(* proofs, with the constants and the variables that the system gives to   *)
(* its components.                                                         *)

RuntimeP == INSTANCE RuntimeProofs WITH
    Apps <- {b1}, Replicas <- {1, 2}, Workers <- 1, MaxAttempts <- 1, MaxOps <- 2,
    MaxVersion <- 2, MaxEdits <- 1,
    Types <- {"GroupStart", "GroupStop", "AppStart", "AppStop"},
    running <- runtimeRunning, app <- runtimeApp, current <- runtimeCurrent,
    swarm <- runtimeSwarm

RestartsP == INSTANCE RuntimeProofs WITH
    Apps <- {a1, a2}, Replicas <- {1}, Workers <- 1, MaxAttempts <- 2, MaxOps <- 2,
    MaxVersion <- 1, MaxEdits <- 1, Types <- {"AppRestart", "GroupRestart", "AppStop"},
    running <- runtimeRunning, app <- runtimeApp, current <- runtimeCurrent,
    swarm <- runtimeSwarm

MountsP == INSTANCE VolumesProofs WITH
    Volumes <- {"v1"}, Groups <- {"g1"}, Workers <- {"w1", "w2"}, MaxSize <- 2,
    Quota <- 3, Capacity <- 3, Kinds <- {"create", "resize", "delete"}, Cases <- {},
    MaxJobs <- 3, MaxDeploys <- 2, MaxFailures <- 1, dep <- mountsDep,
    deploys <- mountsDeploys

StorageP == INSTANCE VolumesProofs WITH
    Volumes <- {"v1", "v2"}, Groups <- {"g1"}, Workers <- {"w1", "w2"}, MaxSize <- 2,
    Quota <- 3, Capacity <- 3, Kinds <- {"create", "resize", "delete"}, Cases <- {},
    MaxJobs <- 4, MaxDeploys <- 0, MaxFailures <- 1, vol <- storageVol,
    disk <- storageDisk, jobs <- storageJobs, work <- storageWork,
    attach <- storageAttach, dep <- storageDep, mounted <- storageMounted,
    made <- storageMade, deploys <- storageDeploys, failures <- storageFailures

\* The definitions that a component and the module of its proofs have in common are the same.
LEMMA RuntimeIsSame ==
    /\ Runtime!Init => RuntimeP!Init
    /\ Runtime!Next => RuntimeP!Next
    /\ RuntimeP!TypeOK => Runtime!TypeOK
    /\ RuntimeP!StopIsFinal => Runtime!StopIsFinal
    /\ RuntimeP!SettledIsDeployed => Runtime!SettledIsDeployed
<1>1. Runtime!Init => RuntimeP!Init
  BY DEF Runtime!Init, RuntimeP!Init, Runtime!EffectiveReplicas, RuntimeP!EffectiveReplicas
<1>2. Runtime!Next => RuntimeP!Next
  BY DEF Runtime!Next, RuntimeP!Next, Runtime!Check, RuntimeP!Check, Runtime!RestartGroup,
     RuntimeP!RestartGroup, Runtime!Runnable, RuntimeP!Runnable, Runtime!Runs, RuntimeP!Runs,
     Runtime!ActiveDeployment, RuntimeP!ActiveDeployment, Runtime!Queue, RuntimeP!Queue,
     Runtime!OpenOps, RuntimeP!OpenOps, Runtime!Open, RuntimeP!Open, Runtime!Block, RuntimeP!Block,
     Runtime!Deploy, RuntimeP!Deploy, Runtime!Snapshot, RuntimeP!Snapshot, Runtime!Succeed,
     RuntimeP!Succeed, Runtime!EffectiveReplicas, RuntimeP!EffectiveReplicas, Runtime!RollBack,
     RuntimeP!RollBack, Runtime!Discard, RuntimeP!Discard, Runtime!Deployed, RuntimeP!Deployed,
     Runtime!Restore, RuntimeP!Restore, Runtime!RestoreReplicas, RuntimeP!RestoreReplicas,
     Runtime!DeployedReplicas, RuntimeP!DeployedReplicas, Runtime!SetGroup, RuntimeP!SetGroup,
     Runtime!SetApp, RuntimeP!SetApp, Runtime!RestartApp, RuntimeP!RestartApp, Runtime!RestartOpen,
     RuntimeP!RestartOpen, Runtime!Edit, RuntimeP!Edit, Runtime!Load, RuntimeP!Load,
     Runtime!Cardinality, RuntimeP!Cardinality, Runtime!RestartRefused, RuntimeP!RestartRefused,
     Runtime!Targets, RuntimeP!Targets, Runtime!Groups, RuntimeP!Groups, Runtime!Target,
     RuntimeP!Target, Runtime!Finish, RuntimeP!Finish, Runtime!Retryable, RuntimeP!Retryable,
     Runtime!Crash, RuntimeP!Crash, Runtime!Command, RuntimeP!Command
<1>3. /\ RuntimeP!TypeOK => Runtime!TypeOK
      /\ RuntimeP!StopIsFinal => Runtime!StopIsFinal
      /\ RuntimeP!SettledIsDeployed => Runtime!SettledIsDeployed
  BY DEF Runtime!TypeOK, RuntimeP!TypeOK, Runtime!Rows, RuntimeP!Rows, Runtime!Open, RuntimeP!Open,
     Runtime!StopIsFinal, RuntimeP!StopIsFinal, Runtime!AllSucceeded, RuntimeP!AllSucceeded,
     Runtime!ActiveDeployment, RuntimeP!ActiveDeployment, Runtime!SettledIsDeployed,
     RuntimeP!SettledIsDeployed, Runtime!Deployed, RuntimeP!Deployed
<1> QED
  BY <1>1, <1>2, <1>3

LEMMA RestartsIsSame ==
    /\ Restarts!Init => RestartsP!Init
    /\ Restarts!Next => RestartsP!Next
    /\ RestartsP!RestartForcedOnce => Restarts!RestartForcedOnce
<1>1. Restarts!Init => RestartsP!Init
  BY DEF Restarts!Init, RestartsP!Init, Restarts!EffectiveReplicas, RestartsP!EffectiveReplicas
<1>2. Restarts!Next => RestartsP!Next
  BY DEF Restarts!Next, RestartsP!Next, Restarts!Check, RestartsP!Check, Restarts!RestartGroup,
     RestartsP!RestartGroup, Restarts!Runnable, RestartsP!Runnable, Restarts!Runs, RestartsP!Runs,
     Restarts!ActiveDeployment, RestartsP!ActiveDeployment, Restarts!Queue, RestartsP!Queue,
     Restarts!OpenOps, RestartsP!OpenOps, Restarts!Open, RestartsP!Open, Restarts!Block,
     RestartsP!Block, Restarts!Deploy, RestartsP!Deploy, Restarts!Snapshot, RestartsP!Snapshot,
     Restarts!Succeed, RestartsP!Succeed, Restarts!EffectiveReplicas, RestartsP!EffectiveReplicas,
     Restarts!RollBack, RestartsP!RollBack, Restarts!Discard, RestartsP!Discard, Restarts!Deployed,
     RestartsP!Deployed, Restarts!Restore, RestartsP!Restore, Restarts!RestoreReplicas,
     RestartsP!RestoreReplicas, Restarts!DeployedReplicas, RestartsP!DeployedReplicas,
     Restarts!SetGroup, RestartsP!SetGroup, Restarts!SetApp, RestartsP!SetApp, Restarts!RestartApp,
     RestartsP!RestartApp, Restarts!RestartOpen, RestartsP!RestartOpen, Restarts!Edit,
     RestartsP!Edit, Restarts!Load, RestartsP!Load, Restarts!Cardinality, RestartsP!Cardinality,
     Restarts!RestartRefused, RestartsP!RestartRefused, Restarts!Targets, RestartsP!Targets,
     Restarts!Groups, RestartsP!Groups, Restarts!Target, RestartsP!Target, Restarts!Finish,
     RestartsP!Finish, Restarts!Retryable, RestartsP!Retryable, Restarts!Crash, RestartsP!Crash,
     Restarts!Command, RestartsP!Command
<1>3. /\ RestartsP!RestartForcedOnce => Restarts!RestartForcedOnce
  BY DEF Restarts!RestartForcedOnce, RestartsP!RestartForcedOnce, Restarts!OpenOps, RestartsP!OpenOps,
     Restarts!Open, RestartsP!Open
<1> QED
  BY <1>1, <1>2, <1>3

LEMMA MountsIsSame ==
    /\ Mounts!Init => MountsP!Init
    /\ Mounts!Next => MountsP!Next
    /\ MountsP!TypeOK => Mounts!TypeOK
    /\ MountsP!MountedIsKept => Mounts!MountedIsKept
    /\ MountsP!AttachedIsKept => Mounts!AttachedIsKept
<1>1. Mounts!Init => MountsP!Init
  BY DEF Mounts!Init, MountsP!Init, Mounts!Absent, MountsP!Absent, Mounts!Idle, MountsP!Idle,
     Mounts!Undeployed, MountsP!Undeployed
<1>2. Mounts!Next => MountsP!Next
  BY DEF Mounts!Next, MountsP!Next, Mounts!Request, MountsP!Request, Mounts!NewVolume,
     MountsP!NewVolume, Mounts!Absent, MountsP!Absent, Mounts!groups, MountsP!groups, Mounts!Take,
     MountsP!Take, Mounts!At, MountsP!At, Mounts!Idle, MountsP!Idle, Mounts!Worker, MountsP!Worker,
     Mounts!Create, MountsP!Create, Mounts!Allowed, MountsP!Allowed, Mounts!Total, MountsP!Total,
     Mounts!FoldSet, MountsP!FoldSet, Mounts!MapThenFoldSet, MountsP!MapThenFoldSet,
     Mounts!Reserved, MountsP!Reserved, Mounts!Goto, MountsP!Goto, Mounts!Resumes, MountsP!Resumes,
     Mounts!Done, MountsP!Done, Mounts!Provision, MountsP!Provision, Mounts!Finish, MountsP!Finish,
     Mounts!Failed, MountsP!Failed, Mounts!CleanUp, MountsP!CleanUp, Mounts!Resize, MountsP!Resize,
     Mounts!Resizable, MountsP!Resizable, Mounts!Grow, MountsP!Grow, Mounts!Grown, MountsP!Grown,
     Mounts!Delete, MountsP!Delete, Mounts!CouldStillMount, MountsP!CouldStillMount,
     Mounts!InFlight, MountsP!InFlight, Mounts!Remove, MountsP!Remove, Mounts!DeleteRow,
     MountsP!DeleteRow, Mounts!Crash, MountsP!Crash, Mounts!Fault, MountsP!Fault,
     Mounts!CreateFails, MountsP!CreateFails, Mounts!CleanUpFails, MountsP!CleanUpFails,
     Mounts!ResizeFails, MountsP!ResizeFails, Mounts!Released, MountsP!Released, Mounts!RemoveFails,
     MountsP!RemoveFails, Mounts!Attach, MountsP!Attach, Mounts!Attachable, MountsP!Attachable,
     Mounts!Detach, MountsP!Detach, Mounts!Resolve, MountsP!Resolve, Mounts!Undeployed,
     MountsP!Undeployed, Mounts!Import, MountsP!Import, Mounts!ReadDraft, MountsP!ReadDraft,
     Mounts!RequestDeploy, MountsP!RequestDeploy, Mounts!Validate, MountsP!Validate,
     Mounts!VolumesReady, MountsP!VolumesReady, Mounts!Apply, MountsP!Apply, Mounts!ApplyFails,
     MountsP!ApplyFails, Mounts!Converged, MountsP!Converged, Mounts!RolloutFails,
     MountsP!RolloutFails, Mounts!RolledBack, MountsP!RolledBack, Mounts!Observe, MountsP!Observe
<1>3. /\ MountsP!TypeOK => Mounts!TypeOK
      /\ MountsP!MountedIsKept => Mounts!MountedIsKept
      /\ MountsP!AttachedIsKept => Mounts!AttachedIsKept
  BY DEF Mounts!TypeOK, MountsP!TypeOK, Mounts!MountedIsKept, MountsP!MountedIsKept,
     Mounts!AttachedIsKept, MountsP!AttachedIsKept
<1> QED
  BY <1>1, <1>2, <1>3

LEMMA StorageIsSame ==
    /\ Storage!Init => StorageP!Init
    /\ Storage!Next => StorageP!Next
    /\ StorageP!ReadyHasDirectory => Storage!ReadyHasDirectory
    /\ StorageP!LimitsAreReserved => Storage!LimitsAreReserved
<1>1. Storage!Init => StorageP!Init
  BY DEF Storage!Init, StorageP!Init, Storage!Absent, StorageP!Absent, Storage!Idle, StorageP!Idle,
     Storage!Undeployed, StorageP!Undeployed
<1>2. Storage!Next => StorageP!Next
  BY DEF Storage!Next, StorageP!Next, Storage!Request, StorageP!Request, Storage!NewVolume,
     StorageP!NewVolume, Storage!Absent, StorageP!Absent, Storage!groups, StorageP!groups,
     Storage!Take, StorageP!Take, Storage!At, StorageP!At, Storage!Idle, StorageP!Idle,
     Storage!Worker, StorageP!Worker, Storage!Create, StorageP!Create, Storage!Allowed,
     StorageP!Allowed, Storage!Total, StorageP!Total, Storage!FoldSet, StorageP!FoldSet,
     Storage!MapThenFoldSet, StorageP!MapThenFoldSet, Storage!Reserved, StorageP!Reserved,
     Storage!Goto, StorageP!Goto, Storage!Resumes, StorageP!Resumes, Storage!Done, StorageP!Done,
     Storage!Provision, StorageP!Provision, Storage!Finish, StorageP!Finish, Storage!Failed,
     StorageP!Failed, Storage!CleanUp, StorageP!CleanUp, Storage!Resize, StorageP!Resize,
     Storage!Resizable, StorageP!Resizable, Storage!Grow, StorageP!Grow, Storage!Grown,
     StorageP!Grown, Storage!Delete, StorageP!Delete, Storage!CouldStillMount,
     StorageP!CouldStillMount, Storage!InFlight, StorageP!InFlight, Storage!Remove, StorageP!Remove,
     Storage!DeleteRow, StorageP!DeleteRow, Storage!Crash, StorageP!Crash, Storage!Fault,
     StorageP!Fault, Storage!CreateFails, StorageP!CreateFails, Storage!CleanUpFails,
     StorageP!CleanUpFails, Storage!ResizeFails, StorageP!ResizeFails, Storage!Released,
     StorageP!Released, Storage!RemoveFails, StorageP!RemoveFails, Storage!Attach, StorageP!Attach,
     Storage!Attachable, StorageP!Attachable, Storage!Detach, StorageP!Detach, Storage!Resolve,
     StorageP!Resolve, Storage!Undeployed, StorageP!Undeployed, Storage!Import, StorageP!Import,
     Storage!ReadDraft, StorageP!ReadDraft, Storage!RequestDeploy, StorageP!RequestDeploy,
     Storage!Validate, StorageP!Validate, Storage!VolumesReady, StorageP!VolumesReady,
     Storage!Apply, StorageP!Apply, Storage!ApplyFails, StorageP!ApplyFails, Storage!Converged,
     StorageP!Converged, Storage!RolloutFails, StorageP!RolloutFails, Storage!RolledBack,
     StorageP!RolledBack, Storage!Observe, StorageP!Observe
<1>3. /\ StorageP!ReadyHasDirectory => Storage!ReadyHasDirectory
      /\ StorageP!LimitsAreReserved => Storage!LimitsAreReserved
  BY DEF Storage!ReadyHasDirectory, StorageP!ReadyHasDirectory, Storage!LimitsAreReserved,
     StorageP!LimitsAreReserved, Storage!Total, StorageP!Total, Storage!FoldSet, StorageP!FoldSet,
     Storage!MapThenFoldSet, StorageP!MapThenFoldSet
<1> QED
  BY <1>1, <1>2, <1>3

\* What the components do is what their own specifications let them do.
LEMMA RuntimeMoves ==
    /\ SystemInit /\ focus = "Runtime" => RuntimeP!Init
    /\ [SystemNext]_systemVars /\ focus = "Runtime" => [RuntimeP!Next]_(RuntimeP!vars)
    /\ SystemInit /\ focus = "Restarts" => RestartsP!Init
    /\ [SystemNext]_systemVars /\ focus = "Restarts" => [RestartsP!Next]_(RestartsP!vars)
    /\ [SystemNext]_systemVars => ((focus = "Runtime")' <=> (focus = "Runtime"))
    /\ [SystemNext]_systemVars => ((focus = "Restarts")' <=> (focus = "Restarts"))
<1>1. SystemInit /\ focus = "Runtime" => RuntimeP!Init
  BY RuntimeIsSame DEF SystemInit
<1>2. SystemInit /\ focus = "Restarts" => RestartsP!Init
  BY RestartsIsSame DEF SystemInit
<1>3. SystemNext /\ focus = "Runtime" => RuntimeP!Next
  BY RuntimeIsSame DEF SystemNext
<1>4. SystemNext /\ focus = "Restarts" => RestartsP!Next
  BY RestartsIsSame DEF SystemNext
<1>5. UNCHANGED systemVars => UNCHANGED <<RuntimeP!vars, RestartsP!vars, focus>>
  BY DEF systemVars, runtimeVars, RuntimeP!vars, RestartsP!vars
<1>6. SystemNext => focus' = focus
  BY DEF SystemNext
<1> QED
  BY <1>1, <1>2, <1>3, <1>4, <1>5, <1>6

LEMMA VolumesMove ==
    /\ SystemInit => MountsP!Init /\ StorageP!Init
    /\ [SystemNext]_systemVars => [MountsP!Next]_(MountsP!vars)
    /\ [SystemNext]_systemVars => [StorageP!Next]_(StorageP!vars)
<1>1. SystemInit => MountsP!Init /\ StorageP!Init
  BY MountsIsSame, StorageIsSame DEF SystemInit
<1>2. SystemNext => MountsP!Next \/ UNCHANGED mountsVars
  BY MountsIsSame DEF SystemNext
<1>3. SystemNext => StorageP!Next \/ UNCHANGED storageVars
  BY StorageIsSame DEF SystemNext
<1>4. /\ UNCHANGED systemVars => UNCHANGED <<mountsVars, storageVars>>
      /\ UNCHANGED mountsVars => UNCHANGED MountsP!vars
      /\ UNCHANGED storageVars => UNCHANGED StorageP!vars
  BY DEF systemVars, mountsVars, storageVars, MountsP!vars, StorageP!vars
<1> QED
  BY <1>1, <1>2, <1>3, <1>4

\* Once no request is open a stopped app has no replicas and a running one those of its last
\* deployment, and a restart forces its services once at most, in the system of all components
\* (RuntimeOperationExecutor).
THEOREM ApplicationsRun == SystemSpec => []RuntimeSafety
<1>1. RuntimeP!RuntimeAssumption /\ RestartsP!RuntimeAssumption
  BY RuntimeConstants DEF Runtime!RuntimeAssumption, RuntimeP!RuntimeAssumption, RestartsP!RuntimeAssumption
<1>2. RuntimeP!Spec => [](RuntimeP!TypeOK /\ RuntimeP!StopIsFinal /\ RuntimeP!SettledIsDeployed)
  BY <1>1, RuntimeP!TypeCorrect, RuntimeP!StopIsFinalCorrect, RuntimeP!SettledIsDeployedCorrect, PTL
<1>3. RestartsP!Spec => []RestartsP!RestartForcedOnce
  BY <1>1, RestartsP!RestartForcedOnceCorrect
<1>4. SystemSpec => [](focus = "Runtime" => RuntimeP!TypeOK /\ RuntimeP!StopIsFinal /\ RuntimeP!SettledIsDeployed)
  BY <1>2, RuntimeMoves, PTL DEF SystemSpec, RuntimeP!Spec
<1>5. SystemSpec => [](focus = "Restarts" => RestartsP!RestartForcedOnce)
  BY <1>3, RuntimeMoves, PTL DEF SystemSpec, RestartsP!Spec
<1>6. /\ focus = "Runtime" => RuntimeP!TypeOK /\ RuntimeP!StopIsFinal /\ RuntimeP!SettledIsDeployed
      /\ focus = "Restarts" => RestartsP!RestartForcedOnce
      => RuntimeSafety
  BY RuntimeIsSame, RestartsIsSame DEF RuntimeSafety
<1> QED
  BY <1>4, <1>5, <1>6, PTL

\* The directory of a mounted or attached volume stays, and what is reserved covers what the
\* directories may hold, in the system of all components (createVolume, resizeVolume, deleteVolume).
THEOREM VolumesAreKept == SystemSpec => []VolumeSafety
<1>1. /\ MountsP!VolumesAssumption /\ MountsP!Exclusive /\ MountsP!Complete
      /\ StorageP!VolumesAssumption /\ StorageP!Exclusive /\ StorageP!Complete
  BY MountsConstants, StorageConstants DEF Mounts!VolumesAssumption, Storage!VolumesAssumption,
     MountsP!VolumesAssumption, StorageP!VolumesAssumption, MountsP!Exclusive, MountsP!Complete,
     StorageP!Exclusive, StorageP!Complete, Mounts!IsFiniteSet, MountsP!IsFiniteSet, Storage!IsFiniteSet,
     StorageP!IsFiniteSet
<1>2. MountsP!Spec => [](MountsP!TypeOK /\ MountsP!MountedIsKept /\ MountsP!AttachedIsKept)
  <2>1. MountsP!Spec => []MountsP!TypeOK
    BY <1>1, MountsP!TypesAreRight
  <2>2. MountsP!Spec => [](MountsP!MountedIsKept /\ MountsP!ReadyHasDirectory)
    BY <1>1, MountsP!DirectoriesAreKept
  <2>3. MountsP!Spec => []MountsP!AttachedIsKept
    BY <1>1, MountsP!DraftsAreKept
  <2> QED
    BY <2>1, <2>2, <2>3, PTL
<1>3. StorageP!Spec => [](StorageP!ReadyHasDirectory /\ StorageP!LimitsAreReserved)
  <2>1. StorageP!Spec => [](StorageP!MountedIsKept /\ StorageP!ReadyHasDirectory)
    BY <1>1, StorageP!DirectoriesAreKept
  <2>2. StorageP!Spec => []StorageP!LimitsAreReserved
    BY <1>1, StorageP!ReservationsHold
  <2> QED
    BY <2>1, <2>2, PTL
<1>4. /\ MountsP!TypeOK /\ MountsP!MountedIsKept /\ MountsP!AttachedIsKept
      /\ StorageP!ReadyHasDirectory /\ StorageP!LimitsAreReserved
      => VolumeSafety
  BY MountsIsSame, StorageIsSame DEF VolumeSafety
<1> QED
  BY <1>2, <1>3, <1>4, VolumesMove, PTL DEF SystemSpec, MountsP!Spec, StorageP!Spec

-----------------------------------------------------------------------------
(* OAuth applications and service identities: a client has one request at  *)
(* a time, so what a request has read is true until it ends.               *)

ClientRows == [level : 0..2, on : BOOLEAN, secret : 0..MaxCalls]
ClientRemotes == [made : BOOLEAN, on : BOOLEAN, secret : 0..MaxCalls]
ClientStages ==
    {"Idle", "Make", "Insert", "Undo", "Set", "Write", "Disable", "DeleteRow", "Rotate", "Save"}
ClientCalls ==
    [at : ClientStages, c : Ids \cup {"None"}, level : 0..2, on : BOOLEAN, read : ClientRows,
     n : 0..MaxCalls]

ClientTypes ==
    /\ clientsRow \in [Ids -> ClientRows]
    /\ remote \in [Ids -> ClientRemotes]
    /\ level \in [Actors -> 0..2]
    /\ clientsCall \in [Actors -> ClientCalls]
    /\ stray \subseteq Ids
    /\ told \subseteq Ids
    /\ clientsMade \in 0..MaxCalls

ClientIsHeld(a) ==
    /\ clientsCall[a].at = "Idle" => clientsCall[a] = Clients!Idle
    /\ clientsCall[a].at # "Idle" =>
         /\ clientsCall[a].c \in Ids \ {"None"}
         /\ \A b \in Actors : clientsCall[b].c = clientsCall[a].c => b = a

Reading == {"Set", "Write", "Disable", "DeleteRow", "Rotate", "Save"}

\* What a request has read is still so, and what it has done at the provider too; one that
\* activates an identity keeps the permissions it had.
ReadIsTrue(k, r, m, l) ==
    /\ k.at = "Make" => ~m.made
    /\ k.at \in {"Make", "Insert", "Undo"} => r = Clients!NoRow
    /\ k.at \in Reading => r = k.read /\ k.read # Clients!NoRow
    /\ k.at \in {"Set", "Write"} => KindOf(k.c) = "identity"
    /\ k.at = "Set" => k.on # k.read.on
    /\ k.at \in {"Set", "Write"} /\ k.on /\ ~k.read.on => l >= k.level /\ l >= k.read.level /\ l > 0
    /\ k.at = "Write" /\ ~k.on /\ k.read.on => ~m.on
    /\ k.at = "DeleteRow" => ~(m.made /\ m.on)
    /\ k.at = "Save" => m.secret = k.n
ClientIsRead(a) ==
    ReadIsTrue(clientsCall[a], clientsRow[clientsCall[a].c], remote[clientsCall[a].c], level[a])

Activating(k) == k.at \in {"Insert", "Undo"} \/ (k.at = "Write" /\ k.on /\ ~k.read.on)

\* Who may log in has an active row, unless a request is about to write it.
LoginIsRow(c) ==
    \/ clientsRow[c].on \/ c \in stray \/ ~(remote[c].made /\ remote[c].on)
    \/ \E a \in Actors : clientsCall[a].c = c /\ Activating(clientsCall[a])

\* The secret is the stored one, unless its holder was told or a request is about to store it.
SecretIsRow(c) ==
    clientsRow[c] # Clients!NoRow /\ c \notin told =>
        \/ remote[c].secret = 0 \/ remote[c].secret = clientsRow[c].secret
        \/ \E a \in Actors : clientsCall[a].c = c /\ clientsCall[a].at = "Save"

ClientInv ==
    /\ ClientTypes
    /\ \A a \in Actors : ClientIsHeld(a) /\ ClientIsRead(a)
    /\ \A c \in Ids : LoginIsRow(c) /\ SecretIsRow(c)

\* What a step of a may touch that is about c.
ClientStep(a, c) ==
    /\ \A b \in Actors \ {a} :
         /\ clientsCall'[b] = clientsCall[b]
         /\ level'[b] = level[b]
         /\ clientsCall[b].at # "Idle" => clientsCall[b].c # c
    /\ clientsCall[a].c \in {c, "None"}
    /\ clientsCall'[a].c \in {c, "None"}
    /\ \A d \in Ids \ {c} :
         /\ clientsRow'[d] = clientsRow[d]
         /\ remote'[d] = remote[d]
         /\ d \in stray' <=> d \in stray
         /\ d \in told' <=> d \in told

\* What a step has to keep of its own request and client.
ClientIsKept(a, c) ==
    /\ ClientTypes'
    /\ ClientIsHeld(a)'
    /\ ClientIsRead(a)'
    /\ c \in Ids => LoginIsRow(c)' /\ SecretIsRow(c)'

LEMMA ClientFrame ==
    ASSUME ClientInv, NEW a \in Actors, NEW c, ClientStep(a, c), ClientIsKept(a, c)
    PROVE  ClientInv'
<1>1. ASSUME NEW b \in Actors, b # a PROVE ClientIsHeld(b)' /\ ClientIsRead(b)'
  <2>1. /\ clientsCall'[b] = clientsCall[b] /\ level'[b] = level[b]
        /\ clientsCall[b].at # "Idle" => clientsCall[b].c # c /\ clientsCall[b].c \in Ids \ {"None"}
    BY <1>1 DEF ClientStep, ClientInv, ClientIsHeld
  <2>2. ClientIsHeld(b)'
    <3>1. CASE clientsCall[b].at = "Idle"
      BY <2>1, <3>1 DEF ClientInv, ClientIsHeld
    <3>2. CASE clientsCall[b].at # "Idle"
      <4>1. ASSUME NEW d \in Actors, clientsCall'[d].c = clientsCall'[b].c PROVE d = b
        BY <1>1, <2>1, <3>2, <4>1 DEF ClientStep, ClientInv, ClientIsHeld
      <4> QED
        BY <2>1, <3>2, <4>1 DEF ClientIsHeld
    <3> QED
      BY <3>1, <3>2
  <2>3. ClientIsRead(b)'
    <3>1. CASE clientsCall[b].at = "Idle"
      BY <2>1, <3>1 DEF ClientIsRead, ReadIsTrue, Reading
    <3>2. CASE clientsCall[b].at # "Idle"
      <4>1. /\ clientsRow'[clientsCall[b].c] = clientsRow[clientsCall[b].c]
            /\ remote'[clientsCall[b].c] = remote[clientsCall[b].c]
        BY <2>1, <3>2 DEF ClientStep
      <4>2. ClientIsRead(b)
        BY DEF ClientInv
      <4> QED
        BY <2>1, <4>1, <4>2 DEF ClientIsRead
    <3> QED
      BY <3>1, <3>2
  <2> QED
    BY <2>2, <2>3
<1>2. ASSUME NEW d \in Ids, d # c PROVE LoginIsRow(d)' /\ SecretIsRow(d)'
  <2>1. /\ clientsRow'[d] = clientsRow[d] /\ remote'[d] = remote[d]
        /\ d \in stray' <=> d \in stray
        /\ d \in told' <=> d \in told
    BY <1>2 DEF ClientStep
  <2>2. ASSUME NEW b \in Actors, clientsCall[b].c = d, clientsCall[b].at # "Idle"
        PROVE  clientsCall'[b] = clientsCall[b]
    BY <1>2, <2>2 DEF ClientStep, ClientInv, ClientIsHeld
  <2>3. LoginIsRow(d) /\ SecretIsRow(d)
    BY DEF ClientInv
  <2>4. LoginIsRow(d)'
    BY <2>1, <2>2, <2>3 DEF LoginIsRow, Activating
  <2>5. SecretIsRow(d)'
    BY <2>1, <2>2, <2>3 DEF SecretIsRow
  <2> QED
    BY <2>4, <2>5
<1> QED
  BY <1>1, <1>2 DEF ClientInv, ClientIsKept

\* A step of a request: its stage becomes k, the row of its client r, what the provider has m.
ClientMoves(a, c, k, r, m) ==
    /\ clientsCall' = [clientsCall EXCEPT ![a] = k]
    /\ clientsRow' = [clientsRow EXCEPT ![c] = r]
    /\ remote' = [remote EXCEPT ![c] = m]
    /\ stray' \in {stray, stray \cup {c}}
    /\ told' \in {told, told \cup {c}, told \ {c}}
    /\ level' = level /\ clientsMade' \in 0..MaxCalls

LEMMA ClientMoveKeeps ==
    ASSUME ClientInv, NEW a \in Actors, NEW c \in Ids, c # "None",
           clientsCall[a].c \in {c, "None"}, \A b \in Actors \ {a} : clientsCall[b].c # c,
           NEW k \in ClientCalls, NEW r \in ClientRows, NEW m \in ClientRemotes,
           ClientMoves(a, c, k, r, m),
           k = Clients!Idle \/ (k.c = c /\ k.at # "Idle"),
           k # Clients!Idle => ReadIsTrue(k, r, m, level[a]),
           r.on \/ c \in stray' \/ ~(m.made /\ m.on) \/ (k.c = c /\ Activating(k)),
           \/ r = Clients!NoRow \/ c \in told'
           \/ m.secret = 0 \/ m.secret = r.secret \/ (k.c = c /\ k.at = "Save")
    PROVE  ClientInv'
<1>1. ClientTypes
  BY DEF ClientInv
<1>2. /\ clientsCall'[a] = k /\ clientsRow'[c] = r /\ remote'[c] = m /\ level'[a] = level[a]
      /\ \A b \in Actors \ {a} : clientsCall'[b] = clientsCall[b] /\ level'[b] = level[b]
      /\ \A d \in Ids \ {c} : clientsRow'[d] = clientsRow[d] /\ remote'[d] = remote[d]
      /\ \A d \in Ids \ {c} : (d \in stray' <=> d \in stray) /\ (d \in told' <=> d \in told)
  BY <1>1 DEF ClientMoves, ClientTypes
<1>3. ClientTypes'
  BY <1>1 DEF ClientMoves, ClientTypes
<1>4. Clients!Idle.at = "Idle" /\ Clients!Idle.c = "None"
  BY DEF Clients!Idle
<1>5. ClientStep(a, c)
  BY <1>1, <1>2, <1>4 DEF ClientStep
<1>6. ClientIsHeld(a)'
  BY <1>1, <1>2, <1>4 DEF ClientIsHeld
<1>7. ClientIsRead(a)'
  BY <1>2, <1>4 DEF ClientIsRead, ReadIsTrue, Reading
<1>8. LoginIsRow(c)'
  BY <1>2 DEF LoginIsRow
<1>9. SecretIsRow(c)'
  BY <1>2 DEF SecretIsRow
<1> QED
  BY <1>3, <1>5, <1>6, <1>7, <1>8, <1>9, ClientFrame DEF ClientIsKept

\* What a request knows of its client.
LEMMA ClientKnown ==
    ASSUME ClientInv, NEW a \in Actors, clientsCall[a].at # "Idle"
    PROVE  /\ clientsCall[a] \in ClientCalls
           /\ clientsCall[a].c \in Ids \ {"None"}
           /\ \A b \in Actors \ {a} : clientsCall[b].c # clientsCall[a].c
           /\ clientsRow[clientsCall[a].c] \in ClientRows
           /\ remote[clientsCall[a].c] \in ClientRemotes
           /\ ClientIsRead(a)
           /\ LoginIsRow(clientsCall[a].c) /\ SecretIsRow(clientsCall[a].c)
           /\ level[a] \in 0..2
           /\ clientsMade \in 0..MaxCalls
  BY DEF ClientInv, ClientTypes, ClientIsHeld

\* Only its own request would excuse a client.
LEMMA ClientOwn ==
    ASSUME ClientInv, NEW a \in Actors, NEW c \in Ids, c # "None",
           clientsCall[a].c \in {c, "None"}, \A b \in Actors \ {a} : clientsCall[b].c # c
    PROVE  /\ \/ clientsRow[c].on \/ c \in stray \/ ~(remote[c].made /\ remote[c].on)
              \/ clientsCall[a].c = c /\ Activating(clientsCall[a])
           /\ clientsRow[c] # Clients!NoRow /\ c \notin told =>
                \/ remote[c].secret = 0 \/ remote[c].secret = clientsRow[c].secret
                \/ clientsCall[a].c = c /\ clientsCall[a].at = "Save"
  BY DEF ClientInv, LoginIsRow, SecretIsRow

LEMMA ClientConstants ==
    /\ MaxCalls \in Nat
    /\ Clients!Idle \in ClientCalls /\ Clients!Idle.c = "None" /\ Clients!Idle.at = "Idle"
    /\ Clients!NoRow \in ClientRows /\ Clients!NoRow.on = FALSE
    /\ Clients!NoRemote \in ClientRemotes /\ Clients!NoRemote.made = FALSE /\ Clients!NoRemote.secret = 0
<1>1. MaxCalls \in Nat
  BY ClientsConstants DEF Clients!ClientsAssumption
<1> QED
  BY <1>1 DEF Clients!Idle, Clients!NoRow, Clients!NoRemote, ClientCalls, ClientRows, ClientRemotes,
     ClientStages

LEMMA ClientMake == ASSUME ClientInv, NEW a \in Actors, Clients!Make(a) PROVE ClientInv'
<1> DEFINE k == clientsCall[a]
           c == k.c
           r == clientsRow[c]
           m == remote[c]
<1>1. /\ k.at = "Make" /\ k \in ClientCalls /\ c \in Ids /\ c # "None"
      /\ \A b \in Actors \ {a} : clientsCall[b].c # c
      /\ r \in ClientRows /\ m \in ClientRemotes /\ ReadIsTrue(k, r, m, level[a])
      /\ level[a] \in 0..2
  BY ClientKnown DEF Clients!Make, ClientIsRead
<1>2. /\ r.on \/ c \in stray \/ ~(m.made /\ m.on) \/ Activating(k)
      /\ r # Clients!NoRow /\ c \notin told => m.secret = 0 \/ m.secret = r.secret \/ k.at = "Save"
  BY <1>1, ClientOwn
<1>3. \/ /\ stray' = stray /\ told' = told
         /\ ClientMoves(a, c, [k EXCEPT !.at = "Insert"], r, [made |-> TRUE, on |-> TRUE, secret |-> k.n])
      \/ stray' = stray /\ told' = told /\ ClientMoves(a, c, Clients!Idle, r, m)
      \/ /\ stray' = stray /\ told' = told
         /\ ClientMoves(a, c, [k EXCEPT !.at = "Undo"], r, [made |-> TRUE, on |-> TRUE, secret |-> 0])
  BY <1>1, ClientConstants DEF Clients!Make, Clients!Goes, Clients!Leave, Clients!Fault,
     ClientMoves, ClientInv, ClientTypes
<1>4. CASE /\ stray' = stray /\ told' = told
           /\ ClientMoves(a, c, [k EXCEPT !.at = "Insert"], r, [made |-> TRUE, on |-> TRUE, secret |-> k.n])
  <2> DEFINE kk == [k EXCEPT !.at = "Insert"]
             rr == r
             mm == [made |-> TRUE, on |-> TRUE, secret |-> k.n]
  <2>1. /\ kk \in ClientCalls /\ rr \in ClientRows /\ mm \in ClientRemotes
        /\ kk = Clients!Idle \/ (kk.c = c /\ kk.at # "Idle")
    BY <1>1, ClientConstants DEF ClientCalls, ClientRows, ClientRemotes, ClientStages, Clients!Removed
  <2>2. kk # Clients!Idle => ReadIsTrue(kk, rr, mm, level[a])
    BY <1>1, <1>4, ClientConstants DEF ReadIsTrue, Reading, ClientCalls, ClientRows, ClientRemotes,
       Clients!Removed
  <2>3. /\ rr.on \/ c \in stray' \/ ~(mm.made /\ mm.on) \/ (kk.c = c /\ Activating(kk))
        /\ \/ rr = Clients!NoRow \/ c \in told'
           \/ mm.secret = 0 \/ mm.secret = rr.secret \/ (kk.c = c /\ kk.at = "Save")
    BY <1>1, <1>2, <1>4, ClientConstants DEF Activating, ReadIsTrue, Reading, ClientCalls,
       ClientRows, ClientRemotes, Clients!Removed, Clients!NoRemote
  <2> QED
    BY <1>1, <1>4, <2>1, <2>2, <2>3, ClientMoveKeeps
<1>5. CASE stray' = stray /\ told' = told /\ ClientMoves(a, c, Clients!Idle, r, m)
  <2> DEFINE kk == Clients!Idle
             rr == r
             mm == m
  <2>1. /\ kk \in ClientCalls /\ rr \in ClientRows /\ mm \in ClientRemotes
        /\ kk = Clients!Idle \/ (kk.c = c /\ kk.at # "Idle")
    BY <1>1, ClientConstants DEF ClientCalls, ClientRows, ClientRemotes, ClientStages, Clients!Removed
  <2>2. kk # Clients!Idle => ReadIsTrue(kk, rr, mm, level[a])
    BY <1>1, <1>5, ClientConstants DEF ReadIsTrue, Reading, ClientCalls, ClientRows, ClientRemotes,
       Clients!Removed
  <2>3. /\ rr.on \/ c \in stray' \/ ~(mm.made /\ mm.on) \/ (kk.c = c /\ Activating(kk))
        /\ \/ rr = Clients!NoRow \/ c \in told'
           \/ mm.secret = 0 \/ mm.secret = rr.secret \/ (kk.c = c /\ kk.at = "Save")
    BY <1>1, <1>2, <1>5, ClientConstants DEF Activating, ReadIsTrue, Reading, ClientCalls,
       ClientRows, ClientRemotes, Clients!Removed, Clients!NoRemote
  <2> QED
    BY <1>1, <1>5, <2>1, <2>2, <2>3, ClientMoveKeeps
<1>6. CASE /\ stray' = stray /\ told' = told
           /\ ClientMoves(a, c, [k EXCEPT !.at = "Undo"], r, [made |-> TRUE, on |-> TRUE, secret |-> 0])
  <2> DEFINE kk == [k EXCEPT !.at = "Undo"]
             rr == r
             mm == [made |-> TRUE, on |-> TRUE, secret |-> 0]
  <2>1. /\ kk \in ClientCalls /\ rr \in ClientRows /\ mm \in ClientRemotes
        /\ kk = Clients!Idle \/ (kk.c = c /\ kk.at # "Idle")
    BY <1>1, ClientConstants DEF ClientCalls, ClientRows, ClientRemotes, ClientStages, Clients!Removed
  <2>2. kk # Clients!Idle => ReadIsTrue(kk, rr, mm, level[a])
    BY <1>1, <1>6, ClientConstants DEF ReadIsTrue, Reading, ClientCalls, ClientRows, ClientRemotes,
       Clients!Removed
  <2>3. /\ rr.on \/ c \in stray' \/ ~(mm.made /\ mm.on) \/ (kk.c = c /\ Activating(kk))
        /\ \/ rr = Clients!NoRow \/ c \in told'
           \/ mm.secret = 0 \/ mm.secret = rr.secret \/ (kk.c = c /\ kk.at = "Save")
    BY <1>1, <1>2, <1>6, ClientConstants DEF Activating, ReadIsTrue, Reading, ClientCalls,
       ClientRows, ClientRemotes, Clients!Removed, Clients!NoRemote
  <2> QED
    BY <1>1, <1>6, <2>1, <2>2, <2>3, ClientMoveKeeps
<1> QED
  BY <1>3, <1>4, <1>5, <1>6

LEMMA ClientInsert == ASSUME ClientInv, NEW a \in Actors, Clients!Insert(a) PROVE ClientInv'
<1> DEFINE k == clientsCall[a]
           c == k.c
           r == clientsRow[c]
           m == remote[c]
<1>1. /\ k.at = "Insert" /\ k \in ClientCalls /\ c \in Ids /\ c # "None"
      /\ \A b \in Actors \ {a} : clientsCall[b].c # c
      /\ r \in ClientRows /\ m \in ClientRemotes /\ ReadIsTrue(k, r, m, level[a])
      /\ level[a] \in 0..2
  BY ClientKnown DEF Clients!Insert, ClientIsRead
<1>2. /\ r.on \/ c \in stray \/ ~(m.made /\ m.on) \/ Activating(k)
      /\ r # Clients!NoRow /\ c \notin told => m.secret = 0 \/ m.secret = r.secret \/ k.at = "Save"
  BY <1>1, ClientOwn
<1>3. \/ /\ stray' = stray /\ told' = told
         /\ ClientMoves(a, c, Clients!Idle, [level |-> k.level, on |-> TRUE, secret |-> m.secret], m)
      \/ stray' = stray /\ told' = told /\ ClientMoves(a, c, [k EXCEPT !.at = "Undo"], r, m)
  BY <1>1, ClientConstants DEF Clients!Insert, Clients!Goes, Clients!Leave, Clients!Fault,
     ClientMoves, ClientInv, ClientTypes
<1>4. CASE /\ stray' = stray /\ told' = told
           /\ ClientMoves(a, c, Clients!Idle, [level |-> k.level, on |-> TRUE, secret |-> m.secret], m)
  <2> DEFINE kk == Clients!Idle
             rr == [level |-> k.level, on |-> TRUE, secret |-> m.secret]
             mm == m
  <2>1. /\ kk \in ClientCalls /\ rr \in ClientRows /\ mm \in ClientRemotes
        /\ kk = Clients!Idle \/ (kk.c = c /\ kk.at # "Idle")
    BY <1>1, ClientConstants DEF ClientCalls, ClientRows, ClientRemotes, ClientStages, Clients!Removed
  <2>2. kk # Clients!Idle => ReadIsTrue(kk, rr, mm, level[a])
    BY <1>1, <1>4, ClientConstants DEF ReadIsTrue, Reading, ClientCalls, ClientRows, ClientRemotes,
       Clients!Removed
  <2>3. /\ rr.on \/ c \in stray' \/ ~(mm.made /\ mm.on) \/ (kk.c = c /\ Activating(kk))
        /\ \/ rr = Clients!NoRow \/ c \in told'
           \/ mm.secret = 0 \/ mm.secret = rr.secret \/ (kk.c = c /\ kk.at = "Save")
    BY <1>1, <1>2, <1>4, ClientConstants DEF Activating, ReadIsTrue, Reading, ClientCalls,
       ClientRows, ClientRemotes, Clients!Removed, Clients!NoRemote
  <2> QED
    BY <1>1, <1>4, <2>1, <2>2, <2>3, ClientMoveKeeps
<1>5. CASE stray' = stray /\ told' = told /\ ClientMoves(a, c, [k EXCEPT !.at = "Undo"], r, m)
  <2> DEFINE kk == [k EXCEPT !.at = "Undo"]
             rr == r
             mm == m
  <2>1. /\ kk \in ClientCalls /\ rr \in ClientRows /\ mm \in ClientRemotes
        /\ kk = Clients!Idle \/ (kk.c = c /\ kk.at # "Idle")
    BY <1>1, ClientConstants DEF ClientCalls, ClientRows, ClientRemotes, ClientStages, Clients!Removed
  <2>2. kk # Clients!Idle => ReadIsTrue(kk, rr, mm, level[a])
    BY <1>1, <1>5, ClientConstants DEF ReadIsTrue, Reading, ClientCalls, ClientRows, ClientRemotes,
       Clients!Removed
  <2>3. /\ rr.on \/ c \in stray' \/ ~(mm.made /\ mm.on) \/ (kk.c = c /\ Activating(kk))
        /\ \/ rr = Clients!NoRow \/ c \in told'
           \/ mm.secret = 0 \/ mm.secret = rr.secret \/ (kk.c = c /\ kk.at = "Save")
    BY <1>1, <1>2, <1>5, ClientConstants DEF Activating, ReadIsTrue, Reading, ClientCalls,
       ClientRows, ClientRemotes, Clients!Removed, Clients!NoRemote
  <2> QED
    BY <1>1, <1>5, <2>1, <2>2, <2>3, ClientMoveKeeps
<1> QED
  BY <1>3, <1>4, <1>5

LEMMA ClientUndo == ASSUME ClientInv, NEW a \in Actors, Clients!Undo(a) PROVE ClientInv'
<1> DEFINE k == clientsCall[a]
           c == k.c
           r == clientsRow[c]
           m == remote[c]
<1>1. /\ k.at = "Undo" /\ k \in ClientCalls /\ c \in Ids /\ c # "None"
      /\ \A b \in Actors \ {a} : clientsCall[b].c # c
      /\ r \in ClientRows /\ m \in ClientRemotes /\ ReadIsTrue(k, r, m, level[a])
      /\ level[a] \in 0..2
  BY ClientKnown DEF Clients!Undo, ClientIsRead
<1>2. /\ r.on \/ c \in stray \/ ~(m.made /\ m.on) \/ Activating(k)
      /\ r # Clients!NoRow /\ c \notin told => m.secret = 0 \/ m.secret = r.secret \/ k.at = "Save"
  BY <1>1, ClientOwn
<1>3. \/ stray' = stray /\ told' = told /\ ClientMoves(a, c, Clients!Idle, r, Clients!Removed(c))
      \/ told' = told /\ stray' = stray \cup {c} /\ ClientMoves(a, c, Clients!Idle, r, m)
  BY <1>1, ClientConstants DEF Clients!Undo, Clients!Leave, Clients!Fault, ClientMoves, ClientInv,
     ClientTypes
<1>4. CASE stray' = stray /\ told' = told /\ ClientMoves(a, c, Clients!Idle, r, Clients!Removed(c))
  <2> DEFINE kk == Clients!Idle
             rr == r
             mm == Clients!Removed(c)
  <2>1. /\ kk \in ClientCalls /\ rr \in ClientRows /\ mm \in ClientRemotes
        /\ kk = Clients!Idle \/ (kk.c = c /\ kk.at # "Idle")
    BY <1>1, ClientConstants DEF ClientCalls, ClientRows, ClientRemotes, ClientStages, Clients!Removed
  <2>2. kk # Clients!Idle => ReadIsTrue(kk, rr, mm, level[a])
    BY <1>1, <1>4, ClientConstants DEF ReadIsTrue, Reading, ClientCalls, ClientRows, ClientRemotes,
       Clients!Removed
  <2>3. /\ rr.on \/ c \in stray' \/ ~(mm.made /\ mm.on) \/ (kk.c = c /\ Activating(kk))
        /\ \/ rr = Clients!NoRow \/ c \in told'
           \/ mm.secret = 0 \/ mm.secret = rr.secret \/ (kk.c = c /\ kk.at = "Save")
    BY <1>1, <1>2, <1>4, ClientConstants DEF Activating, ReadIsTrue, Reading, ClientCalls,
       ClientRows, ClientRemotes, Clients!Removed, Clients!NoRemote
  <2> QED
    BY <1>1, <1>4, <2>1, <2>2, <2>3, ClientMoveKeeps
<1>5. CASE told' = told /\ stray' = stray \cup {c} /\ ClientMoves(a, c, Clients!Idle, r, m)
  <2> DEFINE kk == Clients!Idle
             rr == r
             mm == m
  <2>1. /\ kk \in ClientCalls /\ rr \in ClientRows /\ mm \in ClientRemotes
        /\ kk = Clients!Idle \/ (kk.c = c /\ kk.at # "Idle")
    BY <1>1, ClientConstants DEF ClientCalls, ClientRows, ClientRemotes, ClientStages, Clients!Removed
  <2>2. kk # Clients!Idle => ReadIsTrue(kk, rr, mm, level[a])
    BY <1>1, <1>5, ClientConstants DEF ReadIsTrue, Reading, ClientCalls, ClientRows, ClientRemotes,
       Clients!Removed
  <2>3. /\ rr.on \/ c \in stray' \/ ~(mm.made /\ mm.on) \/ (kk.c = c /\ Activating(kk))
        /\ \/ rr = Clients!NoRow \/ c \in told'
           \/ mm.secret = 0 \/ mm.secret = rr.secret \/ (kk.c = c /\ kk.at = "Save")
    BY <1>1, <1>2, <1>5, ClientConstants DEF Activating, ReadIsTrue, Reading, ClientCalls,
       ClientRows, ClientRemotes, Clients!Removed, Clients!NoRemote
  <2> QED
    BY <1>1, <1>5, <2>1, <2>2, <2>3, ClientMoveKeeps
<1> QED
  BY <1>3, <1>4, <1>5

LEMMA ClientSet == ASSUME ClientInv, NEW a \in Actors, Clients!Set(a) PROVE ClientInv'
<1> DEFINE k == clientsCall[a]
           c == k.c
           r == clientsRow[c]
           m == remote[c]
<1>1. /\ k.at = "Set" /\ k \in ClientCalls /\ c \in Ids /\ c # "None"
      /\ \A b \in Actors \ {a} : clientsCall[b].c # c
      /\ r \in ClientRows /\ m \in ClientRemotes /\ ReadIsTrue(k, r, m, level[a])
      /\ level[a] \in 0..2
  BY ClientKnown DEF Clients!Set, ClientIsRead
<1>2. /\ r.on \/ c \in stray \/ ~(m.made /\ m.on) \/ Activating(k)
      /\ r # Clients!NoRow /\ c \notin told => m.secret = 0 \/ m.secret = r.secret \/ k.at = "Save"
  BY <1>1, ClientOwn
<1>3. \/ /\ stray' = stray /\ told' = told
         /\ ClientMoves(a, c, [k EXCEPT !.at = "Write"], r, [m EXCEPT !.on = k.on])
      \/ stray' = stray /\ told' = told /\ ClientMoves(a, c, Clients!Idle, r, m)
  BY <1>1, ClientConstants DEF Clients!Set, Clients!Goes, Clients!Leave, Clients!Fault, ClientMoves,
     ClientInv, ClientTypes
<1>4. CASE /\ stray' = stray /\ told' = told
           /\ ClientMoves(a, c, [k EXCEPT !.at = "Write"], r, [m EXCEPT !.on = k.on])
  <2> DEFINE kk == [k EXCEPT !.at = "Write"]
             rr == r
             mm == [m EXCEPT !.on = k.on]
  <2>1. /\ kk \in ClientCalls /\ rr \in ClientRows /\ mm \in ClientRemotes
        /\ kk = Clients!Idle \/ (kk.c = c /\ kk.at # "Idle")
    BY <1>1, ClientConstants DEF ClientCalls, ClientRows, ClientRemotes, ClientStages, Clients!Removed
  <2>2. kk # Clients!Idle => ReadIsTrue(kk, rr, mm, level[a])
    BY <1>1, <1>4, ClientConstants DEF ReadIsTrue, Reading, ClientCalls, ClientRows, ClientRemotes,
       Clients!Removed
  <2>3. /\ rr.on \/ c \in stray' \/ ~(mm.made /\ mm.on) \/ (kk.c = c /\ Activating(kk))
        /\ \/ rr = Clients!NoRow \/ c \in told'
           \/ mm.secret = 0 \/ mm.secret = rr.secret \/ (kk.c = c /\ kk.at = "Save")
    BY <1>1, <1>2, <1>4, ClientConstants DEF Activating, ReadIsTrue, Reading, ClientCalls,
       ClientRows, ClientRemotes, Clients!Removed, Clients!NoRemote
  <2> QED
    BY <1>1, <1>4, <2>1, <2>2, <2>3, ClientMoveKeeps
<1>5. CASE stray' = stray /\ told' = told /\ ClientMoves(a, c, Clients!Idle, r, m)
  <2> DEFINE kk == Clients!Idle
             rr == r
             mm == m
  <2>1. /\ kk \in ClientCalls /\ rr \in ClientRows /\ mm \in ClientRemotes
        /\ kk = Clients!Idle \/ (kk.c = c /\ kk.at # "Idle")
    BY <1>1, ClientConstants DEF ClientCalls, ClientRows, ClientRemotes, ClientStages, Clients!Removed
  <2>2. kk # Clients!Idle => ReadIsTrue(kk, rr, mm, level[a])
    BY <1>1, <1>5, ClientConstants DEF ReadIsTrue, Reading, ClientCalls, ClientRows, ClientRemotes,
       Clients!Removed
  <2>3. /\ rr.on \/ c \in stray' \/ ~(mm.made /\ mm.on) \/ (kk.c = c /\ Activating(kk))
        /\ \/ rr = Clients!NoRow \/ c \in told'
           \/ mm.secret = 0 \/ mm.secret = rr.secret \/ (kk.c = c /\ kk.at = "Save")
    BY <1>1, <1>2, <1>5, ClientConstants DEF Activating, ReadIsTrue, Reading, ClientCalls,
       ClientRows, ClientRemotes, Clients!Removed, Clients!NoRemote
  <2> QED
    BY <1>1, <1>5, <2>1, <2>2, <2>3, ClientMoveKeeps
<1> QED
  BY <1>3, <1>4, <1>5

LEMMA ClientWrite == ASSUME ClientInv, NEW a \in Actors, Clients!Write(a) PROVE ClientInv'
<1> DEFINE k == clientsCall[a]
           c == k.c
           r == clientsRow[c]
           m == remote[c]
<1>1. /\ k.at = "Write" /\ k \in ClientCalls /\ c \in Ids /\ c # "None"
      /\ \A b \in Actors \ {a} : clientsCall[b].c # c
      /\ r \in ClientRows /\ m \in ClientRemotes /\ ReadIsTrue(k, r, m, level[a])
      /\ level[a] \in 0..2
  BY ClientKnown DEF Clients!Write, ClientIsRead
<1>2. /\ r.on \/ c \in stray \/ ~(m.made /\ m.on) \/ Activating(k)
      /\ r # Clients!NoRow /\ c \notin told => m.secret = 0 \/ m.secret = r.secret \/ k.at = "Save"
  BY <1>1, ClientOwn
<1>3. \/ /\ stray' = stray /\ told' = told
         /\ ClientMoves(a, c, Clients!Idle, [r EXCEPT !.level = k.level, !.on = k.on], m)
      \/ /\ stray' = stray /\ told' = told /\ ~(k.on /\ ~k.read.on)
         /\ ClientMoves(a, c, Clients!Idle, r, m)
  <2>1. r # Clients!NoRow
    BY <1>1 DEF ReadIsTrue, Reading
  <2>2. k.on /\ ~k.read.on => Clients!MayStill(a, k.read.level) /\ Clients!MayStill(a, k.level)
    BY <1>1 DEF ReadIsTrue, Clients!MayStill, Clients!May
  <2>3. \/ clientsRow' = [clientsRow EXCEPT ![c] = [r EXCEPT !.level = k.level, !.on = k.on]]
        \/ clientsRow' = clientsRow /\ ~(k.on /\ ~k.read.on)
    BY <1>1, <2>1, <2>2 DEF Clients!Write, Clients!Activates, ClientInv, ClientTypes
  <2>4. /\ clientsCall' = [clientsCall EXCEPT ![a] = Clients!Idle] /\ remote' = [remote EXCEPT ![c] = m]
        /\ level' = level /\ stray' = stray /\ told' = told /\ clientsMade' \in 0..MaxCalls
    BY <1>1 DEF Clients!Write, Clients!Leave, ClientInv, ClientTypes
  <2>5. clientsRow' = clientsRow => clientsRow' = [clientsRow EXCEPT ![c] = r]
    BY <1>1 DEF ClientInv, ClientTypes
  <2> QED
    BY <2>3, <2>4, <2>5 DEF ClientMoves
<1>4. CASE /\ stray' = stray /\ told' = told
           /\ ClientMoves(a, c, Clients!Idle, [r EXCEPT !.level = k.level, !.on = k.on], m)
  <2> DEFINE kk == Clients!Idle
             rr == [r EXCEPT !.level = k.level, !.on = k.on]
             mm == m
  <2>1. /\ kk \in ClientCalls /\ rr \in ClientRows /\ mm \in ClientRemotes
        /\ kk = Clients!Idle \/ (kk.c = c /\ kk.at # "Idle")
    BY <1>1, ClientConstants DEF ClientCalls, ClientRows, ClientRemotes, ClientStages, Clients!Removed
  <2>2. kk # Clients!Idle => ReadIsTrue(kk, rr, mm, level[a])
    BY <1>1, <1>4, ClientConstants DEF ReadIsTrue, Reading, ClientCalls, ClientRows, ClientRemotes,
       Clients!Removed
  <2>3. /\ rr.on \/ c \in stray' \/ ~(mm.made /\ mm.on) \/ (kk.c = c /\ Activating(kk))
        /\ \/ rr = Clients!NoRow \/ c \in told'
           \/ mm.secret = 0 \/ mm.secret = rr.secret \/ (kk.c = c /\ kk.at = "Save")
    BY <1>1, <1>2, <1>4, ClientConstants DEF Activating, ReadIsTrue, Reading, ClientCalls,
       ClientRows, ClientRemotes, Clients!Removed, Clients!NoRemote
  <2> QED
    BY <1>1, <1>4, <2>1, <2>2, <2>3, ClientMoveKeeps
<1>5. CASE /\ stray' = stray /\ told' = told /\ ~(k.on /\ ~k.read.on)
           /\ ClientMoves(a, c, Clients!Idle, r, m)
  <2> DEFINE kk == Clients!Idle
             rr == r
             mm == m
  <2>1. /\ kk \in ClientCalls /\ rr \in ClientRows /\ mm \in ClientRemotes
        /\ kk = Clients!Idle \/ (kk.c = c /\ kk.at # "Idle")
    BY <1>1, ClientConstants DEF ClientCalls, ClientRows, ClientRemotes, ClientStages, Clients!Removed
  <2>2. kk # Clients!Idle => ReadIsTrue(kk, rr, mm, level[a])
    BY <1>1, <1>5, ClientConstants DEF ReadIsTrue, Reading, ClientCalls, ClientRows, ClientRemotes,
       Clients!Removed
  <2>3. /\ rr.on \/ c \in stray' \/ ~(mm.made /\ mm.on) \/ (kk.c = c /\ Activating(kk))
        /\ \/ rr = Clients!NoRow \/ c \in told'
           \/ mm.secret = 0 \/ mm.secret = rr.secret \/ (kk.c = c /\ kk.at = "Save")
    BY <1>1, <1>2, <1>5, ClientConstants DEF Activating, ReadIsTrue, Reading, ClientCalls,
       ClientRows, ClientRemotes, Clients!Removed, Clients!NoRemote
  <2> QED
    BY <1>1, <1>5, <2>1, <2>2, <2>3, ClientMoveKeeps
<1> QED
  BY <1>3, <1>4, <1>5

LEMMA ClientDisable == ASSUME ClientInv, NEW a \in Actors, Clients!Disable(a) PROVE ClientInv'
<1> DEFINE k == clientsCall[a]
           c == k.c
           r == clientsRow[c]
           m == remote[c]
<1>1. /\ k.at = "Disable" /\ k \in ClientCalls /\ c \in Ids /\ c # "None"
      /\ \A b \in Actors \ {a} : clientsCall[b].c # c
      /\ r \in ClientRows /\ m \in ClientRemotes /\ ReadIsTrue(k, r, m, level[a])
      /\ level[a] \in 0..2
  BY ClientKnown DEF Clients!Disable, ClientIsRead
<1>2. /\ r.on \/ c \in stray \/ ~(m.made /\ m.on) \/ Activating(k)
      /\ r # Clients!NoRow /\ c \notin told => m.secret = 0 \/ m.secret = r.secret \/ k.at = "Save"
  BY <1>1, ClientOwn
<1>3. \/ /\ stray' = stray /\ told' = told
         /\ ClientMoves(a, c, [k EXCEPT !.at = "DeleteRow"], r, Clients!Removed(c))
      \/ stray' = stray /\ told' = told /\ ClientMoves(a, c, Clients!Idle, r, m)
  BY <1>1, ClientConstants DEF Clients!Disable, Clients!Goes, Clients!Leave, Clients!Fault,
     ClientMoves, ClientInv, ClientTypes
<1>4. CASE /\ stray' = stray /\ told' = told
           /\ ClientMoves(a, c, [k EXCEPT !.at = "DeleteRow"], r, Clients!Removed(c))
  <2> DEFINE kk == [k EXCEPT !.at = "DeleteRow"]
             rr == r
             mm == Clients!Removed(c)
  <2>1. /\ kk \in ClientCalls /\ rr \in ClientRows /\ mm \in ClientRemotes
        /\ kk = Clients!Idle \/ (kk.c = c /\ kk.at # "Idle")
    BY <1>1, ClientConstants DEF ClientCalls, ClientRows, ClientRemotes, ClientStages, Clients!Removed
  <2>2. kk # Clients!Idle => ReadIsTrue(kk, rr, mm, level[a])
    BY <1>1, <1>4, ClientConstants DEF ReadIsTrue, Reading, ClientCalls, ClientRows, ClientRemotes,
       Clients!Removed
  <2>3. /\ rr.on \/ c \in stray' \/ ~(mm.made /\ mm.on) \/ (kk.c = c /\ Activating(kk))
        /\ \/ rr = Clients!NoRow \/ c \in told'
           \/ mm.secret = 0 \/ mm.secret = rr.secret \/ (kk.c = c /\ kk.at = "Save")
    BY <1>1, <1>2, <1>4, ClientConstants DEF Activating, ReadIsTrue, Reading, ClientCalls,
       ClientRows, ClientRemotes, Clients!Removed, Clients!NoRemote
  <2> QED
    BY <1>1, <1>4, <2>1, <2>2, <2>3, ClientMoveKeeps
<1>5. CASE stray' = stray /\ told' = told /\ ClientMoves(a, c, Clients!Idle, r, m)
  <2> DEFINE kk == Clients!Idle
             rr == r
             mm == m
  <2>1. /\ kk \in ClientCalls /\ rr \in ClientRows /\ mm \in ClientRemotes
        /\ kk = Clients!Idle \/ (kk.c = c /\ kk.at # "Idle")
    BY <1>1, ClientConstants DEF ClientCalls, ClientRows, ClientRemotes, ClientStages, Clients!Removed
  <2>2. kk # Clients!Idle => ReadIsTrue(kk, rr, mm, level[a])
    BY <1>1, <1>5, ClientConstants DEF ReadIsTrue, Reading, ClientCalls, ClientRows, ClientRemotes,
       Clients!Removed
  <2>3. /\ rr.on \/ c \in stray' \/ ~(mm.made /\ mm.on) \/ (kk.c = c /\ Activating(kk))
        /\ \/ rr = Clients!NoRow \/ c \in told'
           \/ mm.secret = 0 \/ mm.secret = rr.secret \/ (kk.c = c /\ kk.at = "Save")
    BY <1>1, <1>2, <1>5, ClientConstants DEF Activating, ReadIsTrue, Reading, ClientCalls,
       ClientRows, ClientRemotes, Clients!Removed, Clients!NoRemote
  <2> QED
    BY <1>1, <1>5, <2>1, <2>2, <2>3, ClientMoveKeeps
<1> QED
  BY <1>3, <1>4, <1>5

LEMMA ClientDeleteRow == ASSUME ClientInv, NEW a \in Actors, Clients!DeleteRow(a) PROVE ClientInv'
<1> DEFINE k == clientsCall[a]
           c == k.c
           r == clientsRow[c]
           m == remote[c]
<1>1. /\ k.at = "DeleteRow" /\ k \in ClientCalls /\ c \in Ids /\ c # "None"
      /\ \A b \in Actors \ {a} : clientsCall[b].c # c
      /\ r \in ClientRows /\ m \in ClientRemotes /\ ReadIsTrue(k, r, m, level[a])
      /\ level[a] \in 0..2
  BY ClientKnown DEF Clients!DeleteRow, ClientIsRead
<1>2. /\ r.on \/ c \in stray \/ ~(m.made /\ m.on) \/ Activating(k)
      /\ r # Clients!NoRow /\ c \notin told => m.secret = 0 \/ m.secret = r.secret \/ k.at = "Save"
  BY <1>1, ClientOwn
<1>3. \/ stray' = stray /\ ClientMoves(a, c, Clients!Idle, Clients!NoRow, m)
      \/ stray' = stray /\ told' = told /\ ClientMoves(a, c, Clients!Idle, r, m)
  BY <1>1, ClientConstants DEF Clients!DeleteRow, Clients!Leave, Clients!Fault, ClientMoves,
     ClientInv, ClientTypes
<1>4. CASE stray' = stray /\ ClientMoves(a, c, Clients!Idle, Clients!NoRow, m)
  <2> DEFINE kk == Clients!Idle
             rr == Clients!NoRow
             mm == m
  <2>1. /\ kk \in ClientCalls /\ rr \in ClientRows /\ mm \in ClientRemotes
        /\ kk = Clients!Idle \/ (kk.c = c /\ kk.at # "Idle")
    BY <1>1, ClientConstants DEF ClientCalls, ClientRows, ClientRemotes, ClientStages, Clients!Removed
  <2>2. kk # Clients!Idle => ReadIsTrue(kk, rr, mm, level[a])
    BY <1>1, <1>4, ClientConstants DEF ReadIsTrue, Reading, ClientCalls, ClientRows, ClientRemotes,
       Clients!Removed
  <2>3. /\ rr.on \/ c \in stray' \/ ~(mm.made /\ mm.on) \/ (kk.c = c /\ Activating(kk))
        /\ \/ rr = Clients!NoRow \/ c \in told'
           \/ mm.secret = 0 \/ mm.secret = rr.secret \/ (kk.c = c /\ kk.at = "Save")
    BY <1>1, <1>2, <1>4, ClientConstants DEF Activating, ReadIsTrue, Reading, ClientCalls,
       ClientRows, ClientRemotes, Clients!Removed, Clients!NoRemote
  <2> QED
    BY <1>1, <1>4, <2>1, <2>2, <2>3, ClientMoveKeeps
<1>5. CASE stray' = stray /\ told' = told /\ ClientMoves(a, c, Clients!Idle, r, m)
  <2> DEFINE kk == Clients!Idle
             rr == r
             mm == m
  <2>1. /\ kk \in ClientCalls /\ rr \in ClientRows /\ mm \in ClientRemotes
        /\ kk = Clients!Idle \/ (kk.c = c /\ kk.at # "Idle")
    BY <1>1, ClientConstants DEF ClientCalls, ClientRows, ClientRemotes, ClientStages, Clients!Removed
  <2>2. kk # Clients!Idle => ReadIsTrue(kk, rr, mm, level[a])
    BY <1>1, <1>5, ClientConstants DEF ReadIsTrue, Reading, ClientCalls, ClientRows, ClientRemotes,
       Clients!Removed
  <2>3. /\ rr.on \/ c \in stray' \/ ~(mm.made /\ mm.on) \/ (kk.c = c /\ Activating(kk))
        /\ \/ rr = Clients!NoRow \/ c \in told'
           \/ mm.secret = 0 \/ mm.secret = rr.secret \/ (kk.c = c /\ kk.at = "Save")
    BY <1>1, <1>2, <1>5, ClientConstants DEF Activating, ReadIsTrue, Reading, ClientCalls,
       ClientRows, ClientRemotes, Clients!Removed, Clients!NoRemote
  <2> QED
    BY <1>1, <1>5, <2>1, <2>2, <2>3, ClientMoveKeeps
<1> QED
  BY <1>3, <1>4, <1>5

LEMMA ClientRotate == ASSUME ClientInv, NEW a \in Actors, Clients!Rotate(a) PROVE ClientInv'
<1> DEFINE k == clientsCall[a]
           c == k.c
           r == clientsRow[c]
           m == remote[c]
<1>1. /\ k.at = "Rotate" /\ k \in ClientCalls /\ c \in Ids /\ c # "None"
      /\ \A b \in Actors \ {a} : clientsCall[b].c # c
      /\ r \in ClientRows /\ m \in ClientRemotes /\ ReadIsTrue(k, r, m, level[a])
      /\ level[a] \in 0..2
  BY ClientKnown DEF Clients!Rotate, ClientIsRead
<1>2. /\ r.on \/ c \in stray \/ ~(m.made /\ m.on) \/ Activating(k)
      /\ r # Clients!NoRow /\ c \notin told => m.secret = 0 \/ m.secret = r.secret \/ k.at = "Save"
  BY <1>1, ClientOwn
<1>3. \/ /\ stray' = stray /\ told' = told
         /\ ClientMoves(a, c, [k EXCEPT !.at = "Save"], r, [m EXCEPT !.secret = k.n])
      \/ stray' = stray /\ told' = told /\ ClientMoves(a, c, Clients!Idle, r, m)
  BY <1>1, ClientConstants DEF Clients!Rotate, Clients!Goes, Clients!Leave, Clients!Fault,
     ClientMoves, ClientInv, ClientTypes
<1>4. CASE /\ stray' = stray /\ told' = told
           /\ ClientMoves(a, c, [k EXCEPT !.at = "Save"], r, [m EXCEPT !.secret = k.n])
  <2> DEFINE kk == [k EXCEPT !.at = "Save"]
             rr == r
             mm == [m EXCEPT !.secret = k.n]
  <2>1. /\ kk \in ClientCalls /\ rr \in ClientRows /\ mm \in ClientRemotes
        /\ kk = Clients!Idle \/ (kk.c = c /\ kk.at # "Idle")
    BY <1>1, ClientConstants DEF ClientCalls, ClientRows, ClientRemotes, ClientStages, Clients!Removed
  <2>2. kk # Clients!Idle => ReadIsTrue(kk, rr, mm, level[a])
    BY <1>1, <1>4, ClientConstants DEF ReadIsTrue, Reading, ClientCalls, ClientRows, ClientRemotes,
       Clients!Removed
  <2>3. /\ rr.on \/ c \in stray' \/ ~(mm.made /\ mm.on) \/ (kk.c = c /\ Activating(kk))
        /\ \/ rr = Clients!NoRow \/ c \in told'
           \/ mm.secret = 0 \/ mm.secret = rr.secret \/ (kk.c = c /\ kk.at = "Save")
    BY <1>1, <1>2, <1>4, ClientConstants DEF Activating, ReadIsTrue, Reading, ClientCalls,
       ClientRows, ClientRemotes, Clients!Removed, Clients!NoRemote
  <2> QED
    BY <1>1, <1>4, <2>1, <2>2, <2>3, ClientMoveKeeps
<1>5. CASE stray' = stray /\ told' = told /\ ClientMoves(a, c, Clients!Idle, r, m)
  <2> DEFINE kk == Clients!Idle
             rr == r
             mm == m
  <2>1. /\ kk \in ClientCalls /\ rr \in ClientRows /\ mm \in ClientRemotes
        /\ kk = Clients!Idle \/ (kk.c = c /\ kk.at # "Idle")
    BY <1>1, ClientConstants DEF ClientCalls, ClientRows, ClientRemotes, ClientStages, Clients!Removed
  <2>2. kk # Clients!Idle => ReadIsTrue(kk, rr, mm, level[a])
    BY <1>1, <1>5, ClientConstants DEF ReadIsTrue, Reading, ClientCalls, ClientRows, ClientRemotes,
       Clients!Removed
  <2>3. /\ rr.on \/ c \in stray' \/ ~(mm.made /\ mm.on) \/ (kk.c = c /\ Activating(kk))
        /\ \/ rr = Clients!NoRow \/ c \in told'
           \/ mm.secret = 0 \/ mm.secret = rr.secret \/ (kk.c = c /\ kk.at = "Save")
    BY <1>1, <1>2, <1>5, ClientConstants DEF Activating, ReadIsTrue, Reading, ClientCalls,
       ClientRows, ClientRemotes, Clients!Removed, Clients!NoRemote
  <2> QED
    BY <1>1, <1>5, <2>1, <2>2, <2>3, ClientMoveKeeps
<1> QED
  BY <1>3, <1>4, <1>5

LEMMA ClientSave == ASSUME ClientInv, NEW a \in Actors, Clients!Save(a) PROVE ClientInv'
<1> DEFINE k == clientsCall[a]
           c == k.c
           r == clientsRow[c]
           m == remote[c]
<1>1. /\ k.at = "Save" /\ k \in ClientCalls /\ c \in Ids /\ c # "None"
      /\ \A b \in Actors \ {a} : clientsCall[b].c # c
      /\ r \in ClientRows /\ m \in ClientRemotes /\ ReadIsTrue(k, r, m, level[a])
      /\ level[a] \in 0..2
  BY ClientKnown DEF Clients!Save, ClientIsRead
<1>2. /\ r.on \/ c \in stray \/ ~(m.made /\ m.on) \/ Activating(k)
      /\ r # Clients!NoRow /\ c \notin told => m.secret = 0 \/ m.secret = r.secret \/ k.at = "Save"
  BY <1>1, ClientOwn
<1>3. \/ stray' = stray /\ ClientMoves(a, c, Clients!Idle, [r EXCEPT !.secret = k.n], m)
      \/ stray' = stray /\ c \in told' /\ ClientMoves(a, c, Clients!Idle, r, m)
  BY <1>1, ClientConstants DEF Clients!Save, Clients!Leave, Clients!Fault, Clients!Warned,
     ClientMoves, ClientInv, ClientTypes
<1>4. CASE stray' = stray /\ ClientMoves(a, c, Clients!Idle, [r EXCEPT !.secret = k.n], m)
  <2> DEFINE kk == Clients!Idle
             rr == [r EXCEPT !.secret = k.n]
             mm == m
  <2>1. /\ kk \in ClientCalls /\ rr \in ClientRows /\ mm \in ClientRemotes
        /\ kk = Clients!Idle \/ (kk.c = c /\ kk.at # "Idle")
    BY <1>1, ClientConstants DEF ClientCalls, ClientRows, ClientRemotes, ClientStages, Clients!Removed
  <2>2. kk # Clients!Idle => ReadIsTrue(kk, rr, mm, level[a])
    BY <1>1, <1>4, ClientConstants DEF ReadIsTrue, Reading, ClientCalls, ClientRows, ClientRemotes,
       Clients!Removed
  <2>3. /\ rr.on \/ c \in stray' \/ ~(mm.made /\ mm.on) \/ (kk.c = c /\ Activating(kk))
        /\ \/ rr = Clients!NoRow \/ c \in told'
           \/ mm.secret = 0 \/ mm.secret = rr.secret \/ (kk.c = c /\ kk.at = "Save")
    BY <1>1, <1>2, <1>4, ClientConstants DEF Activating, ReadIsTrue, Reading, ClientCalls,
       ClientRows, ClientRemotes, Clients!Removed, Clients!NoRemote
  <2> QED
    BY <1>1, <1>4, <2>1, <2>2, <2>3, ClientMoveKeeps
<1>5. CASE stray' = stray /\ c \in told' /\ ClientMoves(a, c, Clients!Idle, r, m)
  <2> DEFINE kk == Clients!Idle
             rr == r
             mm == m
  <2>1. /\ kk \in ClientCalls /\ rr \in ClientRows /\ mm \in ClientRemotes
        /\ kk = Clients!Idle \/ (kk.c = c /\ kk.at # "Idle")
    BY <1>1, ClientConstants DEF ClientCalls, ClientRows, ClientRemotes, ClientStages, Clients!Removed
  <2>2. kk # Clients!Idle => ReadIsTrue(kk, rr, mm, level[a])
    BY <1>1, <1>5, ClientConstants DEF ReadIsTrue, Reading, ClientCalls, ClientRows, ClientRemotes,
       Clients!Removed
  <2>3. /\ rr.on \/ c \in stray' \/ ~(mm.made /\ mm.on) \/ (kk.c = c /\ Activating(kk))
        /\ \/ rr = Clients!NoRow \/ c \in told'
           \/ mm.secret = 0 \/ mm.secret = rr.secret \/ (kk.c = c /\ kk.at = "Save")
    BY <1>1, <1>2, <1>5, ClientConstants DEF Activating, ReadIsTrue, Reading, ClientCalls,
       ClientRows, ClientRemotes, Clients!Removed, Clients!NoRemote
  <2> QED
    BY <1>1, <1>5, <2>1, <2>2, <2>3, ClientMoveKeeps
<1> QED
  BY <1>3, <1>4, <1>5

\* A request begins on a client that no other request is about.
LEMMA ClientBegins ==
    ASSUME ClientInv, NEW a \in Actors, NEW c \in Ids,
           NEW at \in {"Make", "Set", "Write", "Disable", "Rotate"}, NEW l \in 0..2, NEW on \in BOOLEAN,
           Clients!Begin(a, c, at, l, on),
           at = "Make" => clientsRow[c] = Clients!NoRow /\ ~remote[c].made,
           at # "Make" => clientsRow[c] # Clients!NoRow,
           at \in {"Set", "Write"} =>
               KindOf(c) = "identity" /\ Clients!May(a, c, clientsRow[c].level) /\ Clients!May(a, c, l),
           at \in {"Set", "Write"} => (at = "Set" <=> on # clientsRow[c].on)
    PROVE  ClientInv'
<1> DEFINE r == clientsRow[c]
           m == remote[c]
           k == [at |-> at, c |-> c, level |-> l, on |-> on, read |-> r, n |-> clientsMade + 1]
<1>1. /\ clientsCall[a] = Clients!Idle /\ c # "None"
      /\ \A b \in Actors : clientsCall[b].c # c
  BY ClientConstants DEF Clients!Begin
<1>2. /\ r \in ClientRows /\ m \in ClientRemotes /\ level[a] \in 0..2
      /\ clientsMade \in 0..MaxCalls /\ clientsMade < MaxCalls
  BY DEF ClientInv, ClientTypes, Clients!Begin
<1>3. k \in ClientCalls /\ k.c = c /\ k.at # "Idle"
  BY <1>1, <1>2, ClientConstants DEF ClientCalls, ClientStages
<1>4. ClientMoves(a, c, k, r, m) /\ stray' = stray /\ told' = told
  BY <1>1, <1>2, ClientConstants DEF Clients!Begin, ClientMoves, ClientInv, ClientTypes
<1>5. ReadIsTrue(k, r, m, level[a])
  BY <1>2 DEF ReadIsTrue, Reading, ClientRows, Clients!May
<1>6. /\ r.on \/ c \in stray \/ ~(m.made /\ m.on)
      /\ r # Clients!NoRow /\ c \notin told => m.secret = 0 \/ m.secret = r.secret
  BY <1>1, ClientOwn, ClientConstants
<1> QED
  BY <1>1, <1>2, <1>3, <1>4, <1>5, <1>6, ClientMoveKeeps, ClientConstants

LEMMA ClientDemote == ASSUME ClientInv, NEW a \in Actors, Clients!Demote(a) PROVE ClientInv'
<1> DEFINE k == clientsCall[a]
<1>1. /\ clientsRow' = clientsRow /\ remote' = remote /\ clientsCall' = clientsCall
      /\ stray' = stray /\ told' = told /\ clientsMade' = clientsMade
      /\ level' = [level EXCEPT ![a] = @ - 1] /\ level[a] \in 0..2 /\ level[a] > 0
      /\ ~(k.at \in {"Set", "Write"} /\ k.on /\ ~k.read.on)
  BY DEF Clients!Demote, Clients!Activates, ClientInv, ClientTypes
<1>2. ClientTypes'
  BY <1>1 DEF ClientInv, ClientTypes
<1>3. ASSUME NEW b \in Actors PROVE ClientIsHeld(b)' /\ ClientIsRead(b)'
  <2>1. ClientIsHeld(b)'
    BY <1>1 DEF ClientInv, ClientIsHeld
  <2>2. ReadIsTrue(clientsCall[b], clientsRow[clientsCall[b].c], remote[clientsCall[b].c], level[b])
    BY DEF ClientInv, ClientIsRead
  <2>3. ReadIsTrue(clientsCall[b], clientsRow[clientsCall[b].c], remote[clientsCall[b].c], level'[b])
    <3>1. CASE b = a
      BY <1>1, <2>2, <3>1 DEF ReadIsTrue
    <3>2. CASE b # a
      <4>1. level'[b] = level[b]
        BY <1>1, <3>2 DEF ClientInv, ClientTypes
      <4> QED
        BY <2>2, <4>1
    <3> QED
      BY <3>1, <3>2
  <2> QED
    BY <1>1, <2>1, <2>3 DEF ClientIsRead
<1>4. ASSUME NEW c \in Ids PROVE LoginIsRow(c)' /\ SecretIsRow(c)'
  BY <1>1 DEF ClientInv, LoginIsRow, SecretIsRow
<1> QED
  BY <1>2, <1>3, <1>4 DEF ClientInv

LEMMA ClientInit == SystemInit => ClientInv
<1>1. SystemInit => Clients!Init
  BY DEF SystemInit
<1>2. Clients!Init => ClientTypes
  BY ClientConstants DEF Clients!Init, ClientTypes, ClientCalls, ClientRows, ClientRemotes,
     Clients!Levels,
     Clients!NoRow, Clients!NoRemote
<1>3. ASSUME Clients!Init, NEW a \in Actors PROVE ClientIsHeld(a) /\ ClientIsRead(a)
  BY <1>3, ClientConstants DEF Clients!Init, ClientIsHeld, ClientIsRead, ReadIsTrue, Reading
<1>4. ASSUME Clients!Init, NEW c \in Ids PROVE LoginIsRow(c) /\ SecretIsRow(c)
  BY <1>4, ClientConstants DEF Clients!Init, LoginIsRow, SecretIsRow
<1> QED
  BY <1>1, <1>2, <1>3, <1>4 DEF ClientInv

LEMMA ClientNext == ClientInv /\ [SystemNext]_systemVars => ClientInv'
<1> SUFFICES ASSUME ClientInv, [SystemNext]_systemVars PROVE ClientInv'
  OBVIOUS
<1>1. CASE Clients!Next
  <2>1. PICK a \in Actors :
            \/ \E c \in Ids :
                \/ \E l \in Clients!Levels :
                    \/ Clients!StartCreate(a, c, l)
                    \/ \E on \in BOOLEAN : Clients!StartUpdate(a, c, l, on)
                \/ Clients!StartDelete(a, c) \/ Clients!StartRotate(a, c)
            \/ Clients!Make(a) \/ Clients!Insert(a) \/ Clients!Undo(a) \/ Clients!Set(a)
            \/ Clients!Write(a) \/ Clients!Disable(a) \/ Clients!DeleteRow(a)
            \/ Clients!Rotate(a) \/ Clients!Save(a) \/ Clients!Demote(a)
    BY <1>1 DEF Clients!Next
  <2>2. ASSUME NEW c \in Ids, NEW l \in Clients!Levels, Clients!StartCreate(a, c, l) PROVE ClientInv'
    <3>1. /\ Clients!Begin(a, c, "Make", l, TRUE)
          /\ clientsRow[c] = Clients!NoRow /\ ~remote[c].made
      BY <2>2, Zenon DEF Clients!StartCreate
    <3>2. l \in 0..2
      BY DEF Clients!Levels
    <3> QED
      BY <3>1, <3>2, ClientBegins
  <2>3. ASSUME NEW c \in Ids, NEW l \in Clients!Levels, NEW on \in BOOLEAN, Clients!StartUpdate(a, c, l, on)
        PROVE  ClientInv'
    <3>1. CASE on # clientsRow[c].on
      BY <2>3, <3>1, ClientBegins DEF Clients!StartUpdate, Clients!Levels
    <3>2. CASE on = clientsRow[c].on
      BY <2>3, <3>2, ClientBegins DEF Clients!StartUpdate, Clients!Levels
    <3> QED
      BY <3>1, <3>2
  <2>4. ASSUME NEW c \in Ids, Clients!StartDelete(a, c) \/ Clients!StartRotate(a, c) PROVE ClientInv'
    <3>1. /\ clientsRow[c] # Clients!NoRow
          /\ Clients!Begin(a, c, "Disable", 0, FALSE) \/ Clients!Begin(a, c, "Rotate", 0, FALSE)
      BY <2>4 DEF Clients!StartDelete, Clients!StartRotate
    <3>2. ASSUME NEW at \in {"Disable", "Rotate"}, NEW on \in BOOLEAN, Clients!Begin(a, c, at, 0, on)
          PROVE  ClientInv'
      <4>1. at \in {"Make", "Set", "Write", "Disable", "Rotate"} /\ at \notin {"Make", "Set", "Write"}
        OBVIOUS
      <4> QED
        BY <3>1, <3>2, <4>1, ClientBegins
    <3> QED
      BY <3>1, <3>2
  <2> QED
    BY <2>1, <2>2, <2>3, <2>4, ClientMake, ClientInsert, ClientUndo, ClientSet, ClientWrite, ClientDisable,
       ClientDeleteRow, ClientRotate, ClientSave, ClientDemote
<1>2. CASE UNCHANGED clientsVars
  <2>1. /\ clientsRow' = clientsRow /\ remote' = remote /\ level' = level /\ clientsCall' = clientsCall
        /\ stray' = stray /\ told' = told /\ clientsMade' = clientsMade
    BY <1>2 DEF clientsVars
  <2> QED
    BY <2>1 DEF ClientInv, ClientTypes, ClientIsHeld, ClientIsRead, ReadIsTrue, LoginIsRow, SecretIsRow
<1>3. SystemNext => Clients!Next \/ UNCHANGED clientsVars
  BY DEF SystemNext
<1>4. UNCHANGED systemVars => UNCHANGED clientsVars
  BY DEF systemVars
<1> QED
  BY <1>1, <1>2, <1>3, <1>4

\* Who changes an identity has its permissions when he does (validateRoles).
LEMMA ClientManaged ==
    ASSUME ClientInv, [SystemNext]_systemVars, NEW c \in Ids, KindOf(c) = "identity",
           clientsRow'[c].level # clientsRow[c].level \/ clientsRow'[c].on # clientsRow[c].on
    PROVE  \E a \in Actors : /\ clientsCall[a].c = c
                             /\ level[a] >= clientsRow[c].level /\ level[a] >= clientsRow'[c].level
<1>1. Clients!Next
  BY DEF SystemNext, systemVars, clientsVars
<1>2. PICK a \in Actors : Clients!Insert(a) \/ Clients!Write(a) \/ Clients!DeleteRow(a) \/ Clients!Save(a)
  BY <1>1 DEF Clients!Next, Clients!StartCreate, Clients!StartUpdate, Clients!StartDelete,
     Clients!StartRotate,
     Clients!Begin, Clients!Make, Clients!Undo, Clients!Set, Clients!Disable, Clients!Rotate, Clients!Demote
<1> DEFINE k == clientsCall[a]
<1>3. /\ k \in ClientCalls /\ k.c \in Ids /\ clientsRow[k.c] \in ClientRows
      /\ ReadIsTrue(k, clientsRow[k.c], remote[k.c], level[a]) /\ level[a] \in 0..2
      /\ clientsRow \in [Ids -> ClientRows]
  <2>1. k.at # "Idle"
    BY <1>2 DEF Clients!Insert, Clients!Write, Clients!DeleteRow, Clients!Save
  <2> QED
    BY <2>1, ClientKnown DEF ClientIsRead, ClientInv, ClientTypes
<1>4. k.c = c
  BY <1>2, <1>3 DEF Clients!Insert, Clients!Write, Clients!DeleteRow, Clients!Save
<1>5. CASE Clients!Insert(a)
  <2>1. k.at = "Insert" /\ clientsRow[c] = Clients!NoRow
    BY <1>3, <1>4, <1>5 DEF Clients!Insert, ReadIsTrue
  <2>2. clientsRow'[c] # clientsRow[c] => Clients!MayStill(a, k.level) /\ clientsRow'[c].level = k.level
    BY <1>3, <1>4, <1>5 DEF Clients!Insert
  <2> QED
    BY <1>3, <1>4, <2>1, <2>2 DEF Clients!MayStill, Clients!May, Clients!NoRow, ClientCalls
<1>6. CASE Clients!Write(a)
  <2>1. k.at = "Write" /\ clientsRow[c] = k.read /\ k.read # Clients!NoRow
    BY <1>3, <1>4, <1>6 DEF Clients!Write, ReadIsTrue, Reading
  <2>2. clientsRow'[c] # clientsRow[c] =>
            Clients!MayStill(a, k.level) /\ Clients!MayStill(a, k.read.level) /\ clientsRow'[c].level = k.level
    BY <1>3, <1>4, <1>6, <2>1 DEF Clients!Write, ClientRows
  <2> QED
    BY <1>3, <1>4, <2>1, <2>2 DEF Clients!MayStill, Clients!May, ClientCalls, ClientRows
<1>7. CASE Clients!DeleteRow(a)
  <2>1. k.at = "DeleteRow" /\ clientsRow[c] = k.read
    BY <1>3, <1>4, <1>7 DEF Clients!DeleteRow, ReadIsTrue, Reading
  <2>2. clientsRow'[c] # clientsRow[c] => Clients!MayStill(a, k.read.level) /\ clientsRow'[c].level = 0
    BY <1>3, <1>4, <1>7, <2>1 DEF Clients!DeleteRow, Clients!NoRow
  <2> QED
    BY <1>3, <1>4, <2>1, <2>2 DEF Clients!MayStill, Clients!May, ClientCalls, ClientRows
<1>8. CASE Clients!Save(a)
  <2>1. clientsRow'[c].level = clientsRow[c].level /\ clientsRow'[c].on = clientsRow[c].on
    BY <1>3, <1>4, <1>8 DEF Clients!Save, ClientRows
  <2> QED
    BY <2>1
<1> QED
  BY <1>2, <1>5, <1>6, <1>7, <1>8

LEMMA ClientsAreRight ==
    ClientInv => Clients!TypeOK /\ Clients!GoneCannotLogIn /\ Clients!AcceptedIsStored
<1> SUFFICES ASSUME ClientInv PROVE Clients!TypeOK /\ Clients!GoneCannotLogIn /\ Clients!AcceptedIsStored
  OBVIOUS
<1>1. Clients!TypeOK
  BY DEF ClientInv, ClientTypes, ClientRows, ClientRemotes, Clients!TypeOK
<1>2. Clients!GoneCannotLogIn
  BY DEF ClientInv, LoginIsRow, Clients!GoneCannotLogIn, Clients!Busy
<1>3. Clients!AcceptedIsStored
  BY DEF ClientInv, SecretIsRow, Clients!AcceptedIsStored, Clients!Busy
<1> QED
  BY <1>1, <1>2, <1>3

\* A client that was deleted, suspended or never stored cannot log in, a secret that the provider takes is
\* stored or was told, and who changes an identity has its permissions when he does, for every number of
\* clients, members, requests and failures (OAuthApplicationsService, ServiceIdentitiesService).
THEOREM ClientsAreSafe == SystemSpec => ClientSafety
<1>1. SystemSpec => []ClientInv
  BY ClientInit, ClientNext, PTL DEF SystemSpec
<1>2. ClientInv /\ ClientInv' /\ [SystemNext]_systemVars =>
        [/\ Clients!TypeOK'
         /\ Clients!GoneCannotLogIn'
         /\ Clients!AcceptedIsStored'
         /\ Clients!ManagedWithinPermissions]_systemVars
  <2> SUFFICES ASSUME ClientInv, ClientInv', [SystemNext]_systemVars
               PROVE  /\ Clients!TypeOK' /\ Clients!GoneCannotLogIn' /\ Clients!AcceptedIsStored'
                      /\ Clients!ManagedWithinPermissions
    OBVIOUS
  <2>1. Clients!TypeOK' /\ Clients!GoneCannotLogIn' /\ Clients!AcceptedIsStored'
    BY ClientsAreRight, PTL
  <2>2. Clients!ManagedWithinPermissions
    BY ClientManaged DEF Clients!ManagedWithinPermissions
  <2> QED
    BY <2>1, <2>2
<1> QED
  BY <1>1, <1>2, PTL DEF SystemSpec, ClientSafety
=============================================================================
