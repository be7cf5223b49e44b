--------------------------- MODULE RuntimeProofs ----------------------------
(***************************************************************************)
(* Proofs about starts, stops and restarts of an AppGroup, for every       *)
(* number of apps, queued Operations, deployments, attempts and failures.  *)
(*                                                                         *)
(* The argument: a stopped app is down, or an Operation that takes it down *)
(* is open or has failed; a running one has its replicas, or an Operation  *)
(* that gives them to it has not succeeded yet; and what a deployment was  *)
(* requested with is what the rows say as long as it is active.            *)
(***************************************************************************)
EXTENDS Runtime, TLAPS, FiniteSetTheorems, SequenceTheorems

AppRows == [run : BOOLEAN, pending : BOOLEAN, replicas : Replicas]
Snapshots == UNION {[S -> AppRows] : S \in SUBSET Apps}
Deps == [run : BOOLEAN, apps : Snapshots,
         status : {"Active", "Succeeded", "RolledBack"}]
Counts == Replicas \cup {0, None}
Plans == UNION {[S -> Counts] : S \in SUBSET Apps}
Ops == [type : Groups \cup {"AppStart", "AppStop", "AppRestart"}, app : Apps \cup {None},
        phase : Open \cup {"Succeeded", "Failed"}, attempt : 0..MaxAttempts,
        targets : Plans, failed : BOOLEAN, forced : Nat]

Typed ==
    /\ running \in BOOLEAN /\ app \in Rows /\ blocked \in BOOLEAN /\ checked \in BOOLEAN
    /\ deps \in Seq(Deps) /\ Len(deps) <= MaxVersion
    /\ current \in 1..Len(deps)
    /\ op \in Seq(Ops) /\ Len(op) <= MaxOps
    /\ swarm \in [Apps -> Counts]
    /\ edits \in 0..MaxEdits /\ undone \in BOOLEAN /\ overlapped \in BOOLEAN

\* An Operation that waits has an attempt left.
AttemptsAreCounted ==
    \A o \in 1..Len(op) : op[o].phase = "Pending" =>
        op[o].attempt < MaxAttempts /\ (op[o].type = "AppRestart" => op[o].attempt = 0)

\* Only the newest deployment is active, and the newest that succeeded is current.
CurrentIsNewest ==
    /\ \A v \in 1..Len(deps) - 1 : deps[v].status # "Active"
    /\ deps[current].status = "Succeeded"
    /\ \A v \in current + 1..Len(deps) : deps[v].status # "Succeeded"

TInv == Typed /\ AttemptsAreCounted /\ CurrentIsNewest

\* What an active deployment was requested with is what the rows say.
ActiveMatchesRows ==
    ActiveDeployment =>
        /\ deps[Len(deps)].run = running
        /\ \A a \in DOMAIN deps[Len(deps)].apps : deps[Len(deps)].apps[a].run = app[a].run

ServicesAreDeployed == \A a \in Apps : swarm[a] = None <=> a \notin Deployed

\* What Operations still mean to do.
TargetsAreOfType ==
    \A o \in 1..Len(op) :
        /\ op[o].type \in {"GroupStop", "AppStop"} =>
             \A a \in DOMAIN op[o].targets : op[o].targets[a] = 0
        /\ op[o].type \in {"GroupRestart", "AppRestart"} =>
             \A a \in DOMAIN op[o].targets : op[o].targets[a] = None

OneExecutes ==
    \A o, p \in 1..Len(op) : op[o].phase = "Executing" /\ op[p].phase = "Executing" => o = p

Stopped(a) == ~(running /\ app[a].run)
Stops(o, a) == op[o].type = "GroupStop" \/ (op[o].type = "AppStop" /\ op[o].app = a)

\* No replicas of the app run, and no command that is left starts any.
Down(a) ==
    /\ swarm[a] \in {0, None}
    /\ \A o \in 1..Len(op) : op[o].phase = "Executing" /\ a \in DOMAIN op[o].targets =>
           op[o].targets[a] \in {0, None}
\* An Operation that takes the app down has not succeeded.
Owed(a) ==
    \E o \in 1..Len(op) :
        /\ Stops(o, a)
        /\ \/ op[o].phase \in {"Pending", "Failed"}
           \/ op[o].phase = "Executing" /\ (op[o].failed \/ a \in DOMAIN op[o].targets)

StoppedGoDown == \A a \in Apps : Stopped(a) => Down(a) \/ Owed(a)

StopInv ==
    ~undone => /\ ActiveMatchesRows /\ ServicesAreDeployed /\ TargetsAreOfType
               /\ Workers = 1 => OneExecutes /\ StoppedGoDown

\* Requests that do not overlap: one thing is under way at a time.
OneIsOpen ==
    /\ \A o, p \in OpenOps : o = p
    /\ OpenOps # {} => ~ActiveDeployment
\* A stop that is open is one the rows still ask for.
OpenIsWanted == \A o \in OpenOps, a \in Apps : Stops(o, a) => Stopped(a)

Wanted(a) == IF running /\ app[a].run THEN deps[current].apps[a].replicas ELSE 0
Covers(o, a) ==
    \/ op[o].type \in {"GroupStart", "GroupStop"}
    \/ op[o].type \in {"AppStart", "AppStop"} /\ op[o].app = a

Due(a) ==
    \E o \in 1..Len(op) :
        \/ op[o].phase = "Failed"
        \/ op[o].phase = "Pending" /\ Covers(o, a)
        \/ op[o].phase = "Executing" /\ Covers(o, a) /\ (op[o].failed \/ a \in DOMAIN op[o].targets)

\* What is left to do is what the rows and the last deployment say.
TargetsAreWanted ==
    \A o \in 1..Len(op) :
        op[o].phase = "Executing" /\ op[o].type \notin {"GroupRestart", "AppRestart"} =>
            \A a \in DOMAIN op[o].targets :
                /\ Covers(o, a)
                /\ ~app[a].pending => op[o].targets[a] = Wanted(a)

RunningAsWanted == \A a \in Deployed : ~app[a].pending => swarm[a] = Wanted(a) \/ Due(a)

SettledInv ==
    ~undone /\ ~overlapped => OneIsOpen /\ OpenIsWanted /\ TargetsAreWanted /\ RunningAsWanted

\* A forced restart is never repeated.
ForcedOnce ==
    \A o \in 1..Len(op) :
        IF op[o].type # "AppRestart" THEN op[o].forced = 0
        ELSE /\ op[o].forced <= 1
             /\ op[o].phase = "Pending" => op[o].forced = 0
             /\ op[o].phase = "Executing" =>
                  /\ DOMAIN op[o].targets \subseteq {op[o].app}
                  /\ DOMAIN op[o].targets # {} => op[o].forced = 0
OneRestart ==
    \A o, p \in OpenOps : op[o].type = "AppRestart" /\ op[p].type = "AppRestart"
                             /\ op[o].app = op[p].app => o = p

IInv == TInv /\ StopInv /\ SettledInv /\ ForcedOnce /\ OneRestart

-----------------------------------------------------------------------------
(* What a step does to the Operations *)

\* A request queues an Operation.
Asks(type, a) ==
    /\ op' \in Seq(Ops) /\ Len(op') = Len(op) + 1 /\ Len(op') <= MaxOps
    /\ \A p \in 1..Len(op) : op'[p] = op[p]
    /\ LET new == op'[Len(op) + 1] IN
         /\ new.type = type /\ new.app = a /\ new.phase = "Pending" /\ new.attempt = 0
         /\ DOMAIN new.targets = {} /\ new.failed = FALSE /\ new.forced = 0
    /\ overlapped' = (overlapped \/ OpenOps # {})
    /\ undone' = undone

\* The executor changes one Operation, and neither what it is nor for which app.
Works(o) ==
    /\ o \in 1..Len(op) /\ op' \in Seq(Ops) /\ Len(op') = Len(op)
    /\ \A p \in 1..Len(op) \ {o} : op'[p] = op[p]
    /\ op'[o].type = op[o].type /\ op'[o].app = op[o].app
    /\ UNCHANGED <<running, app, deps, current, blocked, checked, undone, overlapped>>

LEMMA ReplaceInSeq ==
    ASSUME NEW S, NEW s \in Seq(S), NEW i \in 1..Len(s), NEW r \in S
    PROVE  /\ [s EXCEPT ![i] = r] \in Seq(S) /\ Len([s EXCEPT ![i] = r]) = Len(s)
           /\ \A j \in 1..Len(s) \ {i} : [s EXCEPT ![i] = r][j] = s[j]
           /\ [s EXCEPT ![i] = r][i] = r
  BY ExceptSeq

LEMMA QueueAsks ==
    ASSUME RuntimeAssumption, Typed, NEW a \in Apps \cup {None},
           NEW type \in Groups \cup {"AppStart", "AppStop", "AppRestart"}, Queue(type, a)
    PROVE  Asks(type, a)
<1> DEFINE new == [type |-> type, app |-> a, phase |-> "Pending", attempt |-> 0,
                   targets |-> <<>>, failed |-> FALSE, forced |-> 0]
<1>1. new \in Ops
  <2>1. <<>> \in [{} -> Counts] /\ {} \in SUBSET Apps
    OBVIOUS
  <2>2. <<>> \in Plans
    BY <2>1, Zenon DEF Plans
  <2> QED
    BY <2>2 DEF Ops, Open, RuntimeAssumption
<1>2. op' = Append(op, new) /\ op \in Seq(Ops) /\ Len(op) < MaxOps /\ Len(op) \in Nat
  BY DEF Queue, Typed
<1>3. /\ op' \in Seq(Ops) /\ Len(op') = Len(op) + 1
      /\ \A p \in 1..Len(op) : op'[p] = op[p]
      /\ op'[Len(op) + 1] = new
  BY <1>1, <1>2, AppendProperties
<1> QED
  BY <1>2, <1>3 DEF Queue, Asks, RuntimeAssumption

\* What the executor knows when it begins.
LEMMA TargetsArePlans ==
    ASSUME RuntimeAssumption, Typed, NEW o \in 1..Len(op), ~RestartRefused(o)
    PROVE  Targets(o) \in Plans
<1>1. deps[current] \in Deps /\ op[o] \in Ops
  BY ElementOfSeq DEF Typed
<1>2. Deployed \in SUBSET Apps /\ deps[current].apps \in [Deployed -> AppRows]
  BY <1>1 DEF Deps, Snapshots, Deployed
<1>3. \A a \in Deployed : Target(op[o].type, a) \in Counts
  BY <1>2 DEF Target, DeployedReplicas, Counts, AppRows
<1>4. ASSUME NEW S \in SUBSET Apps, Targets(o) \in [S -> Counts] PROVE Targets(o) \in Plans
  BY <1>4, Zenon DEF Plans
<1>5. CASE op[o].type = "GroupRestart"
  <2>1. Targets(o) \in [{x \in Deployed : Runnable(x)} -> Counts]
    BY <1>5 DEF Targets, Counts
  <2> QED
    BY <2>1, <1>2, <1>4
<1>6. CASE op[o].type = "AppRestart"
  <2>1. Targets(o) \in [{op[o].app} -> Counts] /\ op[o].app \in Deployed
    BY <1>6 DEF Targets, Counts, RestartRefused
  <2> QED
    BY <2>1, <1>2, <1>4
<1>7. CASE op[o].type \in {"GroupStart", "GroupStop"}
  <2>1. Targets(o) \in [Deployed -> Counts]
    BY <1>3, <1>7 DEF Targets, Groups
  <2> QED
    BY <2>1, <1>2, <1>4
<1>8. CASE op[o].type \in {"AppStart", "AppStop"}
  <2>1. Targets(o) \in [Deployed \cap {op[o].app} -> Counts]
    BY <1>3, <1>8 DEF Targets, Groups
  <2> QED
    BY <2>1, <1>2, <1>4
<1> QED
  BY <1>1, <1>5, <1>6, <1>7, <1>8 DEF Ops, Groups

LEMMA LoadWorks ==
    ASSUME RuntimeAssumption, Typed, AttemptsAreCounted, NEW o \in 1..MaxOps, Load(o)
    PROVE  /\ Works(o) /\ UNCHANGED <<swarm, edits>>
           /\ op[o].phase = "Pending"
           /\ op'[o].attempt = op[o].attempt + 1 /\ op'[o].forced = op[o].forced
           /\ IF RestartRefused(o)
              THEN op'[o].phase = "Failed" /\ op'[o].targets = op[o].targets
              ELSE /\ op'[o].phase = "Executing" /\ op'[o].targets = Targets(o)
                   /\ op'[o].failed = FALSE
<1>1. o \in 1..Len(op) /\ op \in Seq(Ops) /\ op[o] \in Ops /\ op[o].phase = "Pending"
  BY ElementOfSeq DEF Load, Typed
<1>2. op[o].attempt + 1 \in 0..MaxAttempts
  BY <1>1 DEF AttemptsAreCounted, RuntimeAssumption, Ops
<1>3. CASE RestartRefused(o)
  <2> DEFINE new == [op[o] EXCEPT !.phase = "Failed", !.attempt = op[o].attempt + 1]
  <2>1. new \in Ops
    BY <1>1, <1>2 DEF Ops
  <2>2. op' = [op EXCEPT ![o] = new]
    BY <1>1, <1>3 DEF Load
  <2>3. /\ new.type = op[o].type /\ new.app = op[o].app /\ new.phase = "Failed"
        /\ new.attempt = op[o].attempt + 1 /\ new.forced = op[o].forced
        /\ new.targets = op[o].targets
    BY <1>1 DEF Ops
  <2> HIDE DEF new
  <2>4. /\ op' \in Seq(Ops) /\ Len(op') = Len(op) /\ op'[o] = new
        /\ \A p \in 1..Len(op) \ {o} : op'[p] = op[p]
    BY <1>1, <2>1, <2>2, ReplaceInSeq
  <2> QED
    BY <1>1, <1>3, <2>3, <2>4 DEF Load, Works
<1>4. CASE ~RestartRefused(o)
  <2> DEFINE new == [op[o] EXCEPT !.phase = "Executing", !.attempt = op[o].attempt + 1,
                                  !.targets = Targets(o), !.failed = FALSE]
  <2>1. new \in Ops
    BY <1>1, <1>2, <1>4, TargetsArePlans DEF Ops, Open
  <2>2. op' = [op EXCEPT ![o] = new]
    BY <1>1, <1>4 DEF Load
  <2>3. /\ new.type = op[o].type /\ new.app = op[o].app /\ new.phase = "Executing"
        /\ new.attempt = op[o].attempt + 1 /\ new.forced = op[o].forced
        /\ new.targets = Targets(o) /\ new.failed = FALSE
    BY <1>1 DEF Ops
  <2> HIDE DEF new
  <2>4. /\ op' \in Seq(Ops) /\ Len(op') = Len(op) /\ op'[o] = new
        /\ \A p \in 1..Len(op) \ {o} : op'[p] = op[p]
    BY <1>1, <2>1, <2>2, ReplaceInSeq
  <2> QED
    BY <1>1, <1>4, <2>3, <2>4 DEF Load, Works
<1> QED
  BY <1>3, <1>4

LEMMA CommandWorks ==
    ASSUME RuntimeAssumption, Typed, NEW o \in 1..MaxOps, NEW a \in Apps, Command(o, a)
    PROVE  /\ Works(o) /\ UNCHANGED edits
           /\ op[o].phase = "Executing" /\ op'[o].phase = "Executing"
           /\ a \in DOMAIN op[o].targets
           /\ DOMAIN op'[o].targets = DOMAIN op[o].targets \ {a}
           /\ \A x \in DOMAIN op'[o].targets : op'[o].targets[x] = op[o].targets[x]
           /\ op'[o].attempt = op[o].attempt
           /\ op[o].failed => op'[o].failed
           /\ op'[o].forced = op[o].forced
                \/ (op[o].type = "AppRestart" /\ op'[o].forced = op[o].forced + 1)
           /\ swarm' \in [Apps -> Counts]
           /\ \A x \in Apps \ {a} : swarm'[x] = swarm[x]
           /\ swarm'[a] = swarm[a] \/ (swarm'[a] = op[o].targets[a] /\ op[o].targets[a] # None)
           /\ swarm[a] = None <=> swarm'[a] = None
           /\ op'[o].failed \/ op[o].targets[a] = None \/ swarm'[a] = op[o].targets[a]
<1>1. /\ o \in 1..Len(op) /\ op \in Seq(Ops) /\ op[o] \in Ops /\ op[o].phase = "Executing"
      /\ a \in DOMAIN op[o].targets /\ swarm \in [Apps -> Counts]
  <2>1. o <= Len(op) /\ op[o].phase = "Executing" /\ a \in DOMAIN op[o].targets
    BY DEF Command
  <2> QED
    BY <2>1, ElementOfSeq DEF Typed
<1>2. PICK S \in SUBSET Apps : op[o].targets \in [S -> Counts]
  BY <1>1 DEF Ops, Plans
<1> DEFINE n == op[o].targets[a]
           left == [x \in DOMAIN op[o].targets \ {a} |-> op[o].targets[x]]
<1>3. PICK ok \in BOOLEAN, effect \in BOOLEAN :
        /\ effect => swarm[a] # None
        /\ ok => effect
        /\ swarm' = IF effect /\ n # None THEN [swarm EXCEPT ![a] = n] ELSE swarm
        /\ op' = [op EXCEPT ![o].targets = left,
                            ![o].failed = @ \/ ~ok,
                            ![o].forced = IF effect /\ op[o].type = "AppRestart" THEN @ + 1 ELSE @]
  BY DEF Command
<1>4. n \in Counts /\ left \in Plans
  <2>1. left \in [S \ {a} -> Counts] /\ S \ {a} \in SUBSET Apps
    BY <1>2
  <2>2. left \in Plans
    BY <2>1, Zenon DEF Plans
  <2> QED
    BY <1>1, <1>2, <2>2
<1> DEFINE failed == op[o].failed \/ ~ok
           forced == IF effect /\ op[o].type = "AppRestart" THEN op[o].forced + 1 ELSE op[o].forced
           new == [op[o] EXCEPT !.targets = left, !.failed = failed, !.forced = forced]
<1>5. new \in Ops
  <2>1. failed \in BOOLEAN /\ forced \in Nat
    BY <1>1 DEF Ops
  <2> HIDE DEF failed, forced, left
  <2> QED
    BY <1>1, <1>4, <2>1 DEF Ops
<1>6. op' = [op EXCEPT ![o] = new]
  BY <1>1, <1>3
<1>7. /\ op' \in Seq(Ops) /\ Len(op') = Len(op) /\ op'[o] = new
      /\ \A p \in 1..Len(op) \ {o} : op'[p] = op[p]
  <2> HIDE DEF new
  <2> QED
    BY <1>1, <1>5, <1>6, ReplaceInSeq
<1>8. /\ new.targets = left /\ new.failed = failed /\ new.forced = forced
      /\ new.type = op[o].type /\ new.app = op[o].app /\ new.phase = op[o].phase
      /\ new.attempt = op[o].attempt
  BY <1>1 DEF Ops
<1>9. Works(o) /\ UNCHANGED edits
  BY <1>1, <1>7, <1>8 DEF Works, Command
<1>10. /\ swarm' \in [Apps -> Counts]
       /\ \A x \in Apps \ {a} : swarm'[x] = swarm[x]
       /\ swarm'[a] = IF effect /\ n # None THEN n ELSE swarm[a]
  BY <1>1, <1>3, <1>4
<1>11. DOMAIN left = DOMAIN op[o].targets \ {a} /\ \A x \in DOMAIN left : left[x] = op[o].targets[x]
  OBVIOUS
<1> HIDE DEF n, left, failed, forced, new
<1>12. /\ DOMAIN op'[o].targets = DOMAIN op[o].targets \ {a}
       /\ \A x \in DOMAIN op'[o].targets : op'[o].targets[x] = op[o].targets[x]
       /\ op'[o].attempt = op[o].attempt /\ op'[o].phase = "Executing"
  BY <1>1, <1>7, <1>8, <1>11
<1>13. /\ op[o].failed => op'[o].failed
       /\ op'[o].forced = op[o].forced
            \/ (op[o].type = "AppRestart" /\ op'[o].forced = op[o].forced + 1)
  <2>1. op'[o].failed = failed /\ op'[o].forced = forced
    BY <1>7, <1>8
  <2>2. op[o].failed => op'[o].failed
    BY <2>1, Zenon DEF failed
  <2> QED
    BY <2>1, <2>2 DEF forced
<1>14. /\ swarm'[a] = swarm[a] \/ (swarm'[a] = op[o].targets[a] /\ op[o].targets[a] # None)
       /\ swarm[a] = None <=> swarm'[a] = None
       /\ op'[o].failed \/ op[o].targets[a] = None \/ swarm'[a] = op[o].targets[a]
  BY <1>3, <1>7, <1>8, <1>10 DEF n, failed
<1> QED
  BY <1>1, <1>9, <1>10, <1>12, <1>13, <1>14

LEMMA FinishWorks ==
    ASSUME RuntimeAssumption, Typed, NEW o \in 1..MaxOps, Finish(o) \/ Crash(o)
    PROVE  /\ Works(o) /\ UNCHANGED swarm /\ edits' \in 0..MaxEdits
           /\ op[o].phase = "Executing"
           /\ op'[o].phase \in {"Pending", "Failed"} \/ (op'[o].phase = "Succeeded" /\ Finish(o))
           /\ op'[o].phase = "Succeeded" => DOMAIN op[o].targets = {} /\ ~op[o].failed
           /\ op'[o].phase = "Pending" => Retryable(o)
           /\ op'[o].targets = op[o].targets /\ op'[o].attempt = op[o].attempt
           /\ op'[o].forced = op[o].forced
<1>1. o \in 1..Len(op) /\ op \in Seq(Ops) /\ op[o] \in Ops /\ op[o].phase = "Executing"
  BY ElementOfSeq DEF Finish, Crash, Typed
<1>2. PICK phase \in {"Pending", "Failed", "Succeeded"} :
        /\ op' = [op EXCEPT ![o].phase = phase]
        /\ phase = "Succeeded" => DOMAIN op[o].targets = {} /\ ~op[o].failed /\ Finish(o)
        /\ phase = "Pending" => Retryable(o)
  BY DEF Finish, Crash
<1> DEFINE new == [op[o] EXCEPT !.phase = phase]
<1>3. new \in Ops /\ op' = [op EXCEPT ![o] = new]
  BY <1>1, <1>2 DEF Ops, Open
<1>4. edits' \in 0..MaxEdits
  BY DEF Finish, Crash, Typed, RuntimeAssumption
<1> QED
  BY <1>1, <1>2, <1>3, <1>4, ReplaceInSeq DEF Finish, Crash, Works, Ops

\* A request: the rows it writes and the Operation it queues.
Requests(type, a) ==
    /\ Asks(type, a) /\ ~ActiveDeployment
    /\ running' \in BOOLEAN /\ app' \in Rows /\ checked' \in BOOLEAN
    /\ UNCHANGED <<deps, current, blocked, swarm, edits>>

LEMMA SetGroupRequests ==
    ASSUME RuntimeAssumption, Typed, NEW run \in BOOLEAN, SetGroup(run)
    PROVE  /\ Requests(IF run THEN "GroupStart" ELSE "GroupStop", None)
           /\ running' = run /\ app' = app
<1> DEFINE type == IF run THEN "GroupStart" ELSE "GroupStop"
<1>1. type \in Groups
  BY DEF Groups
<1>2. Asks(type, None)
  BY <1>1, QueueAsks DEF SetGroup
<1> QED
  BY <1>2 DEF SetGroup, Requests, Typed

LEMMA SetAppRequests ==
    ASSUME RuntimeAssumption, Typed, NEW a \in Apps, NEW run \in BOOLEAN, SetApp(a, run)
    PROVE  /\ Requests(IF run THEN "AppStart" ELSE "AppStop", a)
           /\ ~app[a].pending /\ running' = running /\ app'[a].run = run
           /\ \A x \in Apps : app'[x].pending = app[x].pending
           /\ \A x \in Apps \ {a} : app'[x] = app[x]
<1> DEFINE type == IF run THEN "AppStart" ELSE "AppStop"
<1>1. Asks(type, a)
  BY QueueAsks DEF SetApp
<1>2. app' = [app EXCEPT ![a].run = run] /\ app \in Rows
  BY DEF SetApp, Typed
<1>3. app' = [app EXCEPT ![a] = [app[a] EXCEPT !.run = run]] /\ app[a] \in AppRows
  BY <1>2 DEF Rows, AppRows
<1>4. [app[a] EXCEPT !.run = run] \in AppRows
  BY <1>3 DEF AppRows
<1>5. app' \in Rows
  BY <1>2, <1>3, <1>4 DEF Rows, AppRows
<1> QED
  BY <1>1, <1>2, <1>3, <1>5 DEF SetApp, Requests, Typed, Rows

LEMMA RestartRequests ==
    ASSUME RuntimeAssumption, Typed,
           RestartGroup \/ \E x \in Apps : RestartApp(x)
    PROVE  /\ running' = running /\ app' = app
           /\ \/ Requests("GroupRestart", None)
              \/ \E x \in Apps : Requests("AppRestart", x) /\ RestartApp(x)
<1>1. CASE RestartGroup
  <2>1. Asks("GroupRestart", None)
    BY <1>1, QueueAsks DEF RestartGroup, Groups
  <2> QED
    BY <1>1, <2>1 DEF RestartGroup, Requests, Typed
<1>2. ASSUME NEW x \in Apps, RestartApp(x)
      PROVE  running' = running /\ app' = app /\ Requests("AppRestart", x)
  <2>1. Asks("AppRestart", x)
    BY <1>2, QueueAsks DEF RestartApp
  <2> QED
    BY <1>2, <2>1 DEF RestartApp, Requests, Typed
<1> QED
  BY <1>1, <1>2

-----------------------------------------------------------------------------
(* Types and counts *)

LEMMA RequestTInv ==
    ASSUME RuntimeAssumption, TInv, NEW type, NEW a, Requests(type, a)
    PROVE  TInv'
<1>1. AttemptsAreCounted'
  <2> SUFFICES ASSUME NEW o \in 1..Len(op'), op'[o].phase = "Pending"
               PROVE  /\ op'[o].attempt < MaxAttempts
                      /\ op'[o].type = "AppRestart" => op'[o].attempt = 0
    BY DEF AttemptsAreCounted
  <2>1. CASE o \in 1..Len(op)
    BY <2>1 DEF TInv, AttemptsAreCounted, Requests, Asks
  <2>2. CASE o = Len(op) + 1
    BY <2>2 DEF Requests, Asks, RuntimeAssumption
  <2> QED
    BY <2>1, <2>2, LenProperties DEF TInv, Typed, Requests, Asks
<1>2. Typed'
  BY DEF TInv, Typed, Requests, Asks
<1>3. CurrentIsNewest'
  BY DEF TInv, CurrentIsNewest, Requests
<1> QED
  BY <1>1, <1>2, <1>3 DEF TInv

LEMMA WorkTInv ==
    ASSUME RuntimeAssumption, TInv, NEW o \in 1..MaxOps,
           Load(o) \/ Finish(o) \/ Crash(o) \/ \E a \in Apps : Command(o, a)
    PROVE  TInv'
<1>1. Works(o) /\ swarm' \in [Apps -> Counts] /\ edits' \in 0..MaxEdits
      /\ (op'[o].phase = "Pending" => Retryable(o) /\ op'[o].attempt = op[o].attempt)
  BY LoadWorks, FinishWorks, CommandWorks DEF TInv, Typed
<1>2. AttemptsAreCounted'
  <2> SUFFICES ASSUME NEW p \in 1..Len(op'), op'[p].phase = "Pending"
               PROVE  /\ op'[p].attempt < MaxAttempts
                      /\ op'[p].type = "AppRestart" => op'[p].attempt = 0
    BY DEF AttemptsAreCounted
  <2>1. CASE p = o
    BY <1>1, <2>1 DEF Works, Retryable
  <2>2. CASE p # o
    BY <1>1, <2>2 DEF Works, TInv, AttemptsAreCounted
  <2> QED
    BY <2>1, <2>2
<1>3. Typed'
  BY <1>1 DEF TInv, Typed, Works
<1>4. CurrentIsNewest'
  BY <1>1 DEF TInv, CurrentIsNewest, Works
<1> QED
  BY <1>2, <1>3, <1>4 DEF TInv

LEMMA EffectiveReplicasAreCounts ==
    ASSUME RuntimeAssumption, Typed, NEW v \in 1..Len(deps)
    PROVE  EffectiveReplicas(v) \in [Apps -> Counts]
<1>1. deps[v] \in Deps
  BY ElementOfSeq DEF Typed
<1>2. PICK S \in SUBSET Apps : deps[v].apps \in [S -> AppRows]
  BY <1>1 DEF Deps, Snapshots
<1> QED
  BY <1>2 DEF EffectiveReplicas, Counts, AppRows

\* The deployment that is active is the newest, and is not the current one.
LEMMA ActiveIsNewest ==
    ASSUME TInv, ActiveDeployment
    PROVE  /\ deps \in Seq(Deps) /\ Len(deps) \in 1..MaxVersion
           /\ deps[Len(deps)].status = "Active" /\ current \in 1..Len(deps) - 1
<1>1. deps \in Seq(Deps) /\ Len(deps) \in Nat /\ current \in 1..Len(deps)
  BY LenProperties DEF TInv, Typed
<1>2. PICK v \in 1..Len(deps) : deps[v].status = "Active"
  BY DEF ActiveDeployment
<1>3. v = Len(deps) /\ current # Len(deps)
  BY <1>1, <1>2 DEF TInv, CurrentIsNewest
<1> QED
  BY <1>1, <1>2, <1>3 DEF TInv, Typed

\* A deployment is requested with the rows as they are.
LEMMA DeployAdds ==
    ASSUME RuntimeAssumption, TInv, Deploy
    PROVE  /\ deps' \in Seq(Deps) /\ Len(deps') = Len(deps) + 1
           /\ \A v \in 1..Len(deps) : deps'[v] = deps[v]
           /\ deps'[Len(deps) + 1] = [run |-> running, apps |-> Snapshot, status |-> "Active"]
<1> DEFINE S == {x \in Apps : ~app[x].pending}
           new == [run |-> running, apps |-> Snapshot, status |-> "Active"]
<1>1. Snapshot \in [S -> AppRows] /\ S \in SUBSET Apps
  BY DEF TInv, Typed, Rows, AppRows, Snapshot
<1>2. Snapshot \in Snapshots
  BY <1>1, Zenon DEF Snapshots
<1>3. new \in Deps /\ deps \in Seq(Deps) /\ deps' = Append(deps, new)
  BY <1>2 DEF TInv, Typed, Deps, Deploy
<1> HIDE DEF new
<1>4. /\ deps' \in Seq(Deps) /\ Len(deps') = Len(deps) + 1
      /\ \A v \in 1..Len(deps) : deps'[v] = deps[v]
      /\ deps'[Len(deps) + 1] = new
  BY <1>3, AppendProperties
<1> QED
  BY <1>4 DEF new

\* The active deployment ends.
LEMMA SettleKeeps ==
    ASSUME RuntimeAssumption, TInv, ActiveDeployment, NEW s \in {"Succeeded", "RolledBack"},
           deps' = [deps EXCEPT ![Len(deps)].status = s]
    PROVE  /\ deps' \in Seq(Deps) /\ Len(deps') = Len(deps)
           /\ \A v \in 1..Len(deps) - 1 : deps'[v] = deps[v]
           /\ LET d == deps[Len(deps)]  new == deps'[Len(deps)] IN
                new.status = s /\ new.run = d.run /\ new.apps = d.apps
<1> DEFINE d == deps[Len(deps)]
           new == [d EXCEPT !.status = s]
<1>1. deps \in Seq(Deps) /\ Len(deps) \in 1..Len(deps) /\ d \in Deps
  BY ActiveIsNewest, ElementOfSeq
<1>2. new \in Deps /\ deps' = [deps EXCEPT ![Len(deps)] = new]
  BY <1>1 DEF Deps
<1>3. new.status = s /\ new.run = d.run /\ new.apps = d.apps
  BY <1>1 DEF Deps
<1> HIDE DEF new
<1>4. /\ deps' \in Seq(Deps) /\ Len(deps') = Len(deps) /\ deps'[Len(deps)] = new
      /\ \A v \in 1..Len(deps) \ {Len(deps)} : deps'[v] = deps[v]
  <2> HIDE DEF d
  <2> QED
    BY <1>1, <1>2, ReplaceInSeq, SMTT(30)
<1> QED
  BY <1>1, <1>3, <1>4

\* A rollback finds a deployment that succeeded: at least the current one.
LEMMA RollBackFinds ==
    ASSUME RuntimeAssumption, TInv, RollBack
    PROVE  /\ current' \in 1..Len(deps) - 1 /\ deps[current'].status = "Succeeded"
           /\ \A w \in current' + 1..Len(deps) - 1 : deps[w].status # "Succeeded"
           /\ swarm' = EffectiveReplicas(current')
<1> DEFINE Found(v) == /\ deps[v].status = "Succeeded"
                       /\ \A w \in v + 1..Len(deps) - 1 : deps[w].status # "Succeeded"
<1>1. current \in 1..Len(deps) - 1 /\ Found(current)
  BY ActiveIsNewest DEF RollBack, TInv, CurrentIsNewest, Typed
<1>2. /\ current' = CHOOSE v \in 1..Len(deps) - 1 : Found(v)
      /\ swarm' = EffectiveReplicas(CHOOSE v \in 1..Len(deps) - 1 : Found(v))
  BY DEF RollBack
<1>3. Found(CHOOSE v \in 1..Len(deps) - 1 : Found(v))
      /\ (CHOOSE v \in 1..Len(deps) - 1 : Found(v)) \in 1..Len(deps) - 1
  <2> HIDE DEF Found
  <2> QED
    BY <1>1, Zenon
<1> QED
  BY <1>2, <1>3

\* What the other writers leave alone.
LEMMA FrameTInv ==
    ASSUME TInv, op' = op,
           /\ running' \in BOOLEAN /\ app' \in Rows /\ blocked' \in BOOLEAN /\ checked' \in BOOLEAN
           /\ swarm' \in [Apps -> Counts]
           /\ edits' \in 0..MaxEdits /\ undone' \in BOOLEAN /\ overlapped' \in BOOLEAN
    PROVE  /\ UNCHANGED <<deps, current>> => TInv'
           /\ /\ deps' \in Seq(Deps) /\ Len(deps') <= MaxVersion /\ current' \in 1..Len(deps')
              /\ CurrentIsNewest'
              => TInv'
<1>1. AttemptsAreCounted'
  BY DEF TInv, AttemptsAreCounted
<1>2. ASSUME deps' \in Seq(Deps), Len(deps') <= MaxVersion, current' \in 1..Len(deps')
      PROVE  Typed'
  BY <1>2 DEF TInv, Typed
<1>3. ASSUME UNCHANGED <<deps, current>> PROVE Typed' /\ CurrentIsNewest'
  BY <1>2, <1>3 DEF TInv, Typed, CurrentIsNewest
<1> QED
  BY <1>1, <1>2, <1>3 DEF TInv

LEMMA OtherTInv ==
    ASSUME RuntimeAssumption, TInv,
           \/ Check \/ Block \/ Deploy \/ Succeed \/ RollBack \/ Discard \/ Restore
           \/ \E a \in Apps : Edit(a)
    PROVE  TInv' /\ op' = op
<1> USE FrameTInv
<1>0. ASSUME edits < MaxEdits, edits' = edits + 1 PROVE edits' \in 0..MaxEdits
  BY <1>0 DEF TInv, Typed, RuntimeAssumption
<1>1. CASE Check
  BY <1>1 DEF Check, TInv, Typed
<1>2. CASE Block
  <2>1. blocked' \in BOOLEAN
    BY <1>2, Zenon DEF Block
  <2> QED
    BY <1>0, <1>2, <2>1 DEF Block, TInv, Typed
<1>3. CASE Deploy
  <2>1. Len(deps) \in Nat /\ Len(deps) < MaxVersion /\ current \in 1..Len(deps)
    BY <1>3, LenProperties DEF Deploy, TInv, Typed
  <2>2. /\ deps' \in Seq(Deps) /\ Len(deps') = Len(deps) + 1
        /\ \A v \in 1..Len(deps) : deps'[v] = deps[v]
        /\ deps'[Len(deps) + 1].status = "Active"
        /\ \A v \in 1..Len(deps) : deps[v].status # "Active"
    BY <1>3, DeployAdds DEF Deploy, ActiveDeployment
  <2>3. current' = current
    BY <1>3 DEF Deploy
  <2>4. CurrentIsNewest'
    BY <2>1, <2>2, <2>3 DEF TInv, CurrentIsNewest
  <2>5. overlapped' \in BOOLEAN
    BY <1>3, Zenon DEF Deploy
  <2>6. Len(deps') <= MaxVersion /\ current' \in 1..Len(deps')
    BY <2>1, <2>2, <2>3 DEF RuntimeAssumption
  <2> QED
    BY <1>3, <2>2, <2>4, <2>5, <2>6 DEF Deploy, TInv, Typed
<1>4. CASE Succeed
  <2>1. deps \in Seq(Deps) /\ Len(deps) \in 1..MaxVersion
    BY <1>4, ActiveIsNewest DEF Succeed
  <2>2. swarm' \in [Apps -> Counts]
    BY <1>4, <2>1, EffectiveReplicasAreCounts DEF Succeed, TInv
  <2>3. /\ deps' \in Seq(Deps) /\ Len(deps') = Len(deps) /\ current' = Len(deps)
        /\ \A v \in 1..Len(deps) - 1 : deps'[v] = deps[v]
        /\ deps'[Len(deps)].status = "Succeeded"
    BY <1>4, SettleKeeps DEF Succeed
  <2>4. CurrentIsNewest'
    BY <2>1, <2>3 DEF TInv, CurrentIsNewest
  <2> QED
    BY <1>4, <2>1, <2>2, <2>3, <2>4 DEF Succeed, TInv, Typed
<1>5. CASE RollBack
  <2>1. deps \in Seq(Deps) /\ Len(deps) \in 1..MaxVersion
    BY <1>5, ActiveIsNewest DEF RollBack
  <2>2. PICK t : t = current'
    OBVIOUS
  <2>3. /\ t \in 1..Len(deps) - 1 /\ deps[t].status = "Succeeded"
        /\ \A w \in t + 1..Len(deps) - 1 : deps[w].status # "Succeeded"
        /\ swarm' = EffectiveReplicas(t)
    BY <1>5, <2>2, RollBackFinds
  <2>4. swarm' \in [Apps -> Counts]
    BY <2>1, <2>3, EffectiveReplicasAreCounts DEF TInv
  <2>5. /\ deps' \in Seq(Deps) /\ Len(deps') = Len(deps)
        /\ \A v \in 1..Len(deps) - 1 : deps'[v] = deps[v]
        /\ deps'[Len(deps)].status = "RolledBack"
    BY <1>5, SettleKeeps DEF RollBack
  <2>6. /\ \A v \in 1..Len(deps) - 1 : deps[v].status # "Active"
        /\ deps'[t].status = "Succeeded"
        /\ \A w \in t + 1..Len(deps) : deps'[w].status # "Succeeded"
    <3>1. \A v \in 1..Len(deps) - 1 : deps[v].status # "Active"
      BY DEF TInv, CurrentIsNewest
    <3>2. \A w \in t + 1..Len(deps) : w \in t + 1..Len(deps) - 1 \/ w = Len(deps)
      BY <2>1, <2>3
    <3>3. \A w \in t + 1..Len(deps) - 1 : w \in 1..Len(deps) - 1
      BY <2>1, <2>3
    <3> QED
      BY <2>3, <2>5, <3>1, <3>2, <3>3
  <2>7. CurrentIsNewest'
    BY <2>1, <2>2, <2>5, <2>6 DEF CurrentIsNewest
  <2> QED
    BY <1>5, <2>1, <2>2, <2>3, <2>4, <2>5, <2>7 DEF RollBack, TInv, Typed
<1>6. ASSUME Discard \/ Restore
      PROVE  \E S \in SUBSET Apps : deps[current].apps \in [S -> AppRows]
  <2>1. deps[current] \in Deps
    BY ElementOfSeq DEF TInv, Typed
  <2> QED
    BY <2>1 DEF Deps, Snapshots
<1>7. CASE Discard
  <2>1. deps[current] \in Deps
    BY ElementOfSeq DEF TInv, Typed
  <2>2. PICK S \in SUBSET Apps : deps[current].apps \in [S -> AppRows]
    BY <1>6, <1>7
  <2>3. app' \in Rows /\ running' \in BOOLEAN
    <3>1. app \in [Apps -> AppRows]
      BY DEF TInv, Typed, Rows, AppRows
    <3>2. \A a \in Apps : [app[a] EXCEPT !.pending = TRUE] \in AppRows
      BY <3>1 DEF AppRows
    <3>3. \A a \in Deployed : deps[current].apps[a] \in AppRows
      BY <2>2 DEF Deployed
    <3>4. app' \in [Apps -> AppRows]
      BY <1>7, <3>2, <3>3 DEF Discard
    <3> QED
      BY <1>7, <2>1, <3>4 DEF Discard, Rows, AppRows, Deps
  <2> QED
    BY <1>0, <1>7, <2>3 DEF Discard, TInv, Typed
<1>8. CASE Restore
  <2>1. PICK S \in SUBSET Apps : deps[current].apps \in [S -> AppRows]
    BY <1>6, <1>8
  <2>2. swarm' \in [Apps -> Counts]
    BY <1>8, <2>1 DEF Restore, RestoreReplicas, Deployed, DeployedReplicas, Counts, AppRows
  <2>3. undone' \in BOOLEAN
    BY <1>8, Zenon DEF Restore
  <2> QED
    BY <1>0, <1>8, <2>2, <2>3 DEF Restore, TInv, Typed
<1>9. ASSUME NEW a \in Apps, Edit(a) PROVE TInv' /\ op' = op
  <2>1. app \in [Apps -> AppRows]
    BY DEF TInv, Typed, Rows, AppRows
  <2>2. \A r \in AppRows : [app EXCEPT ![a] = r] \in [Apps -> AppRows]
    BY <2>1
  <2>3. ASSUME NEW n \in Replicas, app' = [app EXCEPT ![a].replicas = n]
        PROVE  app' \in [Apps -> AppRows]
    <3>1. app' = [app EXCEPT ![a] = [app[a] EXCEPT !.replicas = n]]
      BY <2>1, <2>3
    <3>2. [app[a] EXCEPT !.replicas = n] \in AppRows
      BY <2>1, <2>3 DEF AppRows
    <3> QED
      BY <3>1, <3>2, <2>2
  <2>4. ASSUME app' = [app EXCEPT ![a].pending = TRUE]
        PROVE  app' \in [Apps -> AppRows]
    <3>1. app' = [app EXCEPT ![a] = [app[a] EXCEPT !.pending = TRUE]]
      BY <2>1, <2>4
    <3>2. [app[a] EXCEPT !.pending = TRUE] \in AppRows
      BY <2>1 DEF AppRows
    <3> QED
      BY <3>1, <3>2, <2>2
  <2>5. app' \in Rows
    BY <1>9, <2>3, <2>4 DEF Edit, Rows, AppRows
  <2> QED
    BY <1>0, <1>9, <2>5 DEF Edit, TInv, Typed
<1> QED
  BY <1>1, <1>2, <1>3, <1>4, <1>5, <1>7, <1>8, <1>9

-----------------------------------------------------------------------------
(* Forced restarts *)

RestartInv == ForcedOnce /\ OneRestart

LEMMA RequestRestartInv ==
    ASSUME TInv, RestartInv, NEW type, NEW a, Requests(type, a),
           type = "AppRestart" => ~RestartOpen(a)
    PROVE  RestartInv'
<1>1. Len(op) \in Nat /\ Len(op') = Len(op) + 1
  BY LenProperties DEF TInv, Typed, Requests, Asks
<1>2. ForcedOnce'
  BY <1>1 DEF RestartInv, ForcedOnce, Requests, Asks, Open
<1>3. \A o \in OpenOps' : o = Len(op) + 1 \/ (o \in OpenOps /\ op'[o] = op[o])
  BY <1>1 DEF OpenOps, Requests, Asks
<1>4. op'[Len(op) + 1].type = type /\ op'[Len(op) + 1].app = a
  BY DEF Requests, Asks
<1>5. OneRestart'
  <2> SUFFICES ASSUME NEW o \in OpenOps', NEW p \in OpenOps', o # p,
                      op'[o].type = "AppRestart", op'[p].type = "AppRestart",
                      op'[o].app = op'[p].app
               PROVE  FALSE
    BY DEF OneRestart
  <2>1. CASE o \in OpenOps /\ p \in OpenOps
    BY <1>1, <1>3, <2>1 DEF OpenOps, RestartInv, OneRestart
  <2>2. CASE o = Len(op) + 1
    BY <1>3, <1>4, <2>2 DEF RestartOpen
  <2>3. CASE p = Len(op) + 1
    BY <1>3, <1>4, <2>3 DEF RestartOpen
  <2> QED
    BY <1>3, <2>1, <2>2, <2>3
<1> QED
  BY <1>2, <1>5 DEF RestartInv

LEMMA WorkRestartInv ==
    ASSUME RuntimeAssumption, TInv, RestartInv, NEW o \in 1..MaxOps,
           Load(o) \/ Finish(o) \/ Crash(o) \/ \E a \in Apps : Command(o, a)
    PROVE  RestartInv'
<1>1. Works(o) /\ op[o].phase \in Open
  BY LoadWorks, FinishWorks, CommandWorks DEF TInv, Open
<1>2. op[o] \in Ops
  BY <1>1, ElementOfSeq DEF TInv, Typed, Works
<1>3. OneRestart'
  BY <1>1 DEF RestartInv, OneRestart, OpenOps, Works
<1> DEFINE Once(q) == /\ q.forced <= 1
                      /\ q.phase = "Pending" => q.forced = 0
                      /\ q.phase = "Executing" =>
                           /\ DOMAIN q.targets \subseteq {q.app}
                           /\ DOMAIN q.targets # {} => q.forced = 0
<1>4. IF op[o].type # "AppRestart" THEN op[o].forced = 0 ELSE Once(op[o])
  BY <1>1 DEF RestartInv, ForcedOnce, Works
<1>5. IF op[o].type # "AppRestart" THEN op'[o].forced = 0 ELSE Once(op'[o])
  <2>1. CASE Load(o)
    <3>1. op'[o].forced = op[o].forced /\ op[o].phase = "Pending"
      BY <2>1, LoadWorks DEF TInv
    <3>2. op[o].type = "AppRestart" =>
            \/ op'[o].phase = "Failed"
            \/ op'[o].phase = "Executing" /\ DOMAIN op'[o].targets = {op[o].app}
      BY <2>1, LoadWorks DEF TInv, Targets
    <3> QED
      BY <1>1, <1>4, <3>1, <3>2 DEF Works
  <2>2. ASSUME NEW a \in Apps, Command(o, a)
        PROVE  IF op[o].type # "AppRestart" THEN op'[o].forced = 0 ELSE Once(op'[o])
    <3>1. /\ op[o].phase = "Executing" /\ op'[o].phase = "Executing"
          /\ a \in DOMAIN op[o].targets
          /\ DOMAIN op'[o].targets = DOMAIN op[o].targets \ {a}
          /\ op'[o].forced = op[o].forced
               \/ (op[o].type = "AppRestart" /\ op'[o].forced = op[o].forced + 1)
      BY <2>2, CommandWorks DEF TInv
    <3> QED
      BY <1>1, <1>2, <1>4, <3>1 DEF Works, Ops
  <2>3. CASE Finish(o) \/ Crash(o)
    <3>1. /\ op[o].phase = "Executing" /\ op'[o].phase # "Executing"
          /\ op'[o].phase = "Pending" => op[o].type # "AppRestart"
          /\ op'[o].forced = op[o].forced
      BY <2>3, FinishWorks DEF TInv, Retryable
    <3> QED
      BY <1>1, <1>4, <3>1 DEF Works
  <2> QED
    BY <2>1, <2>2, <2>3
<1>6. ForcedOnce'
  BY <1>1, <1>5 DEF RestartInv, ForcedOnce, Works
<1> QED
  BY <1>3, <1>6 DEF RestartInv

-----------------------------------------------------------------------------
(* Stops *)

LEMMA RequestStopInv ==
    ASSUME TInv, StopInv, NEW type, NEW b, Requests(type, b),
           \A a \in Apps : Stopped(a)' =>
               Stopped(a) \/ type = "GroupStop" \/ (type = "AppStop" /\ b = a)
    PROVE  StopInv'
<1> SUFFICES ASSUME ~undone
             PROVE  /\ ActiveMatchesRows' /\ ServicesAreDeployed' /\ TargetsAreOfType'
                    /\ Workers = 1 => OneExecutes' /\ StoppedGoDown'
  BY DEF StopInv, Requests, Asks
<1>1. /\ Len(op) \in Nat /\ Len(op') = Len(op) + 1
      /\ \A p \in 1..Len(op) : op'[p] = op[p]
      /\ op'[Len(op) + 1].phase = "Pending" /\ DOMAIN op'[Len(op) + 1].targets = {}
      /\ op'[Len(op) + 1].type = type /\ op'[Len(op) + 1].app = b
  BY LenProperties DEF TInv, Typed, Requests, Asks
<1>2. ActiveMatchesRows' /\ ServicesAreDeployed'
  BY DEF StopInv, ActiveMatchesRows, ServicesAreDeployed, Deployed, ActiveDeployment, Requests
<1>3. TargetsAreOfType'
  BY <1>1 DEF StopInv, TargetsAreOfType
<1>4. ASSUME Workers = 1 PROVE OneExecutes' /\ StoppedGoDown'
  <2>1. OneExecutes'
    BY <1>1, <1>4 DEF StopInv, OneExecutes
  <2>2. ASSUME NEW a \in Apps, Down(a) PROVE Down(a)'
    BY <1>1, <2>2 DEF Down, Requests
  <2>3. ASSUME NEW a \in Apps, Owed(a) PROVE Owed(a)'
    BY <1>1, <2>3 DEF Owed, Stops
  <2>4. ASSUME NEW a \in Apps, type = "GroupStop" \/ (type = "AppStop" /\ b = a)
        PROVE  Owed(a)'
    BY <1>1, <2>4 DEF Owed, Stops
  <2>5. StoppedGoDown'
    BY <1>4, <2>2, <2>3, <2>4 DEF StopInv, StoppedGoDown
  <2> QED
    BY <2>1, <2>5
<1> QED
  BY <1>2, <1>3, <1>4

\* With one worker nothing executes when an Operation begins.
LEMMA LoadAlone ==
    ASSUME TInv, Workers = 1, NEW o, Load(o)
    PROVE  \A p \in 1..Len(op) : op[p].phase # "Executing"
<1> DEFINE E == {x \in OpenOps : op[x].phase = "Executing"}
<1>1. Len(op) \in Nat
  BY LenProperties DEF TInv, Typed
<1>2. IsFiniteSet(1..Len(op)) /\ E \subseteq 1..Len(op)
  BY <1>1, FS_Interval DEF OpenOps
<1>3. IsFiniteSet(E) /\ Cardinality(E) \in Nat /\ Cardinality(E) < 1
  BY <1>2, FS_Subset, FS_CardinalityType DEF Load
<1>4. E = {}
  BY <1>3, FS_EmptySet
<1> QED
  BY <1>4 DEF OpenOps, Open

\* A stopped app gets no replicas, and a stop takes down every service deployed.
LEMMA TargetsOfStopped ==
    ASSUME NEW o, NEW a, a \in DOMAIN Targets(o)
    PROVE  /\ op[o].type \in {"GroupStop", "AppStop"} => Targets(o)[a] = 0
           /\ op[o].type \in {"GroupRestart", "AppRestart"} => Targets(o)[a] = None
           /\ Stopped(a) => Targets(o)[a] \in {0, None}
  BY DEF Targets, Target, Groups, Stopped, Runs

LEMMA WorkStopFrame ==
    ASSUME RuntimeAssumption, TInv, StopInv, ~undone, NEW o \in 1..MaxOps,
           Load(o) \/ Finish(o) \/ Crash(o) \/ \E a \in Apps : Command(o, a)
    PROVE  ActiveMatchesRows' /\ ServicesAreDeployed' /\ TargetsAreOfType'
<1>1. Works(o) /\ \A a \in Apps : swarm[a] = None <=> swarm'[a] = None
  BY LoadWorks, FinishWorks, CommandWorks DEF TInv
<1>2. ActiveMatchesRows' /\ ServicesAreDeployed'
  BY <1>1 DEF StopInv, ActiveMatchesRows, ServicesAreDeployed, Deployed, ActiveDeployment, Works
<1> DEFINE Good(q) == /\ q.type \in {"GroupStop", "AppStop"} =>
                           \A a \in DOMAIN q.targets : q.targets[a] = 0
                      /\ q.type \in {"GroupRestart", "AppRestart"} =>
                           \A a \in DOMAIN q.targets : q.targets[a] = None
<1>3. Good(op[o])
  BY <1>1 DEF StopInv, TargetsAreOfType, Works
<1>4. Good(op'[o])
  <2>1. CASE Load(o)
    <3>1. CASE RestartRefused(o)
      BY <1>1, <1>3, <2>1, <3>1, LoadWorks DEF TInv, Works
    <3>2. CASE ~RestartRefused(o)
      <4>1. op'[o].targets = Targets(o) /\ op'[o].type = op[o].type
        BY <1>1, <2>1, <3>2, LoadWorks DEF TInv, Works
      <4>2. \A a \in DOMAIN Targets(o) :
              /\ op[o].type \in {"GroupStop", "AppStop"} => Targets(o)[a] = 0
              /\ op[o].type \in {"GroupRestart", "AppRestart"} => Targets(o)[a] = None
        BY TargetsOfStopped
      <4> QED
        BY <4>1, <4>2
    <3> QED
      BY <3>1, <3>2
  <2>2. ASSUME NEW a \in Apps, Command(o, a) PROVE Good(op'[o])
    BY <1>1, <1>3, <2>2, CommandWorks DEF TInv, Works
  <2>3. CASE Finish(o) \/ Crash(o)
    BY <1>1, <1>3, <2>3, FinishWorks DEF TInv, Works
  <2> QED
    BY <2>1, <2>2, <2>3
<1>5. TargetsAreOfType'
  BY <1>1, <1>4 DEF StopInv, TargetsAreOfType, Works
<1> QED
  BY <1>2, <1>5

LEMMA WorkOneExecutes ==
    ASSUME RuntimeAssumption, TInv, OneExecutes, Workers = 1, NEW o \in 1..MaxOps,
           Load(o) \/ Finish(o) \/ Crash(o) \/ \E a \in Apps : Command(o, a)
    PROVE  OneExecutes'
<1>1. Works(o)
  BY LoadWorks, FinishWorks, CommandWorks DEF TInv
<1>2. CASE Load(o)
  BY <1>1, <1>2, LoadAlone DEF OneExecutes, Works
<1>3. CASE ~Load(o)
  <2>1. op[o].phase = "Executing"
    BY <1>3, FinishWorks, CommandWorks DEF TInv
  <2> QED
    BY <1>1, <2>1 DEF OneExecutes, Works
<1> QED
  BY <1>2, <1>3

LEMMA WorkStoppedGoDown ==
    ASSUME RuntimeAssumption, TInv, StopInv, ~undone, Workers = 1, NEW o \in 1..MaxOps,
           Load(o) \/ Finish(o) \/ Crash(o) \/ \E b \in Apps : Command(o, b)
    PROVE  StoppedGoDown'
<1> SUFFICES ASSUME NEW a \in Apps, Stopped(a) PROVE Down(a)' \/ Owed(a)'
  <2>1. \A a \in Apps : Stopped(a)' <=> Stopped(a)
    BY LoadWorks, FinishWorks, CommandWorks DEF TInv, Works, Stopped
  <2> QED
    BY <2>1 DEF StoppedGoDown
<1>1. Works(o) /\ OneExecutes /\ OneExecutes' /\ (Down(a) \/ Owed(a))
  BY WorkOneExecutes, LoadWorks, FinishWorks, CommandWorks
     DEF TInv, StopInv, StoppedGoDown
\* An Operation that was owed and is not the one that works is owed still.
<1>2. ASSUME NEW p \in 1..Len(op), p # o, Stops(p, a),
             \/ op[p].phase \in {"Pending", "Failed"}
             \/ op[p].phase = "Executing" /\ (op[p].failed \/ a \in DOMAIN op[p].targets)
      PROVE  Owed(a)'
  <2>1. op'[p] = op[p] /\ p \in 1..Len(op')
    BY <1>1, <1>2 DEF Works
  <2> QED
    BY <1>2, <2>1 DEF Owed, Stops
<1>3. Stops(o, a)' <=> Stops(o, a)
  BY <1>1 DEF Works, Stops
<1>4. CASE Load(o)
  <2>1. /\ op[o].phase = "Pending" /\ swarm' = swarm
        /\ \/ op'[o].phase = "Failed"
           \/ op'[o].phase = "Executing" /\ op'[o].targets = Targets(o)
    BY <1>4, LoadWorks DEF TInv
  <2>2. \A p \in 1..Len(op) : op'[p].phase = "Executing" => p = o
    BY <1>1, <1>4, LoadAlone DEF Works
  <2>3. a \in DOMAIN Targets(o) => Targets(o)[a] \in {0, None}
    BY TargetsOfStopped
  <2>4. CASE Down(a)
    BY <1>1, <2>1, <2>2, <2>3, <2>4 DEF Down, Works
  <2>5. CASE Stops(o, a)
    <3>1. CASE op'[o].phase = "Failed"
      BY <1>1, <1>3, <2>5, <3>1 DEF Owed, Works
    <3>2. CASE op'[o].phase = "Executing" /\ op'[o].targets = Targets(o)
      <4>1. CASE a \in Deployed
        <5>1. a \in DOMAIN Targets(o)
          BY <2>5, <4>1 DEF Targets, Stops, Groups
        <5> QED
          BY <1>1, <1>3, <2>5, <3>2, <5>1 DEF Owed, Works
      <4>2. CASE a \notin Deployed
        <5>1. a \notin DOMAIN Targets(o) /\ swarm[a] = None
          BY <2>5, <4>2 DEF Targets, Stops, Groups, StopInv, ServicesAreDeployed
        <5> QED
          BY <1>1, <2>1, <2>2, <3>2, <5>1 DEF Down, Works
      <4> QED
        BY <4>1, <4>2
    <3> QED
      BY <2>1, <3>1, <3>2
  <2> QED
    BY <1>1, <1>2, <2>4, <2>5 DEF Owed
<1>5. ASSUME NEW b \in Apps, Command(o, b) PROVE Down(a)' \/ Owed(a)'
  <2>1. /\ op[o].phase = "Executing" /\ op'[o].phase = "Executing"
        /\ b \in DOMAIN op[o].targets
        /\ DOMAIN op'[o].targets = DOMAIN op[o].targets \ {b}
        /\ \A x \in DOMAIN op'[o].targets : op'[o].targets[x] = op[o].targets[x]
        /\ op[o].failed => op'[o].failed
        /\ \A x \in Apps \ {b} : swarm'[x] = swarm[x]
        /\ swarm'[b] = swarm[b] \/ (swarm'[b] = op[o].targets[b] /\ op[o].targets[b] # None)
        /\ op'[o].failed \/ op[o].targets[b] = None \/ swarm'[b] = op[o].targets[b]
    BY <1>5, CommandWorks DEF TInv
  <2>2. \A p \in 1..Len(op) : op'[p].phase = "Executing" => p = o
    BY <1>1, <2>1 DEF OneExecutes, Works
  <2>3. CASE Down(a)
    <3>1. swarm'[a] \in {0, None}
      BY <1>1, <2>1, <2>3 DEF Down, Works
    <3> QED
      BY <1>1, <2>1, <2>2, <2>3, <3>1 DEF Down, Works
  <2>4. CASE Stops(o, a) /\ (op[o].failed \/ a \in DOMAIN op[o].targets)
    <3>1. CASE op'[o].failed \/ a \in DOMAIN op'[o].targets
      BY <1>1, <1>3, <2>1, <2>4, <3>1 DEF Owed, Works
    <3>2. CASE ~op'[o].failed /\ a \notin DOMAIN op'[o].targets
      <4>1. a = b /\ op[o].targets[a] = 0
        BY <1>1, <2>1, <2>4, <3>2 DEF StopInv, TargetsAreOfType, Stops, Works
      <4>2. swarm'[a] \in {0, None}
        BY <2>1, <3>2, <4>1 DEF RuntimeAssumption
      <4> QED
        BY <1>1, <2>2, <3>2, <4>2 DEF Down, Works
    <3> QED
      BY <3>1, <3>2
  <2> QED
    BY <1>1, <1>2, <2>1, <2>3, <2>4 DEF Owed
<1>6. CASE Finish(o) \/ Crash(o)
  <2>1. /\ op[o].phase = "Executing" /\ swarm' = swarm /\ op'[o].targets = op[o].targets
        /\ \/ op'[o].phase \in {"Pending", "Failed"}
           \/ op'[o].phase = "Succeeded" /\ DOMAIN op[o].targets = {} /\ ~op[o].failed
    BY <1>6, FinishWorks DEF TInv
  <2>2. CASE Down(a)
    BY <1>1, <2>1, <2>2 DEF Down, Works
  <2>3. CASE Stops(o, a) /\ (op[o].failed \/ a \in DOMAIN op[o].targets)
    BY <1>1, <1>3, <2>1, <2>3 DEF Owed, Works
  <2> QED
    BY <1>1, <1>2, <2>1, <2>2, <2>3 DEF Owed
<1> QED
  BY <1>4, <1>5, <1>6

\* What a step that leaves the Operations alone has to keep.
LEMMA OtherStoppedGoDown ==
    ASSUME StoppedGoDown, op' = op,
           \A a \in Apps : Stopped(a)' =>
               \/ Stopped(a) /\ swarm'[a] = swarm[a]
               \/ swarm'[a] \in {0, None} /\ (Stopped(a) \/ OpenOps = {})
    PROVE  StoppedGoDown'
<1> SUFFICES ASSUME NEW a \in Apps, Stopped(a)' PROVE Down(a)' \/ Owed(a)'
  BY DEF StoppedGoDown
<1>1. Owed(a) => Owed(a)'
  BY DEF Owed, Stops
<1>2. Down(a) /\ (swarm'[a] = swarm[a] \/ swarm'[a] \in {0, None}) => Down(a)'
  BY DEF Down
<1>3. OpenOps = {} /\ swarm'[a] \in {0, None} => Down(a)'
  BY DEF Down, OpenOps, Open
<1> QED
  BY <1>1, <1>2, <1>3 DEF StoppedGoDown

LEMMA EffectiveReplicasOfStopped ==
    ASSUME RuntimeAssumption, Typed, NEW v \in 1..Len(deps), NEW a \in Apps
    PROVE  /\ EffectiveReplicas(v)[a] = None <=> a \notin DOMAIN deps[v].apps
           /\ a \in DOMAIN deps[v].apps /\ ~(deps[v].run /\ deps[v].apps[a].run) =>
                EffectiveReplicas(v)[a] = 0
           /\ a \in DOMAIN deps[v].apps /\ deps[v].run /\ deps[v].apps[a].run =>
                EffectiveReplicas(v)[a] = deps[v].apps[a].replicas
<1>1. deps[v] \in Deps
  BY ElementOfSeq DEF Typed
<1>2. PICK S \in SUBSET Apps : deps[v].apps \in [S -> AppRows]
  BY <1>1 DEF Deps, Snapshots
<1>3. a \in DOMAIN deps[v].apps => deps[v].apps[a].replicas # None
  BY <1>2 DEF AppRows, RuntimeAssumption
<1> QED
  BY <1>3 DEF EffectiveReplicas, RuntimeAssumption

\* An edit of the draft changes no runtime state.
LEMMA EditKeeps ==
    ASSUME RuntimeAssumption, Typed, NEW a \in Apps, Edit(a)
    PROVE  \A x \in Apps : app'[x].run = app[x].run /\ (app[x].pending => app'[x].pending)
  BY DEF Edit, Typed, Rows

LEMMA OtherStopInv ==
    ASSUME RuntimeAssumption, TInv, TInv', StopInv,
           \/ Check \/ Block \/ Deploy \/ Succeed \/ RollBack \/ Discard \/ Restore
           \/ \E a \in Apps : Edit(a)
    PROVE  StopInv'
<1>1. CASE RollBack \/ Discard
  BY <1>1 DEF RollBack, Discard, StopInv
<1>2. CASE ~(RollBack \/ Discard)
  <2>1. SUFFICES ASSUME ~undone'
                 PROVE  /\ ActiveMatchesRows' /\ ServicesAreDeployed' /\ TargetsAreOfType'
                        /\ Workers = 1 => OneExecutes' /\ StoppedGoDown'
    BY DEF StopInv
  <2>2. ~undone /\ op' = op /\ running' = running
    <3>1. op' = op /\ running' = running /\ (undone' = undone \/ Restore)
      BY <1>2 DEF Check, Block, Deploy, Succeed, Restore, Edit
    <3>2. ASSUME Restore PROVE ~undone
      <4>1. undone' = (undone \/ blocked)
        BY <3>2 DEF Restore
      <4> QED
        BY <2>1, <4>1, Zenon
    <3> QED
      BY <2>1, <3>1, <3>2
  <2>3. /\ ActiveMatchesRows /\ ServicesAreDeployed /\ TargetsAreOfType
        /\ Workers = 1 => OneExecutes /\ StoppedGoDown
    BY <2>2 DEF StopInv
  <2>4. TargetsAreOfType' /\ (Workers = 1 => OneExecutes')
    BY <2>2, <2>3 DEF TargetsAreOfType, OneExecutes
  <2>5. CASE Check \/ Block \/ \E a \in Apps : Edit(a)
    <3>1. UNCHANGED <<deps, current, swarm>> /\ \A a \in Apps : app'[a].run = app[a].run
      BY <2>5, EditKeeps DEF Check, Block, Edit, TInv
    <3>2. ActiveMatchesRows'
      <4>1. ASSUME ActiveDeployment PROVE DOMAIN deps[Len(deps)].apps \subseteq Apps
        <5>1. deps[Len(deps)] \in Deps
          BY <4>1, ActiveIsNewest, ElementOfSeq
        <5> QED
          BY <5>1 DEF Deps, Snapshots
      <4> QED
        BY <2>2, <2>3, <3>1, <4>1 DEF ActiveMatchesRows, ActiveDeployment
    <3>3. ServicesAreDeployed'
      BY <2>3, <3>1 DEF ServicesAreDeployed, Deployed
    <3>4. Workers = 1 => StoppedGoDown'
      BY <2>2, <2>3, <3>1, OtherStoppedGoDown DEF Stopped
    <3> QED
      BY <2>4, <3>2, <3>3, <3>4
  <2>6. CASE Deploy
    <3>1. /\ app' = app /\ swarm' = swarm /\ current' = current
          /\ Len(deps') = Len(deps) + 1 /\ current \in 1..Len(deps)
          /\ deps'[current] = deps[current]
          /\ deps'[Len(deps')] = [run |-> running, apps |-> Snapshot, status |-> "Active"]
      BY <2>6, DeployAdds DEF Deploy, TInv, Typed
    <3>2. ActiveMatchesRows'
      BY <2>2, <3>1 DEF ActiveMatchesRows, Snapshot
    <3>3. ServicesAreDeployed'
      BY <2>3, <3>1 DEF ServicesAreDeployed, Deployed
    <3>4. Workers = 1 => StoppedGoDown'
      BY <2>2, <2>3, <3>1, OtherStoppedGoDown DEF Stopped
    <3> QED
      BY <2>4, <3>2, <3>3, <3>4
  <2>7. CASE Succeed
    <3>1. /\ app' = app /\ Len(deps) \in 1..MaxVersion /\ ActiveDeployment
          /\ swarm' = EffectiveReplicas(Len(deps)) /\ current' = Len(deps)
          /\ deps'[Len(deps)].apps = deps[Len(deps)].apps
      BY <2>7, SettleKeeps, ActiveIsNewest DEF Succeed
    <3>2. ActiveMatchesRows'
      <4>1. /\ \A v \in 1..Len(deps) - 1 : deps'[v].status # "Active"
            /\ deps'[Len(deps)].status = "Succeeded" /\ Len(deps') = Len(deps)
        BY <2>7, SettleKeeps DEF Succeed, TInv, CurrentIsNewest
      <4> QED
        BY <3>1, <4>1 DEF ActiveDeployment, ActiveMatchesRows
    <3>3. ServicesAreDeployed'
      BY <3>1, EffectiveReplicasOfStopped DEF ServicesAreDeployed, Deployed, TInv
    <3>4. \A a \in Apps : Stopped(a) => swarm'[a] \in {0, None}
      BY <2>3, <3>1, EffectiveReplicasOfStopped DEF ActiveMatchesRows, TInv, Stopped
    <3>5. Workers = 1 => StoppedGoDown'
      BY <2>2, <2>3, <3>1, <3>4, OtherStoppedGoDown DEF Stopped
    <3> QED
      BY <2>4, <3>2, <3>3, <3>5
  <2>8. CASE Restore
    <3>1. /\ UNCHANGED <<app, deps, current>> /\ OpenOps = {} /\ ~blocked
          /\ swarm' = RestoreReplicas
      BY <2>1, <2>8 DEF Restore
    <3>2. \A a \in Apps : /\ swarm'[a] = None <=> a \notin Deployed
                          /\ Stopped(a) => swarm'[a] \in {0, None}
      <4>1. deps[current] \in Deps
        BY ElementOfSeq DEF TInv, Typed
      <4>2. PICK S \in SUBSET Apps : deps[current].apps \in [S -> AppRows]
        BY <4>1 DEF Deps, Snapshots
      <4>3. \A a \in Deployed : DeployedReplicas(a) # None
        BY <4>2 DEF Deployed, DeployedReplicas, AppRows, RuntimeAssumption
      <4> QED
        BY <3>1, <4>3 DEF RestoreReplicas, Stopped, Runs, RuntimeAssumption
    <3>3. ActiveMatchesRows' /\ ServicesAreDeployed'
      BY <2>2, <2>3, <3>1, <3>2
         DEF ActiveMatchesRows, ActiveDeployment, ServicesAreDeployed, Deployed
    <3>4. Workers = 1 => StoppedGoDown'
      BY <2>2, <2>3, <3>1, <3>2, OtherStoppedGoDown DEF Stopped
    <3> QED
      BY <2>4, <3>3, <3>4
  <2> QED
    BY <1>2, <2>5, <2>6, <2>7, <2>8
<1> QED
  BY <1>1, <1>2

-----------------------------------------------------------------------------
(* Requests that do not overlap *)

LEMMA DeployedRows ==
    ASSUME Typed
    PROVE  Deployed \subseteq Apps /\ \A a \in Deployed : deps[current].apps[a] \in AppRows
<1>1. deps[current] \in Deps
  BY ElementOfSeq DEF Typed
<1>2. PICK S \in SUBSET Apps : deps[current].apps \in [S -> AppRows]
  BY <1>1 DEF Deps, Snapshots
<1> QED
  BY <1>2 DEF Deployed

LEMMA RequestSettledInv ==
    ASSUME TInv, SettledInv, NEW type, NEW b, Requests(type, b),
           \A a \in Apps : type = "GroupStop" \/ (type = "AppStop" /\ b = a) => Stopped(a)',
           \A a \in Apps : app'[a].pending = app[a].pending,
           \A a \in Apps : \/ running' = running /\ app'[a].run = app[a].run
                           \/ type \in {"GroupStart", "GroupStop"}
                           \/ type \in {"AppStart", "AppStop"} /\ b = a
    PROVE  SettledInv'
<1>1. SUFFICES ASSUME ~undone', ~overlapped'
               PROVE  OneIsOpen' /\ OpenIsWanted' /\ TargetsAreWanted' /\ RunningAsWanted'
  BY DEF SettledInv
<1>2. ~undone /\ ~overlapped /\ OpenOps = {}
  <2>1. undone' = undone /\ overlapped' = (overlapped \/ OpenOps # {})
    BY DEF Requests, Asks
  <2> QED
    BY <1>1, <2>1, Zenon
<1>3. /\ Len(op) \in Nat /\ Len(op') = Len(op) + 1
      /\ \A p \in 1..Len(op) : op'[p] = op[p] /\ op[p].phase \notin Open
      /\ op'[Len(op) + 1].phase = "Pending"
      /\ op'[Len(op) + 1].type = type /\ op'[Len(op) + 1].app = b
  BY <1>2, LenProperties DEF TInv, Typed, Requests, Asks, OpenOps
<1>4. \A p \in OpenOps' : p = Len(op) + 1
  BY <1>3 DEF OpenOps
<1>5. OneIsOpen'
  BY <1>4 DEF OneIsOpen, ActiveDeployment, Requests
<1>6. OpenIsWanted'
  BY <1>3, <1>4 DEF OpenIsWanted, Stops
<1>7. TargetsAreWanted'
  BY <1>3 DEF TargetsAreWanted, Open
<1>8. ASSUME NEW a \in Deployed, ~app'[a].pending
      PROVE  swarm'[a] = Wanted(a)' \/ Due(a)'
  <2>1. a \in Apps /\ ~app[a].pending
    BY <1>8, DeployedRows DEF TInv
  <2>2. Due(a) => Due(a)'
    BY <1>3 DEF Due, Covers
  <2>3. CASE running' = running /\ app'[a].run = app[a].run
    <3>1. Wanted(a)' = Wanted(a) /\ swarm' = swarm
      BY <2>3 DEF Wanted, Requests
    <3> QED
      BY <1>2, <2>1, <2>2, <3>1 DEF SettledInv, RunningAsWanted
  <2>4. CASE type \in {"GroupStart", "GroupStop"} \/ (type \in {"AppStart", "AppStop"} /\ b = a)
    BY <1>3, <2>4 DEF Due, Covers
  <2> QED
    BY <2>1, <2>3, <2>4
<1>9. RunningAsWanted'
  BY <1>8 DEF RunningAsWanted, Requests, Deployed
<1> QED
  BY <1>5, <1>6, <1>7, <1>9

\* A start or stop of a group asks every service for what is wanted of it, and that
\* of a SingleApp its own.
LEMMA TargetsOfWanted ==
    ASSUME OpenIsWanted, NEW o \in OpenOps, op[o].type \in Groups \cup {"AppStart", "AppStop"},
           op[o].type # "GroupRestart", NEW a \in Deployed, a \in Apps
    PROVE  /\ a \in DOMAIN Targets(o) <=> Covers(o, a)
           /\ Covers(o, a) /\ ~app[a].pending => Targets(o)[a] = Wanted(a)
<1>1. a \in DOMAIN Targets(o) <=> Covers(o, a)
  BY DEF Targets, Covers, Groups
<1>2. ASSUME Covers(o, a), ~app[a].pending PROVE Targets(o)[a] = Wanted(a)
  <2>1. Targets(o)[a] = Target(op[o].type, a)
    BY <1>2 DEF Targets, Covers, Groups
  <2>2. op[o].type \in {"GroupStop", "AppStop"} => ~(running /\ app[a].run)
    BY <1>2 DEF OpenIsWanted, Covers, Stops, Stopped
  <2> QED
    BY <1>2, <2>1, <2>2 DEF Target, Runs, Wanted, DeployedReplicas
<1> QED
  BY <1>1, <1>2

LEMMA WorkSettledInv ==
    ASSUME RuntimeAssumption, TInv, StopInv, SettledInv, NEW o \in 1..MaxOps,
           Load(o) \/ Finish(o) \/ Crash(o) \/ \E b \in Apps : Command(o, b)
    PROVE  SettledInv'
<1>1. Works(o) /\ op[o].phase \in Open
  BY LoadWorks, FinishWorks, CommandWorks DEF TInv, Open
<1>2. SUFFICES ASSUME ~undone, ~overlapped
               PROVE  OneIsOpen' /\ OpenIsWanted' /\ TargetsAreWanted' /\ RunningAsWanted'
  BY <1>1 DEF SettledInv, Works
<1>3. OneIsOpen /\ OpenIsWanted /\ TargetsAreWanted /\ RunningAsWanted /\ TargetsAreOfType
  BY <1>2 DEF SettledInv, StopInv
<1>4. /\ o \in OpenOps /\ op[o] \in Ops /\ ~ActiveDeployment
      /\ \A p \in 1..Len(op) : p = o \/ (op[p].phase \notin Open /\ op'[p] = op[p])
  BY <1>1, <1>3, ElementOfSeq DEF TInv, Typed, Works, OpenOps, OneIsOpen
<1>5. OneIsOpen' /\ OpenIsWanted'
  BY <1>1, <1>3, <1>4 DEF OneIsOpen, OpenIsWanted, OpenOps, ActiveDeployment, Works, Stops, Stopped
<1>6. \A a : (Covers(o, a)' <=> Covers(o, a)) /\ Wanted(a)' = Wanted(a)
  BY <1>1 DEF Covers, Wanted, Works
<1>7. ASSUME op'[o].phase = "Executing" /\ op'[o].type \notin {"GroupRestart", "AppRestart"} =>
               \A a \in DOMAIN op'[o].targets :
                   /\ Covers(o, a)
                   /\ ~app[a].pending => op'[o].targets[a] = Wanted(a)
      PROVE  TargetsAreWanted'
  BY <1>1, <1>4, <1>6, <1>7 DEF TargetsAreWanted, Works, Open
<1>8. ASSUME NEW a \in Deployed, ~app[a].pending, swarm'[a] = swarm[a],
             \/ op'[o].phase = "Failed"
             \/ op'[o].phase = "Pending"
             \/ op'[o].phase = "Executing" /\ (op'[o].failed \/ a \in DOMAIN op'[o].targets)
             \/ ~Covers(o, a)
             \/ op[o].phase = "Executing" /\ ~op[o].failed /\ a \notin DOMAIN op[o].targets
      PROVE  swarm'[a] = Wanted(a) \/ Due(a)'
  <2>1. CASE swarm[a] = Wanted(a)
    BY <1>8, <2>1
  <2>2. ASSUME NEW p \in 1..Len(op), op[p].phase = "Failed" PROVE Due(a)'
    BY <1>1, <1>4, <2>2 DEF Due, Works, Open
  <2>3. CASE /\ Covers(o, a)
             /\ op[o].phase = "Executing" => op[o].failed \/ a \in DOMAIN op[o].targets
    BY <1>1, <1>6, <1>8, <2>3 DEF Due, Works
  <2> QED
    BY <1>3, <1>4, <1>8, <2>1, <2>2, <2>3 DEF RunningAsWanted, Due, Open
<1>9. ASSUME \A a \in Deployed : ~app[a].pending => swarm'[a] = Wanted(a) \/ Due(a)'
      PROVE  RunningAsWanted'
  BY <1>1, <1>6, <1>9 DEF RunningAsWanted, Works, Deployed
<1>10. CASE Load(o)
  <2>1. /\ swarm' = swarm /\ op[o].phase = "Pending"
        /\ \/ op'[o].phase = "Failed"
           \/ op'[o].phase = "Executing" /\ op'[o].targets = Targets(o)
    BY <1>10, LoadWorks DEF TInv
  <2>2. DOMAIN Targets(o) \subseteq Deployed \/ op[o].type = "AppRestart"
    BY DEF Targets
  <2>3. op[o].type \notin {"GroupRestart", "AppRestart"} =>
          \A a \in Deployed : /\ a \in DOMAIN Targets(o) <=> Covers(o, a)
                              /\ Covers(o, a) /\ ~app[a].pending => Targets(o)[a] = Wanted(a)
    BY <1>3, <1>4, TargetsOfWanted, DeployedRows DEF Ops, TInv
  <2>4. TargetsAreWanted'
    BY <1>7, <2>1, <2>2, <2>3, <1>1 DEF Works
  <2>5. \A a : Covers(o, a) => op[o].type \notin {"GroupRestart", "AppRestart"}
    BY DEF Covers
  <2>6. RunningAsWanted'
    BY <1>8, <1>9, <2>1, <2>3, <2>5
  <2> QED
    BY <1>5, <2>4, <2>6
<1>11. ASSUME NEW b \in Apps, Command(o, b) PROVE TargetsAreWanted' /\ RunningAsWanted'
  <2>1. /\ op[o].phase = "Executing" /\ op'[o].phase = "Executing"
        /\ b \in DOMAIN op[o].targets
        /\ DOMAIN op'[o].targets = DOMAIN op[o].targets \ {b}
        /\ \A x \in DOMAIN op'[o].targets : op'[o].targets[x] = op[o].targets[x]
        /\ op[o].failed => op'[o].failed
        /\ \A x \in Apps \ {b} : swarm'[x] = swarm[x]
        /\ swarm'[b] = swarm[b] \/ (swarm'[b] = op[o].targets[b] /\ op[o].targets[b] # None)
        /\ op'[o].failed \/ op[o].targets[b] = None \/ swarm'[b] = op[o].targets[b]
    BY <1>11, CommandWorks DEF TInv
  <2>2. op[o].type \notin {"GroupRestart", "AppRestart"} =>
          \A a \in DOMAIN op[o].targets :
              Covers(o, a) /\ (~app[a].pending => op[o].targets[a] = Wanted(a))
    BY <1>1, <1>3, <2>1 DEF TargetsAreWanted, Works
  <2>3. TargetsAreWanted'
    BY <1>1, <1>7, <2>1, <2>2 DEF Works
  <2>4. ASSUME NEW a \in Deployed, ~app[a].pending
        PROVE  swarm'[a] = Wanted(a) \/ Due(a)'
    <3>1. a \in Apps /\ Wanted(a) # None
      <4>1. a \in Apps /\ deps[current].apps[a] \in AppRows
        BY DeployedRows DEF TInv
      <4>2. Wanted(a) \in Nat
        BY <4>1 DEF AppRows, Wanted, RuntimeAssumption
      <4> QED
        BY <4>1, <4>2 DEF RuntimeAssumption
    <3>2. CASE a # b
      BY <1>8, <2>1, <2>4, <3>1, <3>2
    <3>3. CASE a = b /\ op[o].type \in {"GroupRestart", "AppRestart"}
      <4>1. op[o].targets[b] = None
        BY <1>1, <1>3, <2>1, <3>3 DEF TargetsAreOfType, Works
      <4>2. ~Covers(o, a)
        BY <3>3 DEF Covers
      <4> QED
        BY <1>8, <2>1, <2>4, <3>3, <4>1, <4>2
    <3>4. CASE a = b /\ op[o].type \notin {"GroupRestart", "AppRestart"}
      <4>1. Covers(o, a) /\ op[o].targets[a] = Wanted(a)
        BY <2>1, <2>2, <2>4, <3>4
      <4>2. op'[o].failed => Due(a)'
        BY <1>1, <1>6, <2>1, <4>1 DEF Due, Works
      <4> QED
        BY <2>1, <3>1, <3>4, <4>1, <4>2
    <3> QED
      BY <3>2, <3>3, <3>4
  <2> QED
    BY <1>9, <2>3, <2>4
<1>12. CASE Finish(o) \/ Crash(o)
  <2>1. /\ op[o].phase = "Executing" /\ swarm' = swarm
        /\ \/ op'[o].phase \in {"Pending", "Failed"}
           \/ op'[o].phase = "Succeeded" /\ DOMAIN op[o].targets = {} /\ ~op[o].failed
    BY <1>12, FinishWorks DEF TInv
  <2>2. TargetsAreWanted'
    BY <1>7, <2>1
  <2>3. RunningAsWanted'
    BY <1>8, <1>9, <2>1
  <2> QED
    BY <1>5, <2>2, <2>3
<1> QED
  BY <1>5, <1>10, <1>11, <1>12

LEMMA OtherSettledInv ==
    ASSUME RuntimeAssumption, TInv, StopInv, SettledInv,
           \/ Check \/ Block \/ Deploy \/ Succeed \/ RollBack \/ Discard \/ Restore
           \/ \E a \in Apps : Edit(a)
    PROVE  SettledInv'
<1>1. SUFFICES ASSUME ~undone', ~overlapped'
               PROVE  OneIsOpen' /\ OpenIsWanted' /\ TargetsAreWanted' /\ RunningAsWanted'
  BY DEF SettledInv
<1>2. ~(RollBack \/ Discard) /\ op' = op /\ running' = running
  BY <1>1 DEF Check, Block, Deploy, Succeed, RollBack, Discard, Restore, Edit
<1>3. ~undone
  <2>1. undone' = undone \/ Restore
    BY <1>2 DEF Check, Block, Deploy, Succeed, Edit
  <2>2. ASSUME Restore PROVE ~undone
    <3>1. undone' = (undone \/ blocked)
      BY <2>2 DEF Restore
    <3> QED
      BY <1>1, <3>1, Zenon
  <2> QED
    BY <1>1, <2>1, <2>2
<1>4. ~overlapped /\ (Deploy => OpenOps = {})
  <2>1. overlapped' = overlapped \/ Deploy
    BY <1>2 DEF Check, Block, Succeed, Restore, Edit
  <2>2. ASSUME Deploy PROVE ~overlapped /\ OpenOps = {}
    <3>1. overlapped' = (overlapped \/ OpenOps # {})
      BY <2>2 DEF Deploy
    <3> QED
      BY <1>1, <3>1, Zenon
  <2> QED
    BY <1>1, <2>1, <2>2
<1>5. OneIsOpen /\ OpenIsWanted /\ TargetsAreWanted /\ RunningAsWanted /\ ActiveMatchesRows
  BY <1>3, <1>4 DEF SettledInv, StopInv
<1>6. /\ OpenOps' = OpenOps
      /\ \A o, a : Covers(o, a)' <=> Covers(o, a)
      /\ \A a : Due(a)' <=> Due(a)
  BY <1>2 DEF OpenOps, Covers, Due
\* While nothing is open, nothing has targets.
<1>7. ASSUME OpenOps = {} PROVE OpenIsWanted' /\ TargetsAreWanted' /\ \A o, p \in OpenOps' : o = p
  BY <1>2, <1>6, <1>7 DEF OpenIsWanted, TargetsAreWanted, OpenOps, Open
<1>8. CASE Check \/ Block
  <2>1. UNCHANGED <<running, app, deps, current, op, swarm>>
    BY <1>8 DEF Check, Block
  <2> QED
    BY <1>5, <1>6, <2>1 DEF OneIsOpen, OpenIsWanted, TargetsAreWanted, RunningAsWanted,
                            ActiveDeployment, Wanted, Deployed, Stops, Stopped
<1>9. ASSUME NEW b \in Apps, Edit(b)
      PROVE  OneIsOpen' /\ OpenIsWanted' /\ TargetsAreWanted' /\ RunningAsWanted'
  <2>1. UNCHANGED <<deps, current, swarm>>
    BY <1>9 DEF Edit
  <2>2. \A a \in Apps : app'[a].run = app[a].run /\ (app[a].pending => app'[a].pending)
    BY <1>9, EditKeeps DEF TInv
  <2>3. \A a \in Apps : Wanted(a)' = Wanted(a)
    BY <1>2, <2>1, <2>2 DEF Wanted
  <2>4. \A o \in 1..Len(op) : DOMAIN op[o].targets \subseteq Apps
    <3>1. \A o \in 1..Len(op) : op[o] \in Ops
      BY ElementOfSeq DEF TInv, Typed
    <3> QED
      BY <3>1 DEF Ops, Plans
  <2>5. OneIsOpen'
    BY <1>5, <1>6, <2>1 DEF OneIsOpen, ActiveDeployment
  <2>6. OpenIsWanted'
    BY <1>2, <1>5, <1>6, <2>2 DEF OpenIsWanted, Stops, Stopped
  <2>7. TargetsAreWanted'
    BY <1>2, <1>5, <1>6, <2>2, <2>3, <2>4 DEF TargetsAreWanted
  <2>8. RunningAsWanted'
    BY <1>5, <1>6, <2>1, <2>2, <2>3, DeployedRows DEF RunningAsWanted, Deployed, TInv
  <2> QED
    BY <2>5, <2>6, <2>7, <2>8
<1>10. CASE Deploy
  <2>1. /\ UNCHANGED <<app, current, swarm>> /\ OpenOps = {} /\ deps'[current] = deps[current]
    BY <1>4, <1>10, DeployAdds DEF Deploy, TInv, Typed
  <2>2. OneIsOpen'
    BY <1>6, <1>7, <2>1 DEF OneIsOpen
  <2>3. RunningAsWanted'
    BY <1>2, <1>5, <1>6, <2>1 DEF RunningAsWanted, Wanted, Deployed
  <2> QED
    BY <1>7, <2>1, <2>2, <2>3
<1>11. CASE Succeed
  <2>1. /\ app' = app /\ Len(deps) \in 1..Len(deps) /\ ActiveDeployment
        /\ swarm' = EffectiveReplicas(Len(deps)) /\ current' = Len(deps)
        /\ deps'[Len(deps)].apps = deps[Len(deps)].apps
    BY <1>11, SettleKeeps, ActiveIsNewest DEF Succeed
  <2>2. OpenOps = {}
    BY <1>5, <2>1 DEF OneIsOpen
  <2>3. OneIsOpen'
    BY <1>6, <1>7, <2>2 DEF OneIsOpen
  <2>4. ASSUME NEW a \in DOMAIN deps[Len(deps)].apps
        PROVE  swarm'[a] = Wanted(a)'
    <3>1. deps[Len(deps)] \in Deps
      BY <2>1, ElementOfSeq DEF TInv, Typed
    <3>2. a \in Apps
      BY <3>1 DEF Deps, Snapshots
    <3>3. deps[Len(deps)].run = running /\ deps[Len(deps)].apps[a].run = app[a].run
      BY <1>5, <2>1 DEF ActiveMatchesRows
    <3> QED
      BY <1>2, <2>1, <3>2, <3>3 DEF EffectiveReplicas, Wanted
  <2>5. RunningAsWanted'
    BY <2>1, <2>4 DEF RunningAsWanted, Deployed
  <2> QED
    BY <1>7, <2>2, <2>3, <2>5
<1>12. CASE Restore
  <2>1. /\ UNCHANGED <<app, deps, current>> /\ OpenOps = {} /\ swarm' = RestoreReplicas
    BY <1>12 DEF Restore
  <2>2. ~blocked
    <3>1. undone' = (undone \/ blocked)
      BY <1>12 DEF Restore
    <3> QED
      BY <1>1, <3>1, Zenon
  <2>3. OneIsOpen'
    BY <1>6, <1>7, <2>1 DEF OneIsOpen
  <2>4. RunningAsWanted'
    BY <1>2, <2>1, <2>2, DeployedRows
       DEF RunningAsWanted, RestoreReplicas, Runs, Wanted, DeployedReplicas, Deployed, TInv
  <2> QED
    BY <1>7, <2>1, <2>3, <2>4
<1> QED
  BY <1>2, <1>8, <1>9, <1>10, <1>11, <1>12

-----------------------------------------------------------------------------
(* The theorems *)

LEMMA InitIInv ==
    ASSUME RuntimeAssumption, Init
    PROVE  IInv
<1>1. PICK n \in Replicas : app = [a \in Apps |-> [run |-> TRUE, pending |-> FALSE, replicas |-> n]]
  BY DEF Init
<1> DEFINE first == [run |-> TRUE, apps |-> app, status |-> "Succeeded"]
<1>2. /\ running = TRUE /\ deps = <<first>> /\ current = 1 /\ blocked = FALSE /\ checked = FALSE
      /\ op = <<>> /\ edits = 0 /\ swarm = EffectiveReplicas(1)
      /\ undone = FALSE /\ overlapped = FALSE
  BY DEF Init
<1>3. app \in [Apps -> AppRows] /\ app \in Rows
  BY <1>1 DEF AppRows, Rows
<1>4. app \in Snapshots
  <2>1. Apps \in SUBSET Apps
    OBVIOUS
  <2> QED
    BY <1>3, <2>1, Zenon DEF Snapshots
<1>5. first \in Deps
  BY <1>4 DEF Deps
<1>6. deps \in Seq(Deps) /\ Len(deps) = 1 /\ deps[1] = first
  <2> HIDE DEF first
  <2> QED
    BY <1>2, <1>5
<1>7. op \in Seq(Ops) /\ Len(op) = 0
  BY <1>2
<1>8. deps[1].status = "Succeeded" /\ deps[1].run = TRUE /\ deps[1].apps = app
  BY <1>6
<1> HIDE DEF first
<1>9. swarm \in [Apps -> Counts] /\ \A a \in Apps : swarm[a] = app[a].replicas /\ app[a].run = TRUE
  BY <1>1, <1>2, <1>3, <1>8 DEF EffectiveReplicas, Counts, AppRows
<1>10. Typed
  <2>1. Len(deps) <= MaxVersion /\ current \in 1..Len(deps)
    BY <1>2, <1>6 DEF RuntimeAssumption
  <2>2. Len(op) <= MaxOps /\ edits \in 0..MaxEdits
    BY <1>2, <1>7 DEF RuntimeAssumption
  <2> QED
    BY <1>2, <1>3, <1>6, <1>7, <1>9, <2>1, <2>2 DEF Typed
<1>11. AttemptsAreCounted /\ CurrentIsNewest
  BY <1>2, <1>6, <1>7, <1>8 DEF AttemptsAreCounted, CurrentIsNewest
<1>12. ~ActiveDeployment /\ OpenOps = {} /\ Deployed = Apps
  BY <1>2, <1>3, <1>6, <1>7, <1>8 DEF ActiveDeployment, OpenOps, Deployed
<1>13. \A a \in Apps : ~Stopped(a) /\ swarm[a] = Wanted(a) /\ swarm[a] # None
  <2>1. \A a \in Apps : app[a].replicas \in Nat
    BY <1>3 DEF AppRows, RuntimeAssumption
  <2> QED
    BY <1>2, <1>8, <1>9, <2>1 DEF Stopped, Wanted, RuntimeAssumption
<1>14. StopInv
  <2>1. ActiveMatchesRows /\ ServicesAreDeployed
    BY <1>12, <1>13 DEF ActiveMatchesRows, ServicesAreDeployed
  <2>2. TargetsAreOfType /\ OneExecutes /\ StoppedGoDown
    BY <1>7, <1>13 DEF TargetsAreOfType, OneExecutes, StoppedGoDown
  <2> QED
    BY <2>1, <2>2 DEF StopInv
<1>15. SettledInv
  <2>1. OneIsOpen /\ OpenIsWanted
    BY <1>12 DEF OneIsOpen, OpenIsWanted
  <2>2. TargetsAreWanted /\ RunningAsWanted
    BY <1>7, <1>12, <1>13 DEF TargetsAreWanted, RunningAsWanted
  <2> QED
    BY <2>1, <2>2 DEF SettledInv
<1>16. ForcedOnce /\ OneRestart
  BY <1>7, <1>12 DEF ForcedOnce, OneRestart
<1> QED
  BY <1>10, <1>11, <1>14, <1>15, <1>16 DEF IInv, TInv

LEMMA RequestIInv ==
    ASSUME RuntimeAssumption, IInv,
           \/ RestartGroup
           \/ \E a \in Apps : RestartApp(a)
           \/ \E run \in BOOLEAN : SetGroup(run) \/ \E a \in Apps : SetApp(a, run)
    PROVE  IInv'
<1>1. TInv /\ StopInv /\ SettledInv /\ RestartInv /\ Typed
  BY DEF IInv, TInv, RestartInv
<1>2. ASSUME TInv', StopInv', SettledInv', RestartInv' PROVE IInv'
  BY <1>2 DEF IInv, RestartInv
<1>3. ASSUME NEW type, NEW b, Requests(type, b), running' = running, app' = app,
             type \notin {"GroupStop", "AppStop"},
             type = "AppRestart" => ~RestartOpen(b)
      PROVE  IInv'
  <2>1. \A a \in Apps : Stopped(a)' <=> Stopped(a)
    BY <1>3 DEF Stopped
  <2>2. TInv' /\ RestartInv'
    BY <1>1, <1>3, RequestTInv, RequestRestartInv
  <2>3. StopInv'
    BY <1>1, <1>3, <2>1, RequestStopInv
  <2>4. SettledInv'
    BY <1>1, <1>3, RequestSettledInv
  <2> QED
    BY <1>2, <2>2, <2>3, <2>4
<1>4. CASE RestartGroup \/ \E a \in Apps : RestartApp(a)
  <2>1. running' = running /\ app' = app
    BY <1>1, <1>4, RestartRequests
  <2>2. CASE Requests("GroupRestart", None)
    BY <1>3, <2>1, <2>2
  <2>3. ASSUME NEW x \in Apps, Requests("AppRestart", x), RestartApp(x) PROVE IInv'
    BY <1>3, <2>1, <2>3 DEF RestartApp
  <2> QED
    BY <1>1, <1>4, <2>2, <2>3, RestartRequests
<1>5. ASSUME NEW run \in BOOLEAN, SetGroup(run) PROVE IInv'
  <2> DEFINE type == IF run THEN "GroupStart" ELSE "GroupStop"
  <2>1. Requests(type, None) /\ running' = run /\ app' = app
    BY <1>1, <1>5, SetGroupRequests
  <2>2. type \in {"GroupStart", "GroupStop"} /\ (type = "GroupStop" <=> run = FALSE)
    BY <1>5
  <2> HIDE DEF type
  <2>3. \A a \in Apps : type = "GroupStop" => Stopped(a)'
    BY <2>1, <2>2 DEF Stopped
  <2>4. \A a \in Apps : Stopped(a)' => Stopped(a) \/ type = "GroupStop"
    BY <2>1, <2>2 DEF Stopped
  <2>5. TInv' /\ RestartInv'
    BY <1>1, <2>1, <2>2, RequestTInv, RequestRestartInv
  <2>6. StopInv'
    BY <1>1, <2>1, <2>4, RequestStopInv
  <2>7. SettledInv'
    BY <1>1, <2>1, <2>2, <2>3, RequestSettledInv
  <2> QED
    BY <1>2, <2>5, <2>6, <2>7
<1>6. ASSUME NEW b \in Apps, NEW run \in BOOLEAN, SetApp(b, run) PROVE IInv'
  <2> DEFINE type == IF run THEN "AppStart" ELSE "AppStop"
  <2>1. /\ Requests(type, b) /\ running' = running /\ app'[b].run = run
        /\ \A x \in Apps : app'[x].pending = app[x].pending
        /\ \A x \in Apps \ {b} : app'[x] = app[x]
    BY <1>1, <1>6, SetAppRequests
  <2>2. type \in {"AppStart", "AppStop"} /\ (type = "AppStop" <=> run = FALSE)
    BY <1>6
  <2> HIDE DEF type
  <2>3. \A a \in Apps : type = "AppStop" /\ b = a => Stopped(a)'
    BY <2>1, <2>2 DEF Stopped
  <2>4. \A a \in Apps : Stopped(a)' => Stopped(a) \/ (type = "AppStop" /\ b = a)
    BY <2>1, <2>2 DEF Stopped
  <2>5. TInv' /\ RestartInv'
    BY <1>1, <2>1, <2>2, RequestTInv, RequestRestartInv
  <2>6. StopInv'
    BY <1>1, <2>1, <2>4, RequestStopInv
  <2>7. SettledInv'
    BY <1>1, <2>1, <2>2, <2>3, RequestSettledInv
  <2> QED
    BY <1>2, <2>5, <2>6, <2>7
<1> QED
  BY <1>4, <1>5, <1>6

\* What the proof rests on, step by step: the invariants of stops, of settled
\* requests and of forced restarts, and the types and counts they use.
THEOREM Inductive ==
    ASSUME RuntimeAssumption
    PROVE  Spec => []IInv
<1>1. Init => IInv
  BY InitIInv
<1>2. IInv /\ [Next]_vars => IInv'
  <2> SUFFICES ASSUME IInv, [Next]_vars PROVE IInv'
    OBVIOUS
  <2>1. TInv /\ StopInv /\ SettledInv /\ RestartInv /\ Typed
    BY DEF IInv, TInv, RestartInv
  <2>2. ASSUME NEW o \in 1..MaxOps,
               Load(o) \/ Finish(o) \/ Crash(o) \/ \E a \in Apps : Command(o, a)
        PROVE  IInv'
    <3>1. TInv' /\ RestartInv'
      BY <2>1, <2>2, WorkTInv, WorkRestartInv
    <3>2. SettledInv'
      BY <2>1, <2>2, WorkSettledInv
    <3>3. StopInv'
      <4>1. undone' = undone
        BY <2>1, <2>2, LoadWorks, FinishWorks, CommandWorks DEF Works, TInv
      <4> QED
        BY <2>1, <2>2, <4>1, WorkStopFrame, WorkOneExecutes, WorkStoppedGoDown DEF StopInv
    <3> QED
      BY <3>1, <3>2, <3>3 DEF IInv, RestartInv
  <2>3. CASE \/ Check \/ Block \/ Deploy \/ Succeed \/ RollBack \/ Discard \/ Restore
             \/ \E a \in Apps : Edit(a)
    <3>1. TInv' /\ op' = op
      BY <2>1, <2>3, OtherTInv
    <3>2. RestartInv'
      BY <2>1, <3>1 DEF RestartInv, ForcedOnce, OneRestart, OpenOps
    <3>3. SettledInv' /\ StopInv'
      BY <2>1, <2>3, <3>1, OtherSettledInv, OtherStopInv
    <3> QED
      BY <3>1, <3>2, <3>3 DEF IInv, RestartInv
  <2>4. CASE \/ RestartGroup
             \/ \E a \in Apps : RestartApp(a)
             \/ \E run \in BOOLEAN : SetGroup(run) \/ \E a \in Apps : SetApp(a, run)
    BY <2>4, RequestIInv
  <2>5. CASE UNCHANGED vars
    <3>1. UNCHANGED <<running, app, deps, current, blocked, checked, op, swarm, edits,
                      undone, overlapped>>
      BY <2>5 DEF vars
    <3>2. TInv'
      BY <2>1, <3>1 DEF TInv, Typed, AttemptsAreCounted, CurrentIsNewest
    <3>3. RestartInv'
      BY <2>1, <3>1 DEF RestartInv, ForcedOnce, OneRestart, OpenOps
    <3>4. StopInv'
      BY <2>1, <3>1 DEF StopInv, ActiveMatchesRows, ActiveDeployment, ServicesAreDeployed,
        Deployed, TargetsAreOfType, OneExecutes, StoppedGoDown, Stopped, Down, Owed, Stops
    <3>5. SettledInv'
      BY <2>1, <3>1 DEF SettledInv, OneIsOpen, OpenOps, ActiveDeployment, OpenIsWanted, Stops,
        Stopped, TargetsAreWanted, Covers, Wanted, RunningAsWanted, Deployed, Due
    <3> QED
      BY <3>2, <3>3, <3>4, <3>5 DEF IInv, RestartInv
  <2> QED
    BY <2>2, <2>3, <2>4, <2>5 DEF Next
<1> QED
  BY <1>1, <1>2, PTL DEF Spec

\* The variables keep their types, for every number of apps, Operations and attempts.
THEOREM TypeCorrect ==
    ASSUME RuntimeAssumption
    PROVE  Spec => []TypeOK
<1>1. IInv => TypeOK
  <2> SUFFICES ASSUME IInv PROVE TypeOK
    OBVIOUS
  <2>1. Typed
    BY DEF IInv, TInv
  <2>2. \A o \in 1..Len(op) : op[o] \in Ops
    BY <2>1, ElementOfSeq DEF Typed
  <2>3. \A o \in 1..Len(op) : DOMAIN op[o].targets \subseteq Apps
    BY <2>2 DEF Ops, Plans
  <2> QED
    BY <2>1, <2>2, <2>3 DEF Typed, TypeOK, Ops, Counts
<1> QED
  BY <1>1, Inductive, PTL

\* Stop is final: with one worker nothing of a stopped group or SingleApp is left
\* running once every Operation has succeeded, in whatever order queued starts,
\* stops and retries executed and whatever deployments and crashes came between
\* (RuntimeOperationExecutor computes its targets when it executes).
THEOREM StopIsFinalCorrect ==
    ASSUME RuntimeAssumption
    PROVE  Spec => []StopIsFinal
<1>1. IInv => StopIsFinal
  <2> SUFFICES ASSUME IInv, Workers = 1, AllSucceeded, ~undone,
                      NEW a \in Apps, ~(running /\ app[a].run)
               PROVE  swarm[a] \in {0, None}
    BY DEF StopIsFinal
  <2>1. Down(a) \/ Owed(a)
    BY DEF IInv, StopInv, StoppedGoDown, Stopped
  <2>2. ~Owed(a)
    BY DEF Owed, AllSucceeded
  <2> QED
    BY <2>1, <2>2 DEF Down
<1> QED
  BY <1>1, Inductive, PTL

\* Requests that do not overlap leave Swarm at what the rows say, with the replicas
\* of the last snapshot that succeeded (deployedReplicaTarget) and not the draft's.
THEOREM SettledIsDeployedCorrect ==
    ASSUME RuntimeAssumption
    PROVE  Spec => []SettledIsDeployed
<1>1. IInv => SettledIsDeployed
  <2> SUFFICES ASSUME IInv, AllSucceeded, ~undone, ~overlapped,
                      NEW a \in Deployed, ~app[a].pending
               PROVE  swarm[a] = Wanted(a)
    BY DEF SettledIsDeployed, Wanted
  <2>1. swarm[a] = Wanted(a) \/ Due(a)
    BY DEF IInv, SettledInv, RunningAsWanted
  <2>2. ~Due(a)
    BY DEF Due, AllSucceeded
  <2> QED
    BY <2>1, <2>2
<1> QED
  BY <1>1, Inductive, PTL

\* A SingleApp is forced to restart at most once per Operation, whenever the worker
\* dies, because an unknown outcome is not retried (assertRuntimeResults), and no
\* second restart of it is queued while one is outstanding (restartSingleApp).
THEOREM RestartForcedOnceCorrect ==
    ASSUME RuntimeAssumption
    PROVE  Spec => []RestartForcedOnce
<1>1. IInv => RestartForcedOnce
  <2> SUFFICES ASSUME IInv PROVE RestartForcedOnce
    OBVIOUS
  <2>1. \A o \in 1..Len(op) : op[o].forced <= 1
    BY DEF IInv, ForcedOnce
  <2> QED
    BY <2>1 DEF IInv, OneRestart, RestartForcedOnce
<1> QED
  BY <1>1, Inductive, PTL
=============================================================================
