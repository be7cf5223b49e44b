--------------------------- MODULE VolumesProofs ----------------------------
(***************************************************************************)
(* Proofs about volumes, for every number of volumes, groups, workers,     *)
(* requests, deployments and failures.                                     *)
(*                                                                         *)
(* The argument: the status of a row is a lock.  Who has put a volume into *)
(* Creating, Resizing or Deleting is the only one who changes its row and  *)
(* its directory until he leaves that status; he deletes only what no      *)
(* draft names and no deployment may mount, and what a deployment is about *)
(* to mount was Ready when its executor looked.                            *)
(***************************************************************************)
EXTENDS Volumes, TLAPS, FiniteSetTheorems, WellFoundedInduction

Rows ==
    [status : {"Absent", "Creating", "Ready", "Resizing", "Deleting", "Error"},
     size : 0..MaxSize, pending : 0..MaxSize]
Works ==
    [pc : {"Idle", "Start", "Provision", "Finish", "Failed", "Grow", "Grown", "Remove", "Row"},
     kind : {"create", "resize", "delete"}, vol : Volumes \cup {None}, size : 0..MaxSize,
     resumed : BOOLEAN, lost : BOOLEAN]
Jobs == [vol : Volumes, kind : {"create", "resize", "delete"}, size : 1..MaxSize]
Deps ==
    [status : {"None", "Pending", "Deploying", "RollingBack", "Succeeded", "Failed", "RolledBack"},
     next : SUBSET Volumes, current : (SUBSET Volumes) \cup {None}, past : SUBSET Volumes,
     observed : BOOLEAN, draft : (SUBSET Volumes) \cup {None}, import : Volumes \cup {None}]

\* What a worker that is at pc holds of its volume: the status that says so
Lock(pc) ==
    IF pc \in {"Provision", "Finish", "Failed"} THEN "Creating"
    ELSE IF pc \in {"Grow", "Grown"} THEN "Resizing"
    ELSE IF pc \in {"Remove", "Row"} THEN "Deleting" ELSE "Free"
Held(w) == Lock(work[w].pc)
KindOf(pc) ==
    IF pc \in {"Provision", "Finish", "Failed"} THEN "create"
    ELSE IF pc \in {"Grow", "Grown"} THEN "resize" ELSE "delete"

Types ==
    /\ vol \in [Volumes -> Rows] /\ disk \in [Volumes -> 0..MaxSize]
    /\ jobs \in SUBSET Jobs /\ work \in [Workers -> Works]
    /\ attach \in [Groups -> SUBSET Volumes] /\ mounted \in [Groups -> SUBSET Volumes]
    /\ dep \in [Groups -> Deps]

\* A row without a status is none, and a size is pending while a volume is resized.
RowsMakeSense ==
    \A v \in Volumes :
        /\ vol[v].status = "Absent" => vol[v] = Absent
        /\ vol[v].pending > 0 <=> vol[v].status = "Resizing"

\* A worker has a job, and is at a step of it.
WorkIsOfJob ==
    \A w \in Workers : work[w].pc # "Idle" =>
        /\ work[w].vol \in Volumes /\ work[w].size \in 1..MaxSize
        /\ Held(w) # "Free" => work[w].kind = KindOf(work[w].pc)

\* A volume is created by one job, which a crash hands on, and until that has ended there is no row
\* or the one it has made.
Creates(w) == work[w].pc # "Idle" /\ work[w].kind = "create"
Begun(v, n) == vol[v] = Absent \/ vol[v] = [status |-> "Creating", size |-> n, pending |-> 0]
MadeOnce ==
    /\ \A j \in jobs : j.kind = "create" => Begun(j.vol, j.size)
    /\ \A j, k \in jobs : j.kind = "create" /\ k.kind = "create" /\ j.vol = k.vol => j = k
    /\ \A w \in Workers : Creates(w) => Begun(work[w].vol, work[w].size)
    /\ \A w \in Workers, j \in jobs : Creates(w) /\ j.kind = "create" => j.vol # work[w].vol
    /\ \A w, x \in Workers : Creates(w) /\ Creates(x) /\ work[w].vol = work[x].vol => w = x

\* The status is a lock: who holds a volume is alone.
HeldOnce ==
    /\ \A w \in Workers : Held(w) # "Free" => vol[work[w].vol].status = Held(w)
    /\ \A w, x \in Workers : Held(w) # "Free" /\ Held(x) = Held(w) /\ work[w].vol = work[x].vol => w = x

\* What is about to become Ready, and what is, has its directory.
Provided ==
    /\ \A w \in Workers : At(w, "Finish") \/ At(w, "Grown") => disk[work[w].vol] = work[w].size
    /\ \A v \in Volumes : vol[v].status = "Ready" => disk[v] = vol[v].size /\ disk[v] > 0

\* A volume that tasks can mount
Alive == {"Ready", "Resizing", "Error"}
Kept(v) == vol[v].status \in Alive /\ disk[v] > 0
Current(g) == IF dep[g].current = None THEN {} ELSE dep[g].current
Needed(g) == Current(g) \cup (IF dep[g].status \in {"Deploying", "RollingBack"} THEN dep[g].next ELSE {})
NeededIsKept == \A g \in Groups : \A v \in Needed(g) : Kept(v)

\* Tasks mount the volumes of the current deployment, and of the one that has been applied.
MountedIsNeeded ==
    \A g \in Groups :
        /\ mounted[g] \subseteq Needed(g)
        /\ dep[g].status = "Deploying" => dep[g].next \subseteq mounted[g] \/ mounted[g] \subseteq Current(g)
        /\ dep[g].status = "RollingBack" => dep[g].current # None

VInv == Types /\ RowsMakeSense /\ WorkIsOfJob /\ MadeOnce /\ HeldOnce /\ Provided
DInv == NeededIsKept /\ MountedIsNeeded
IInv == VInv /\ DInv

FailuresCounted == failures \in 0..MaxFailures

\* The windows that a proof keeps closed
Exclusive == "zombie" \notin Cases
Complete == "partial" \notin Cases /\ "first" \notin Cases

-----------------------------------------------------------------------------
(* The steps of a worker *)

Acts(w) ==
    \/ Create(w) \/ Provision(w) \/ Finish(w) \/ Failed(w) \/ CreateFails(w) \/ CleanUpFails(w)
    \/ Resize(w) \/ Grow(w) \/ Grown(w) \/ ResizeFails(w)
    \/ Delete(w) \/ Remove(w) \/ DeleteRow(w) \/ RemoveFails(w)

\* What every step of a worker does with its job, the row and the directory
Writes(w) ==
    /\ work[w].pc # "Idle" /\ UNCHANGED <<jobs, groups>>
    /\ \E n \in Works : work' = [work EXCEPT ![w] = n]
    /\ \E r \in Rows : vol' = [vol EXCEPT ![work[w].vol] = r]
    /\ \E d \in 0..MaxSize : disk' = [disk EXCEPT ![work[w].vol] = d]

\* It keeps its job, and is where that has led it.
Goes(w) ==
    \/ work'[w] = Idle
    \/ /\ work'[w].vol = work[w].vol /\ work'[w].kind = work[w].kind /\ work'[w].size = work[w].size
       /\ Lock(work'[w].pc) # "Free" /\ work[w].kind = KindOf(work'[w].pc)
       /\ vol'[work[w].vol].status = Lock(work'[w].pc)

\* Who holds nothing takes what is free, or leaves it as it is.
Takes(w) == LET v == work[w].vol IN
    Held(w) = "Free" =>
        /\ disk'[v] = disk[v]
        /\ \/ work'[w] = Idle /\ vol'[v] = vol[v]
           \/ work[w].kind = "create" /\ vol[v].status \in {"Absent", "Creating"}
           \/ work[w].kind # "create" /\ vol[v].status \in {"Ready", "Error"}

\* The row that it writes makes sense, is its own while it creates, and Ready only with a directory.
Leaves(w) == LET v == work[w].vol IN
    /\ vol'[v].status = "Absent" => vol'[v] = Absent
    /\ vol'[v].pending > 0 <=> vol'[v].status = "Resizing"
    /\ Creates(w) /\ work'[w] # Idle => vol'[v] = [status |-> "Creating", size |-> work[w].size, pending |-> 0]
    /\ work'[w].pc \in {"Finish", "Grown"} => disk'[v] = work[w].size
    /\ vol'[v].status = "Ready" => disk'[v] = vol'[v].size /\ disk'[v] > 0

\* What tasks can mount or a draft names stays so, but for a deletion that has looked.
Spares(w) == LET v == work[w].vol IN
    vol[v].status \in Alive =>
        \/ vol'[v].status \in Alive /\ (disk[v] > 0 => disk'[v] > 0)
        \/ ~CouldStillMount(v) /\ \A g \in Groups : v \notin attach[g]

Moves(w) == Writes(w) /\ Goes(w) /\ Takes(w) /\ Leaves(w) /\ Spares(w)

LEMMA IdleTyped == ASSUME VolumesAssumption PROVE Idle \in Works /\ Absent \in Rows /\ Undeployed \in Deps
  BY DEF VolumesAssumption, Idle, Absent, Undeployed, Works, Rows, Deps

\* The worker, its job and the volume of it
LEMMA AtStep ==
    ASSUME VolumesAssumption, VInv, NEW w \in Workers, work[w].pc # "Idle"
    PROVE  /\ work[w] \in Works /\ work[w].vol \in Volumes /\ work[w].size \in 1..MaxSize
           /\ vol[work[w].vol] \in Rows /\ disk[work[w].vol] \in 0..MaxSize
           /\ MaxSize \in Nat
  BY DEF VInv, Types, WorkIsOfJob, VolumesAssumption

\* What the invariant says of the row of a worker's volume
LEMMA RowOfStep ==
    ASSUME VolumesAssumption, VInv, NEW w \in Workers, work[w].pc # "Idle"
    PROVE  LET v == work[w].vol IN
           /\ vol[v].status = "Absent" => vol[v] = Absent
           /\ vol[v].pending > 0 <=> vol[v].status = "Resizing"
           /\ Creates(w) => Begun(v, work[w].size)
           /\ Held(w) # "Free" => vol[v].status = Held(w) /\ work[w].kind = KindOf(work[w].pc)
           /\ At(w, "Finish") \/ At(w, "Grown") => disk[v] = work[w].size
           /\ vol[v].status = "Ready" => disk[v] = vol[v].size /\ disk[v] > 0
<1>1. work[w].vol \in Volumes
  BY AtStep
<1> QED
  BY <1>1 DEF VInv, RowsMakeSense, WorkIsOfJob, MadeOnce, HeldOnce, Provided

LEMMA Written ==
    ASSUME VolumesAssumption, VInv, NEW w \in Workers, work[w].pc # "Idle", UNCHANGED <<jobs, groups>>,
           NEW n \in Works, work' = [work EXCEPT ![w] = n],
           NEW r \in Rows, vol' = vol \/ vol' = [vol EXCEPT ![work[w].vol] = r],
           NEW d \in 0..MaxSize, disk' = disk \/ disk' = [disk EXCEPT ![work[w].vol] = d]
    PROVE  Writes(w)
<1>1. vol = [vol EXCEPT ![work[w].vol] = vol[work[w].vol]] /\ vol[work[w].vol] \in Rows
  BY AtStep DEF VInv, Types
<1>2. disk = [disk EXCEPT ![work[w].vol] = disk[work[w].vol]] /\ disk[work[w].vol] \in 0..MaxSize
  BY AtStep DEF VInv, Types
<1> QED
  BY <1>1, <1>2 DEF Writes

LEMMA CreateMoves ==
    ASSUME VolumesAssumption, VInv, NEW w \in Workers,
           Create(w) \/ Provision(w) \/ Finish(w) \/ Failed(w) \/ CreateFails(w) \/ CleanUpFails(w)
    PROVE  Moves(w)
<1> USE DEF VInv, Types
<1>1. CASE Create(w)
  <2>1. work[w].pc = "Start" /\ work[w].kind = "create" /\ Held(w) = "Free"
    BY <1>1 DEF Create, At, Held, Lock
  <2>2. Writes(w)
    <3>1. \E n \in Works : work' = [work EXCEPT ![w] = n]
      <4>1. {Idle, [work[w] EXCEPT !.pc = "Provision"], [work[w] EXCEPT !.pc = "Provision", !.resumed = TRUE]} \subseteq Works
        BY <2>1, AtStep, IdleTyped DEF Works
      <4>2. \/ work' = [work EXCEPT ![w] = Idle]
            \/ work' = [work EXCEPT ![w] = [work[w] EXCEPT !.pc = "Provision"]]
            \/ work' = [work EXCEPT ![w] = [work[w] EXCEPT !.pc = "Provision", !.resumed = TRUE]]
        BY <1>1 DEF Create, Goto, Done
      <4> QED
        BY <4>1, <4>2
    <3>2. \E r \in Rows : vol' = [vol EXCEPT ![work[w].vol] = r]
      <4>1. vol = [vol EXCEPT ![work[w].vol] = vol[work[w].vol]]
        BY AtStep
      <4>2. [status |-> "Creating", size |-> work[w].size, pending |-> 0] \in Rows
        BY <2>1, AtStep DEF Rows
      <4> QED
        BY <1>1, <2>1, <4>1, <4>2, AtStep DEF Create
    <3>3. disk' = [disk EXCEPT ![work[w].vol] = disk[work[w].vol]] /\ disk[work[w].vol] \in 0..MaxSize
      BY <1>1, <2>1, AtStep DEF Create
    <3> QED
      BY <1>1, <2>1, <3>1, <3>2, <3>3 DEF Writes, Create
  <2>3. CASE vol[work[w].vol] = Absent /\ Allowed(work[w].vol, work[w].size)
    <3>1. /\ vol'[work[w].vol] = [status |-> "Creating", size |-> work[w].size, pending |-> 0]
          /\ work'[w] = [work[w] EXCEPT !.pc = "Provision"] /\ disk' = disk
      BY <1>1, <2>1, <2>3, AtStep DEF Create, Goto, Resumes, Absent
    <3> QED
      BY <2>1, <2>2, <2>3, <3>1, AtStep DEF Moves, Goes, Takes, Leaves, Spares, Alive, Lock,
         KindOf, Absent, Works
  <2>4. CASE Resumes(work[w].vol)
    <3>1. vol[work[w].vol] # Absent
      BY <2>4 DEF Resumes, Absent
    <3>2. /\ vol' = vol /\ disk' = disk
          /\ work' = [work EXCEPT ![w].pc = "Provision", ![w].resumed = TRUE]
      BY <1>1, <2>1, <2>4, <3>1 DEF Create
    <3>3. work'[w] = [work[w] EXCEPT !.pc = "Provision", !.resumed = TRUE]
      BY <3>2, AtStep DEF Works
    <3> QED
      BY <2>1, <2>2, <2>4, <3>1, <3>2, <3>3, AtStep, RowOfStep
      DEF Moves, Goes, Takes, Leaves, Spares, Alive, Lock, KindOf, Works, Resumes, Begun, Creates
  <2>5. CASE /\ ~Resumes(work[w].vol)
             /\ vol[work[w].vol] = Absent => ~Allowed(work[w].vol, work[w].size)
    <3>1. vol' = vol /\ disk' = disk /\ work'[w] = Idle
      BY <1>1, <2>1, <2>5, AtStep DEF Create, Done
    <3> QED
      BY <2>1, <2>2, <3>1, AtStep, RowOfStep DEF Moves, Goes, Takes, Leaves, Spares, Alive, Idle
  <2> QED
    BY <1>1, <2>3, <2>4, <2>5 DEF Create
<1>2. CASE Provision(w) \/ Finish(w) \/ Failed(w) \/ CreateFails(w) \/ CleanUpFails(w)
  <2>1. /\ work[w].pc \in {"Provision", "Finish", "Failed"} /\ Held(w) = "Creating"
        /\ work[w].kind = "create"
        /\ vol[work[w].vol] = [status |-> "Creating", size |-> work[w].size, pending |-> 0]
    <3>1. work[w].pc \in {"Provision", "Finish", "Failed"} /\ Held(w) = "Creating"
      BY <1>2 DEF Provision, Finish, Failed, CreateFails, CleanUpFails, At, Held, Lock
    <3> QED
      BY <3>1, RowOfStep DEF KindOf, Creates, Begun, Absent
  <2>2. /\ UNCHANGED <<jobs, groups>>
        /\ \/ work' = [work EXCEPT ![w] = Idle]
           \/ \E pc \in {"Finish", "Failed"} : work' = [work EXCEPT ![w].pc = pc]
        /\ \/ vol' = vol
           \/ vol' = [vol EXCEPT ![work[w].vol] = Absent]
           \/ \E st \in {"Ready", "Error"} : vol' = [vol EXCEPT ![work[w].vol].status = st]
        /\ \/ disk' = disk
           \/ \E d \in {0, work[w].size} : disk' = [disk EXCEPT ![work[w].vol] = d]
    <3>1. vol[work[w].vol].status # "Absent" /\ vol[work[w].vol] # Absent
      BY <2>1 DEF Absent
    <3>2. CASE Provision(w)
      BY <3>2 DEF Provision, Goto
    <3>3. CASE Finish(w)
      BY <3>1, <3>3, AtStep DEF Finish, Goto, Done
    <3>4. CASE Failed(w)
      <4>1. CASE CleanUp(w)
        BY <3>1, <3>4, <4>1, AtStep DEF Failed, Done
      <4>2. CASE ~CleanUp(w)
        BY <3>1, <3>4, <4>2, AtStep DEF Failed, Done
      <4> QED
        BY <4>1, <4>2
    <3>5. CASE CreateFails(w)
      BY <3>5 DEF CreateFails, Goto
    <3>6. CASE CleanUpFails(w)
      BY <3>1, <3>6, AtStep DEF CleanUpFails, Done
    <3> QED
      BY <1>2, <3>2, <3>3, <3>4, <3>5, <3>6
  <2>3. Writes(w)
    <3>1. \E n \in Works : work' = [work EXCEPT ![w] = n]
      <4>1. ASSUME NEW pc \in {"Finish", "Failed"}, work' = [work EXCEPT ![w].pc = pc]
            PROVE  \E n \in Works : work' = [work EXCEPT ![w] = n]
        <5>1. [work[w] EXCEPT !.pc = pc] \in Works
          BY AtStep DEF Works
        <5> QED
          BY <4>1, <5>1
      <4> QED
        BY <2>2, <4>1, IdleTyped
    <3>2. \E r \in Rows : vol' = [vol EXCEPT ![work[w].vol] = r]
      <4>1. ASSUME NEW st \in {"Ready", "Error"}, vol' = [vol EXCEPT ![work[w].vol].status = st]
            PROVE  \E r \in Rows : vol' = [vol EXCEPT ![work[w].vol] = r]
        <5>1. [vol[work[w].vol] EXCEPT !.status = st] \in Rows
          BY <2>1, AtStep DEF Rows
        <5> QED
          BY <4>1, <5>1
      <4>2. vol = [vol EXCEPT ![work[w].vol] = vol[work[w].vol]]
        BY AtStep
      <4> QED
        BY <2>2, <4>1, <4>2, AtStep, IdleTyped
    <3>3. \E d \in 0..MaxSize : disk' = [disk EXCEPT ![work[w].vol] = d]
      <4>1. disk = [disk EXCEPT ![work[w].vol] = disk[work[w].vol]]
        BY AtStep
      <4>2. {0, disk[work[w].vol], work[w].size} \subseteq 0..MaxSize
        BY <2>1, AtStep
      <4> QED
        BY <2>2, <4>1, <4>2
    <3> QED
      BY <2>1, <2>2, <3>1, <3>2, <3>3 DEF Writes
  <2>4. Goes(w)
    BY <1>2, <2>1, AtStep
    DEF Provision, Finish, Failed, CreateFails, CleanUpFails, Goes, Goto, Done, Lock, KindOf,
    Works, Absent
  <2>5. Takes(w) /\ Spares(w)
    BY <2>1 DEF Takes, Spares, Alive
  <2>6. Leaves(w)
    <3>1. CASE Provision(w)
      BY <2>1, <3>1, AtStep DEF Provision, Leaves, Goto, Works, At
    <3>2. CASE Finish(w)
      <4>1. work[w].pc = "Finish" /\ disk[work[w].vol] = work[w].size
        BY <3>2, RowOfStep DEF Finish, At
      <4>2. /\ work'[w] = Idle /\ disk' = disk
            /\ vol'[work[w].vol] = [status |-> "Ready", size |-> work[w].size, pending |-> 0]
        BY <2>1, <3>2, AtStep DEF Finish, Done, Absent
      <4> QED
        BY <2>1, <4>1, <4>2, AtStep DEF Leaves, Idle
    <3>3. CASE Failed(w)
      <4>1. work'[w] = Idle
        BY <3>3 DEF Failed, Done
      <4>2. \/ vol'[work[w].vol] \in {Absent, vol[work[w].vol]}
            \/ vol'[work[w].vol] = [status |-> "Error", size |-> work[w].size, pending |-> 0]
        <5>1. CASE CleanUp(w)
          BY <2>1, <3>3, <5>1, AtStep DEF Failed
        <5>2. CASE ~CleanUp(w)
          BY <2>1, <3>3, <5>2, AtStep DEF Failed
        <5> QED
          BY <5>1, <5>2
      <4> QED
        BY <2>1, <4>1, <4>2, AtStep DEF Leaves, Idle, Absent
    <3>4. CASE CreateFails(w)
      BY <2>1, <3>4, AtStep DEF CreateFails, Leaves, Goto, Works
    <3>5. CASE CleanUpFails(w)
      BY <2>1, <3>5, AtStep DEF CleanUpFails, Leaves, Done, Idle
    <3> QED
      BY <1>2, <3>1, <3>2, <3>3, <3>4, <3>5
  <2> QED
    BY <2>3, <2>4, <2>5, <2>6 DEF Moves
<1> QED
  BY <1>1, <1>2

LEMMA ResizeMoves ==
    ASSUME VolumesAssumption, VInv, NEW w \in Workers,
           Resize(w) \/ Grow(w) \/ Grown(w) \/ ResizeFails(w)
    PROVE  Moves(w)
<1> USE DEF VInv, Types
<1>1. CASE Resize(w)
  <2>1. work[w].pc = "Start" /\ work[w].kind = "resize" /\ Held(w) = "Free"
    BY <1>1 DEF Resize, At, Held, Lock
  <2>2. /\ work[w].vol \in Volumes /\ work[w].size \in 1..MaxSize /\ work[w] \in Works
        /\ vol[work[w].vol] \in Rows /\ 0 \in 0..MaxSize /\ work[w].size \in 0..MaxSize
    BY <2>1, AtStep
  <2>3. CASE /\ vol[work[w].vol] # Absent /\ work[w].size > vol[work[w].vol].size
             /\ Resizable(work[w].vol) /\ Allowed(work[w].vol, work[w].size)
    <3>1. PICK r : r = [vol[work[w].vol] EXCEPT !.pending = work[w].size, !.status = "Resizing"]
      OBVIOUS
    <3>2. PICK n : n = [work[w] EXCEPT !.pc = "Grow"]
      OBVIOUS
    <3>3. r \in Rows /\ n \in Works /\ r.status = "Resizing" /\ r.pending = work[w].size
      BY <2>2, <3>1, <3>2 DEF Rows, Works
    <3>4. vol' = [vol EXCEPT ![work[w].vol] = r] /\ work' = [work EXCEPT ![w] = n] /\ disk' = disk
      BY <1>1, <2>3, <3>1, <3>2 DEF Resize, Goto
    <3>5. vol'[work[w].vol] = r /\ work'[w] = n
      BY <2>2, <3>4
    <3>6. Writes(w)
      BY <1>1, <2>1, <2>2, <3>3, <3>4, Written, AtStep DEF Resize
    <3>7. Goes(w) /\ Takes(w)
      BY <2>1, <2>2, <2>3, <3>2, <3>3, <3>4, <3>5, RowOfStep
      DEF Goes, Takes, Lock, KindOf, Works, Resizable, Rows
    <3>8. Leaves(w) /\ Spares(w)
      BY <2>1, <2>2, <3>2, <3>3, <3>4, <3>5 DEF Leaves, Spares, Alive, Creates, Works
    <3> QED
      BY <3>6, <3>7, <3>8 DEF Moves
  <2>4. CASE ~(/\ vol[work[w].vol] # Absent /\ work[w].size > vol[work[w].vol].size
               /\ Resizable(work[w].vol) /\ Allowed(work[w].vol, work[w].size))
    <3>1. vol' = vol /\ disk' = disk /\ work' = [work EXCEPT ![w] = Idle] /\ work'[w] = Idle
      BY <1>1, <2>4 DEF Resize, Done
    <3>2. Writes(w)
      BY <1>1, <2>1, <2>2, <3>1, Written, AtStep, IdleTyped DEF Resize
    <3> QED
      BY <2>1, <3>1, <3>2, AtStep, RowOfStep DEF Moves, Goes, Takes, Leaves, Spares, Alive, Idle
  <2> QED
    BY <2>3, <2>4
<1>2. CASE Grow(w) \/ Grown(w) \/ ResizeFails(w)
  <2>1. /\ work[w].pc \in {"Grow", "Grown"} /\ Held(w) = "Resizing" /\ work[w].kind = "resize"
        /\ vol[work[w].vol].status = "Resizing"
    <3>1. work[w].pc \in {"Grow", "Grown"} /\ Held(w) = "Resizing"
      BY <1>2 DEF Grow, Grown, ResizeFails, At, Held, Lock
    <3> QED
      BY <3>1, RowOfStep DEF KindOf
  <2>2. /\ work[w].vol \in Volumes /\ work[w].size \in 1..MaxSize /\ work[w] \in Works
        /\ vol[work[w].vol] \in Rows /\ 0 \in 0..MaxSize /\ work[w].size \in 0..MaxSize
    BY <2>1, AtStep
  <2>3. vol[work[w].vol] # Absent
    BY <2>1 DEF Absent
  <2>4. Takes(w) /\ ~Creates(w)
    BY <2>1 DEF Takes, Creates
  <2>5. CASE Grow(w)
    <3>1. PICK n : n = [work[w] EXCEPT !.pc = "Grown"]
      OBVIOUS
    <3>2. n \in Works /\ n.pc = "Grown" /\ n.vol = work[w].vol /\ n.kind = work[w].kind /\ n.size = work[w].size
      BY <2>2, <3>1 DEF Works
    <3>3. vol' = vol /\ work' = [work EXCEPT ![w] = n] /\ disk' = [disk EXCEPT ![work[w].vol] = work[w].size]
      BY <2>5, <3>1 DEF Grow, Goto
    <3>4. work'[w] = n /\ disk'[work[w].vol] = work[w].size
      BY <2>2, <3>3
    <3>5. Writes(w)
      BY <2>1, <2>2, <2>5, <3>2, <3>3, Written DEF Grow
    <3> QED
      BY <2>1, <2>2, <2>4, <3>2, <3>3, <3>4, <3>5, RowOfStep DEF Moves, Goes, Leaves, Spares,
         Alive, Lock, KindOf
  <2>6. CASE Grown(w)
    <3>1. PICK r : r = [status |-> "Ready", size |-> work[w].size, pending |-> 0]
      OBVIOUS
    <3>2. r \in Rows /\ r.status = "Ready" /\ r.size = work[w].size /\ r.pending = 0
      BY <2>2, <3>1 DEF Rows
    <3>3. vol' = [vol EXCEPT ![work[w].vol] = r] /\ work' = [work EXCEPT ![w] = Idle] /\ disk' = disk
      BY <2>3, <2>6, <3>1 DEF Grown, Done
    <3>4. work'[w] = Idle /\ vol'[work[w].vol] = r /\ disk'[work[w].vol] = work[w].size
      BY <2>2, <2>6, <3>3, RowOfStep DEF Grown, At
    <3>5. Writes(w)
      BY <2>1, <2>2, <2>6, <3>2, <3>3, Written, IdleTyped, AtStep DEF Grown
    <3> QED
      BY <2>1, <2>2, <2>4, <3>2, <3>4, <3>5 DEF Moves, Goes, Leaves, Spares, Alive, Idle
  <2>7. CASE ResizeFails(w)
    <3>1. PICK r : r = Released(work[w].vol)
      OBVIOUS
    <3>2. r \in Rows /\ r.status = "Error" /\ r.pending = 0
      BY <2>2, <3>1 DEF Rows, Released
    <3>3. vol' = [vol EXCEPT ![work[w].vol] = r] /\ work' = [work EXCEPT ![w] = Idle] /\ disk' = disk
      BY <2>3, <2>7, <3>1 DEF ResizeFails, Done
    <3>4. work'[w] = Idle /\ vol'[work[w].vol] = r
      BY <2>2, <3>3
    <3>5. Writes(w)
      BY <2>1, <2>2, <2>7, <3>2, <3>3, Written, IdleTyped, AtStep DEF ResizeFails
    <3> QED
      BY <2>1, <2>2, <2>4, <3>2, <3>3, <3>4, <3>5 DEF Moves, Goes, Leaves, Spares, Alive, Idle
  <2> QED
    BY <1>2, <2>5, <2>6, <2>7
<1> QED
  BY <1>1, <1>2

LEMMA DeleteMoves ==
    ASSUME VolumesAssumption, VInv, NEW w \in Workers,
           Delete(w) \/ Remove(w) \/ DeleteRow(w) \/ RemoveFails(w)
    PROVE  Moves(w)
<1> USE DEF VInv, Types
<1>1. CASE Delete(w)
  <2>1. work[w].pc = "Start" /\ work[w].kind = "delete" /\ Held(w) = "Free"
    BY <1>1 DEF Delete, At, Held, Lock
  <2>2. /\ work[w].vol \in Volumes /\ work[w].size \in 1..MaxSize /\ work[w] \in Works
        /\ vol[work[w].vol] \in Rows /\ 0 \in 0..MaxSize /\ work[w].size \in 0..MaxSize
    BY <2>1, AtStep
  <2>3. CASE /\ vol[work[w].vol].status \in {"Ready", "Error"}
             /\ \A g \in Groups : work[w].vol \notin attach[g]
             /\ ~CouldStillMount(work[w].vol)
    <3>1. PICK r : r = [vol[work[w].vol] EXCEPT !.status = "Deleting"]
      OBVIOUS
    <3>2. PICK n : n = [work[w] EXCEPT !.pc = "Remove"]
      OBVIOUS
    <3>3. r \in Rows /\ n \in Works /\ r.status = "Deleting" /\ r.pending = vol[work[w].vol].pending
      BY <2>2, <3>1, <3>2 DEF Rows, Works
    <3>4. vol' = [vol EXCEPT ![work[w].vol] = r] /\ work' = [work EXCEPT ![w] = n] /\ disk' = disk
      BY <1>1, <2>3, <3>1, <3>2 DEF Delete, Goto
    <3>5. vol'[work[w].vol] = r /\ work'[w] = n
      BY <2>2, <3>4
    <3>6. Writes(w)
      BY <1>1, <2>1, <2>2, <3>3, <3>4, Written, AtStep DEF Delete
    <3>7. Goes(w) /\ Takes(w)
      BY <2>1, <2>2, <2>3, <3>2, <3>3, <3>4, <3>5 DEF Goes, Takes, Lock, KindOf, Works
    <3>8. Leaves(w) /\ Spares(w)
      BY <2>1, <2>2, <2>3, <3>2, <3>3, <3>4, <3>5, RowOfStep DEF Leaves, Spares, Alive, Creates,
         Works
    <3> QED
      BY <3>6, <3>7, <3>8 DEF Moves
  <2>4. CASE ~(/\ vol[work[w].vol].status \in {"Ready", "Error"}
               /\ \A g \in Groups : work[w].vol \notin attach[g]
               /\ ~CouldStillMount(work[w].vol))
    <3>1. vol' = vol /\ disk' = disk /\ work' = [work EXCEPT ![w] = Idle] /\ work'[w] = Idle
      BY <1>1, <2>4 DEF Delete, Done
    <3>2. Writes(w)
      BY <1>1, <2>1, <2>2, <3>1, Written, AtStep, IdleTyped DEF Delete
    <3> QED
      BY <2>1, <3>1, <3>2, AtStep, RowOfStep DEF Moves, Goes, Takes, Leaves, Spares, Alive, Idle
  <2> QED
    BY <2>3, <2>4
<1>2. CASE Remove(w) \/ DeleteRow(w) \/ RemoveFails(w)
  <2>1. /\ work[w].pc \in {"Remove", "Row"} /\ Held(w) = "Deleting" /\ work[w].kind = "delete"
        /\ vol[work[w].vol].status = "Deleting"
    <3>1. work[w].pc \in {"Remove", "Row"} /\ Held(w) = "Deleting"
      BY <1>2 DEF Remove, DeleteRow, RemoveFails, At, Held, Lock
    <3> QED
      BY <3>1, RowOfStep DEF KindOf
  <2>2. /\ work[w].vol \in Volumes /\ work[w].size \in 1..MaxSize /\ work[w] \in Works
        /\ vol[work[w].vol] \in Rows /\ 0 \in 0..MaxSize /\ work[w].size \in 0..MaxSize
    BY <2>1, AtStep
  <2>3. Takes(w) /\ Spares(w) /\ ~Creates(w)
    BY <2>1 DEF Takes, Creates, Spares, Alive
  <2>4. CASE Remove(w)
    <3>1. PICK n : n = [work[w] EXCEPT !.pc = "Row"]
      OBVIOUS
    <3>2. n \in Works /\ n.pc = "Row" /\ n.vol = work[w].vol /\ n.kind = work[w].kind /\ n.size = work[w].size
      BY <2>2, <3>1 DEF Works
    <3>3. vol' = vol /\ work' = [work EXCEPT ![w] = n] /\ disk' = [disk EXCEPT ![work[w].vol] = 0]
      BY <2>4, <3>1 DEF Remove, Goto
    <3>4. work'[w] = n
      BY <3>3
    <3>5. Writes(w)
      BY <2>1, <2>2, <2>4, <3>2, <3>3, Written, AtStep DEF Remove
    <3> QED
      BY <2>1, <2>2, <2>3, <3>2, <3>3, <3>4, <3>5, RowOfStep DEF Moves, Goes, Leaves, Lock, KindOf
  <2>5. CASE DeleteRow(w) \/ RemoveFails(w)
    <3>1. \E r \in Rows : /\ vol' = [vol EXCEPT ![work[w].vol] = r]
                          /\ r \in {vol[work[w].vol], Absent, [vol[work[w].vol] EXCEPT !.status = "Error"]}
      <4>1. {vol[work[w].vol], Absent, [vol[work[w].vol] EXCEPT !.status = "Error"]} \subseteq Rows
        BY <2>2, IdleTyped DEF Rows
      <4> QED
        BY <2>5, <4>1 DEF DeleteRow, RemoveFails
    <3>2. PICK r \in Rows : /\ vol' = [vol EXCEPT ![work[w].vol] = r]
                            /\ r \in {vol[work[w].vol], Absent, [vol[work[w].vol] EXCEPT !.status = "Error"]}
      BY <3>1
    <3>3. vol'[work[w].vol] = r /\ work' = [work EXCEPT ![w] = Idle] /\ work'[w] = Idle /\ disk' = disk
      BY <2>2, <2>5, <3>2 DEF DeleteRow, RemoveFails, Done
    <3>4. Writes(w)
      BY <2>1, <2>2, <2>5, <3>2, <3>3, Written, IdleTyped, AtStep DEF DeleteRow, RemoveFails
    <3>5. /\ r.status = "Absent" => r = Absent
          /\ r.pending > 0 <=> r.status = "Resizing"
          /\ r.status # "Ready"
      BY <2>1, <2>2, <3>2, RowOfStep DEF Absent, Rows
    <3> QED
      BY <2>1, <2>3, <3>3, <3>4, <3>5 DEF Moves, Goes, Leaves, Idle
  <2> QED
    BY <1>2, <2>4, <2>5
<1> QED
  BY <1>1, <1>2

LEMMA ActMoves == ASSUME VolumesAssumption, VInv, NEW w \in Workers, Acts(w) PROVE Moves(w)
  BY CreateMoves, ResizeMoves, DeleteMoves DEF Acts

-----------------------------------------------------------------------------
(* The volumes and the jobs *)

\* Another worker who holds the volume is not disturbed, nor is one that is to create it.
LEMMA OthersGoOn ==
    ASSUME VolumesAssumption, VInv, NEW w \in Workers, Moves(w), NEW x \in Workers, x # w,
           work[x].pc # "Idle", work[x].vol = work[w].vol, Held(x) # "Free" \/ Creates(x)
    PROVE  /\ vol'[work[w].vol] = vol[work[w].vol] /\ disk'[work[w].vol] = disk[work[w].vol]
           /\ work'[w] = Idle
<1> DEFINE v == work[w].vol
<1>1. work[w].pc # "Idle"
  BY DEF Moves, Writes
<1>2. /\ Held(x) # "Free" => vol[v].status = Held(x)
      /\ Held(w) # "Free" => vol[v].status = Held(w)
      /\ Creates(x) => vol[v].status \in {"Absent", "Creating"}
      /\ Creates(w) => ~Creates(x)
      /\ Held(x) = "Creating" => Creates(x)
      /\ Held(w) = "Creating" => Creates(w)
      /\ Held(w) # "Free" => Held(x) # Held(w)
      /\ Held(w) \in {"Free", "Creating", "Resizing", "Deleting"}
      /\ Held(x) \in {"Free", "Creating", "Resizing", "Deleting"}
  <2>1. /\ Held(x) # "Free" => vol[v].status = Held(x)
        /\ Held(w) # "Free" => vol[v].status = Held(w) /\ Held(x) # Held(w)
    BY DEF VInv, HeldOnce
  <2>2. /\ Creates(x) => vol[v].status \in {"Absent", "Creating"}
        /\ Creates(w) => ~Creates(x)
    <3>1. Creates(x) => Begun(v, work[x].size)
      BY DEF VInv, MadeOnce
    <3>2. Creates(w) /\ Creates(x) => w = x
      BY DEF VInv, MadeOnce
    <3> QED
      BY <3>1, <3>2 DEF Begun, Absent
  <2>3. /\ Held(x) = "Creating" => Creates(x)
        /\ Held(w) = "Creating" => Creates(w)
    BY <1>1 DEF VInv, Creates, WorkIsOfJob, Held, Lock, KindOf
  <2>4. /\ Held(w) \in {"Free", "Creating", "Resizing", "Deleting"}
        /\ Held(x) \in {"Free", "Creating", "Resizing", "Deleting"}
    BY DEF Held, Lock
  <2> QED
    BY <2>1, <2>2, <2>3, <2>4
<1>3. Held(w) = "Free"
  BY <1>1, <1>2
<1>4. work[w].kind = "create" => Creates(w)
  BY <1>1 DEF Creates
<1> QED
  BY <1>2, <1>3, <1>4 DEF Moves, Takes

\* The new values, of the worker and of its volume; the others keep theirs
LEMMA NewValues ==
    ASSUME VolumesAssumption, VInv, NEW w \in Workers, Moves(w)
    PROVE  /\ work' \in [Workers -> Works] /\ vol' \in [Volumes -> Rows] /\ disk' \in [Volumes -> 0..MaxSize]
           /\ \A x \in Workers : x # w => work'[x] = work[x]
           /\ \A v \in Volumes : v # work[w].vol => vol'[v] = vol[v] /\ disk'[v] = disk[v]
           /\ work[w].vol \in Volumes /\ work[w].size \in 1..MaxSize /\ work[w].pc # "Idle"
           /\ jobs' = jobs /\ UNCHANGED groups
<1>1. work[w].vol \in Volumes /\ work[w].size \in 1..MaxSize /\ work[w].pc # "Idle"
  BY AtStep DEF Moves, Writes
<1>2. work' \in [Workers -> Works] /\ \A x \in Workers : x # w => work'[x] = work[x]
  BY DEF Moves, Writes, VInv, Types
<1>3. vol' \in [Volumes -> Rows] /\ \A v \in Volumes : v # work[w].vol => vol'[v] = vol[v]
  BY <1>1 DEF Moves, Writes, VInv, Types
<1>4. disk' \in [Volumes -> 0..MaxSize] /\ \A v \in Volumes : v # work[w].vol => disk'[v] = disk[v]
  BY <1>1 DEF Moves, Writes, VInv, Types
<1> QED
  BY <1>1, <1>2, <1>3, <1>4 DEF Moves, Writes, groups

LEMMA MovesInv ==
    ASSUME VolumesAssumption, VInv, NEW w \in Workers, Moves(w)
    PROVE  VInv'
<1> DEFINE v == work[w].vol
<1>0. /\ work' \in [Workers -> Works] /\ vol' \in [Volumes -> Rows] /\ disk' \in [Volumes -> 0..MaxSize]
      /\ \A x \in Workers : x # w => work'[x] = work[x]
      /\ \A u \in Volumes : u # v => vol'[u] = vol[u] /\ disk'[u] = disk[u]
      /\ v \in Volumes /\ work[w].size \in 1..MaxSize /\ work[w].pc # "Idle"
      /\ jobs' = jobs /\ UNCHANGED groups
  BY NewValues
<1>1. Types'
  BY <1>0 DEF VInv, Types, groups
<1>2. RowsMakeSense'
  BY <1>0 DEF VInv, RowsMakeSense, Moves, Leaves, Absent
<1>3. WorkIsOfJob'
  BY <1>0 DEF VInv, WorkIsOfJob, Moves, Goes, Held, Idle, Lock
<1>4. HeldOnce'
  <2>1. ASSUME NEW x \in Workers, Held(x)' # "Free" PROVE vol'[work'[x].vol].status = Held(x)'
    <3>1. CASE x = w
      BY <1>0, <2>1, <3>1 DEF Moves, Goes, Held, Idle, Lock
    <3>2. CASE x # w /\ work[x].vol = v
      BY <1>0, <2>1, <3>2, OthersGoOn DEF VInv, HeldOnce, Held, Lock
    <3>3. CASE x # w /\ work[x].vol # v
      BY <1>0, <2>1, <3>3 DEF VInv, HeldOnce, Held, Lock, WorkIsOfJob
    <3> QED
      BY <3>1, <3>2, <3>3
  <2>2. ASSUME NEW x \in Workers, x # w, Held(x)' # "Free", Held(w)' = Held(x)', work'[x].vol = work'[w].vol
        PROVE  FALSE
    <3>1. work'[w] # Idle /\ work'[w].vol = v /\ work[x].vol = v /\ Held(x) # "Free" /\ work[x].pc # "Idle"
      BY <1>0, <2>2 DEF Moves, Goes, Held, Idle, Lock
    <3> QED
      BY <2>2, <3>1, OthersGoOn
  <2> QED
    BY <1>0, <2>1, <2>2 DEF VInv, HeldOnce, Held
<1>5. Provided'
  <2>1. ASSUME NEW x \in Workers, At(x, "Finish")' \/ At(x, "Grown")'
        PROVE  disk'[work'[x].vol] = work'[x].size
    <3>1. CASE x = w
      BY <1>0, <2>1, <3>1 DEF Moves, Goes, Leaves, Idle, At
    <3>2. CASE x # w /\ work[x].vol = v
      BY <1>0, <2>1, <3>2, OthersGoOn DEF VInv, Provided, Held, Lock, At
    <3>3. CASE x # w /\ work[x].vol # v
      BY <1>0, <2>1, <3>3 DEF VInv, Provided, At, WorkIsOfJob
    <3> QED
      BY <3>1, <3>2, <3>3
  <2>2. \A u \in Volumes : vol'[u].status = "Ready" => disk'[u] = vol'[u].size /\ disk'[u] > 0
    BY <1>0 DEF VInv, Provided, Moves, Leaves
  <2> QED
    BY <2>1, <2>2 DEF Provided
<1>6. MadeOnce'
  <2> DEFINE B(u, n) == vol'[u] = Absent \/ vol'[u] = [status |-> "Creating", size |-> n, pending |-> 0]
  <2>1. ASSUME NEW x \in Workers, Creates(x)'
        PROVE  Creates(x) /\ work'[x].vol = work[x].vol /\ work'[x].size = work[x].size
    BY <1>0, <2>1 DEF Moves, Goes, Idle, Creates
  <2>2. ASSUME NEW x \in Workers, Creates(x)' PROVE B(work'[x].vol, work'[x].size)
    <3>1. CASE x = w
      BY <1>0, <2>1, <2>2, <3>1 DEF Moves, Leaves, Begun, Creates, Idle
    <3>2. CASE x # w /\ work[x].vol = v
      BY SMTT(30), <1>0, <2>1, <2>2, <3>2, OthersGoOn DEF VInv, MadeOnce, Begun, Creates
    <3>3. CASE x # w /\ work[x].vol # v
      BY SMTT(30), <1>0, <2>1, <2>2, <3>3 DEF VInv, MadeOnce, Begun, Creates, WorkIsOfJob
    <3> QED
      BY <3>1, <3>2, <3>3
  <2>3. ASSUME NEW j \in jobs, j.kind = "create" PROVE B(j.vol, j.size)
    <3>1. CASE j.vol # v
      BY <1>0, <2>3, <3>1 DEF VInv, MadeOnce, Begun, Types, Jobs
    <3>2. CASE j.vol = v
      <4>1. ~Creates(w) /\ vol[v].status \in {"Absent", "Creating"} /\ Begun(v, j.size)
        BY <2>3, <3>2 DEF VInv, MadeOnce, Begun, Absent
      <4>2. Held(w) # "Free" => vol[v].status = Held(w) /\ work[w].kind = KindOf(work[w].pc)
        BY <1>0 DEF VInv, HeldOnce, WorkIsOfJob
      <4>3. Held(w) = "Free" /\ work[w].kind # "create"
        BY <1>0, <4>1, <4>2 DEF Held, Lock, KindOf, Creates
      <4>4. vol'[v] = vol[v]
        BY <4>1, <4>3 DEF Moves, Takes
      <4> QED
        BY <3>2, <4>1, <4>4 DEF Begun
    <3> QED
      BY <3>1, <3>2
  <2>4. /\ \A j, k \in jobs' : j.kind = "create" /\ k.kind = "create" /\ j.vol = k.vol => j = k
        /\ \A x \in Workers, j \in jobs' : Creates(x)' /\ j.kind = "create" => j.vol # work'[x].vol
        /\ \A x, y \in Workers : Creates(x)' /\ Creates(y)' /\ work'[x].vol = work'[y].vol => x = y
    BY <1>0, <2>1 DEF VInv, MadeOnce
  <2> QED
    BY <1>0, <2>2, <2>3, <2>4 DEF MadeOnce, Begun
<1> QED
  BY <1>1, <1>2, <1>3, <1>4, <1>5, <1>6 DEF VInv

LEMMA RequestInv ==
    ASSUME VolumesAssumption, VInv, NEW v \in Volumes, NEW kind \in {"create", "resize", "delete"},
           NEW n \in 1..MaxSize, Request(v, kind, n)
    PROVE  VInv'
<1>1. PICK j : j = [vol |-> v, kind |-> kind, size |-> n]
  OBVIOUS
<1>2. /\ jobs' = jobs \cup {j} /\ UNCHANGED <<vol, disk, work, groups>>
      /\ j \in Jobs /\ j.vol = v /\ j.kind = kind /\ j.size = n
  BY <1>1 DEF Request, Jobs
<1>3. kind = "create" => NewVolume(v)
  BY DEF Request
<1>4. Types'
  BY <1>2 DEF VInv, Types, groups
<1>5. RowsMakeSense' /\ WorkIsOfJob' /\ HeldOnce' /\ Provided'
  BY <1>2 DEF VInv, RowsMakeSense, WorkIsOfJob, HeldOnce, Provided, Held, At
<1>6. MadeOnce'
  BY <1>2, <1>3 DEF VInv, MadeOnce, NewVolume, Begun, Creates
<1> QED
  BY <1>4, <1>5, <1>6 DEF VInv

LEMMA TakeInv ==
    ASSUME VolumesAssumption, VInv, NEW w \in Workers, NEW j \in jobs, Take(w, j)
    PROVE  VInv'
<1>1. PICK n : n = [Idle EXCEPT !.pc = "Start", !.kind = j.kind, !.vol = j.vol, !.size = j.size]
  OBVIOUS
<1>2. /\ work' = [work EXCEPT ![w] = n] /\ jobs' = jobs \ {j} /\ UNCHANGED <<vol, disk, groups>>
      /\ work[w].pc = "Idle"
  BY <1>1 DEF Take, At
<1>3. j \in Jobs
  BY DEF VInv, Types
<1>4. /\ n \in Works /\ n.vol = j.vol /\ n.kind = j.kind /\ n.size = j.size /\ n.pc = "Start"
      /\ n.size \in 1..MaxSize /\ n.vol \in Volumes
  <2>1. /\ j.vol \in Volumes /\ j.kind \in {"create", "resize", "delete"}
        /\ j.size \in 1..MaxSize /\ j.size \in 0..MaxSize
    BY <1>3 DEF Jobs, VolumesAssumption
  <2> QED
    BY <1>1, <2>1 DEF Idle, Works
<1>5. work' \in [Workers -> Works] /\ work'[w] = n /\ \A x \in Workers : x # w => work'[x] = work[x]
  BY <1>2, <1>4 DEF VInv, Types
<1>6. Types'
  BY <1>2, <1>5 DEF VInv, Types, groups
<1>7. RowsMakeSense' /\ WorkIsOfJob' /\ HeldOnce' /\ Provided'
  BY <1>2, <1>4, <1>5 DEF VInv, RowsMakeSense, WorkIsOfJob, HeldOnce, Provided, Held, At, Lock
<1>8. MadeOnce'
  <2>1. \A x \in Workers : Creates(x)' => IF x = w THEN j.kind = "create" ELSE Creates(x)
    BY <1>4, <1>5 DEF Creates
  <2>2. \A k \in jobs' : k \in jobs /\ k # j
    BY <1>2
  <2> QED
    BY <1>2, <1>4, <1>5, <2>1, <2>2 DEF VInv, MadeOnce, Begun
<1> QED
  BY <1>6, <1>7, <1>8 DEF VInv

\* A crash hands the job on as it was taken.
LEMMA CrashInv ==
    ASSUME VolumesAssumption, Exclusive, VInv, NEW w \in Workers, Crash(w)
    PROVE  VInv'
<1>1. PICK j : j = [vol |-> work[w].vol, kind |-> work[w].kind, size |-> work[w].size]
  OBVIOUS
<1>2. /\ work' = [work EXCEPT ![w] = Idle] /\ jobs' = jobs \cup {j} /\ UNCHANGED <<vol, disk, groups>>
      /\ work[w].pc # "Idle"
  BY <1>1 DEF Crash, At, Done, Exclusive
<1>3. j \in Jobs /\ j.vol = work[w].vol /\ j.kind = work[w].kind /\ j.size = work[w].size
  BY <1>1, <1>2, AtStep DEF Jobs, Works
<1>4. /\ work' \in [Workers -> Works] /\ work'[w] = Idle /\ \A x \in Workers : x # w => work'[x] = work[x]
      /\ Idle.pc = "Idle"
  BY <1>2, IdleTyped DEF VInv, Types, Idle
<1>5. Types'
  BY <1>2, <1>3, <1>4 DEF VInv, Types, groups
<1>6. RowsMakeSense' /\ WorkIsOfJob' /\ HeldOnce' /\ Provided'
  BY <1>2, <1>4 DEF VInv, RowsMakeSense, WorkIsOfJob, HeldOnce, Provided, Held, At, Lock
<1>7. MadeOnce'
  <2>1. \A x \in Workers : Creates(x)' => x # w /\ Creates(x)
    BY <1>4 DEF Creates
  <2>2. j.kind = "create" => Creates(w)
    BY <1>2, <1>3 DEF Creates
  <2> QED
    BY <1>2, <1>3, <1>4, <2>1, <2>2 DEF VInv, MadeOnce, Begun
<1> QED
  BY <1>5, <1>6, <1>7 DEF VInv

-----------------------------------------------------------------------------
(* Drafts and deployments *)

GroupSteps(g) ==
    \/ \E v \in Volumes : Attach(g, v) \/ Detach(g, v) \/ Resolve(g, v)
    \/ Import(g) \/ ReadDraft(g) \/ RequestDeploy(g) \/ Validate(g)
    \/ Apply(g) \/ ApplyFails(g) \/ Converged(g) \/ RolloutFails(g) \/ RolledBack(g) \/ Observe(g)

\* A set of volumes is not None.
LEMMA SetsAreSome == ASSUME VolumesAssumption, NEW S \in SUBSET Volumes PROVE S # None
  BY DEF VolumesAssumption

\* Steps that leave deployments and mounts as they are
LEMMA DraftInv ==
    ASSUME VolumesAssumption, Types, NEW g \in Groups,
           (\E v \in Volumes : Attach(g, v) \/ Detach(g, v) \/ Resolve(g, v))
           \/ Import(g) \/ ReadDraft(g) \/ Observe(g)
    PROVE  /\ attach' \in [Groups -> SUBSET Volumes] /\ dep' \in [Groups -> Deps] /\ mounted' = mounted
           /\ UNCHANGED <<vol, disk, jobs, work>>
           /\ \A h \in Groups : /\ dep'[h].status = dep[h].status /\ dep'[h].next = dep[h].next
                                /\ dep'[h].current = dep[h].current
<1> USE DEF Types
<1>1. CASE \E v \in Volumes : Attach(g, v) \/ Detach(g, v)
  BY <1>1 DEF Attach, Detach
\* Only what is read is written.
<1>2. ASSUME NEW d \in Deps, d.status = dep[g].status, d.next = dep[g].next, d.current = dep[g].current,
             dep' = [dep EXCEPT ![g] = d]
      PROVE  /\ dep' \in [Groups -> Deps]
             /\ \A h \in Groups : /\ dep'[h].status = dep[h].status /\ dep'[h].next = dep[h].next
                                  /\ dep'[h].current = dep[h].current
  BY <1>2
<1>3. dep[g] \in Deps
  OBVIOUS
<1>4. CASE \E v \in Volumes : Resolve(g, v)
  <2>1. PICK v \in Volumes : Resolve(g, v)
    BY <1>4
  <2>2. [dep[g] EXCEPT !.import = v] \in Deps
    BY <1>3 DEF Deps
  <2>3. UNCHANGED <<vol, disk, jobs, work, attach, mounted>> /\ dep' = [dep EXCEPT ![g] = [dep[g] EXCEPT !.import = v]]
    BY <2>1 DEF Resolve
  <2> QED
    BY <1>2, <1>3, <2>2, <2>3 DEF Deps
<1>5. CASE Import(g)
  <2>1. dep[g].import \in Volumes
    BY <1>3, <1>5 DEF Import, Deps
  <2>2. attach' \in [Groups -> SUBSET Volumes]
    BY <1>5, <2>1 DEF Import
  <2>3. [dep[g] EXCEPT !.import = None] \in Deps
    BY <1>3 DEF Deps
  <2>4. UNCHANGED <<vol, disk, jobs, work, mounted>> /\ dep' = [dep EXCEPT ![g] = [dep[g] EXCEPT !.import = None]]
    BY <1>5 DEF Import
  <2> QED
    BY <1>2, <1>3, <2>2, <2>3, <2>4 DEF Deps
<1>6. CASE ReadDraft(g)
  <2>1. [dep[g] EXCEPT !.draft = attach[g]] \in Deps
    BY <1>3 DEF Deps
  <2>2. /\ UNCHANGED <<vol, disk, jobs, work, attach, mounted>>
        /\ dep' = [dep EXCEPT ![g] = [dep[g] EXCEPT !.draft = attach[g]]]
    BY <1>6 DEF ReadDraft
  <2> QED
    BY <1>2, <1>3, <2>1, <2>2 DEF Deps
<1>7. CASE Observe(g)
  <2>1. [dep[g] EXCEPT !.observed = TRUE] \in Deps
    BY <1>3 DEF Deps
  <2>2. /\ UNCHANGED <<vol, disk, jobs, work, attach, mounted>>
        /\ dep' = [dep EXCEPT ![g] = [dep[g] EXCEPT !.observed = TRUE]]
    BY <1>7 DEF Observe
  <2> QED
    BY <1>2, <1>3, <2>1, <2>2 DEF Deps
<1> QED
  BY <1>1, <1>4, <1>5, <1>6, <1>7

\* A deployment: what becomes of its group
LEMMA DeployInv ==
    ASSUME VolumesAssumption, Complete, IInv, NEW g \in Groups,
           RequestDeploy(g) \/ Validate(g) \/ Apply(g) \/ ApplyFails(g) \/ Converged(g)
           \/ RolloutFails(g) \/ RolledBack(g)
    PROVE  /\ UNCHANGED <<vol, disk, jobs, work, attach>>
           /\ dep' \in [Groups -> Deps] /\ mounted' \in [Groups -> SUBSET Volumes]
           /\ \A h \in Groups : h # g => dep'[h] = dep[h] /\ mounted'[h] = mounted[h]
           /\ \A v \in Needed(g)' : Kept(v)
           /\ mounted'[g] \subseteq Needed(g)'
           /\ dep'[g].status = "Deploying" => dep'[g].next \subseteq mounted'[g] \/ mounted'[g] \subseteq Current(g)'
           /\ dep'[g].status = "RollingBack" => dep'[g].current # None
<1> USE DEF IInv, VInv, Types
<1>0. /\ dep[g] \in Deps /\ mounted[g] \subseteq Volumes
      /\ \A v \in Needed(g) : Kept(v)
      /\ mounted[g] \subseteq Needed(g)
      /\ dep[g].status = "Deploying" => dep[g].next \subseteq mounted[g] \/ mounted[g] \subseteq Current(g)
      /\ dep[g].status = "RollingBack" => dep[g].current # None
  BY DEF DInv, NeededIsKept, MountedIsNeeded
<1>1. CASE RequestDeploy(g)
  BY <1>0, <1>1 DEF RequestDeploy, Deps, InFlight, Needed, Current
<1>2. CASE Validate(g)
  <2>1. VolumesReady(g) => \A v \in dep[g].next : Kept(v)
    BY <1>0 DEF VolumesReady, Kept, Alive, Provided, Deps
  <2>2. dep'[g] = IF VolumesReady(g) THEN [dep[g] EXCEPT !.status = "Deploying"]
                  ELSE [dep[g] EXCEPT !.status = "Failed", !.past = dep[g].past \cup dep[g].next]
    BY <1>2 DEF Validate
  <2>3. dep'[g] \in Deps /\ dep' = [dep EXCEPT ![g] = dep'[g]] /\ mounted' = mounted
        /\ UNCHANGED <<vol, disk, jobs, work, attach>>
    BY <1>0, <1>2, <2>2 DEF Validate, Deps
  <2>4. mounted[g] \subseteq Current(g)
    BY <1>0, <1>2 DEF Validate, Needed
  <2>5. Current(g)' = Current(g) /\ Needed(g)' \subseteq Current(g) \cup (IF VolumesReady(g) THEN dep[g].next ELSE {})
        /\ Current(g) \subseteq Needed(g)' /\ dep'[g].status # "RollingBack"
    BY <1>0, <2>2 DEF Needed, Current, Deps
  <2> QED
    BY <1>0, <2>1, <2>3, <2>4, <2>5 DEF Needed
<1>3. CASE Apply(g)
  BY <1>0, <1>3 DEF Apply, Deps, Needed, Current
<1>4. CASE ApplyFails(g)
  BY <1>0, <1>4 DEF ApplyFails, Deps, Needed, Current, Complete
<1>5. CASE Converged(g)
  <2>1. PICK d : d = [dep[g] EXCEPT !.status = "Succeeded", !.current = dep[g].next,
                  !.past = dep[g].past \cup (IF dep[g].current = None THEN {} ELSE dep[g].current),
                  !.observed = FALSE]
    OBVIOUS
  <2>2. d \in Deps /\ d.status = "Succeeded" /\ d.current = dep[g].next
    BY <1>0, <2>1 DEF Deps
  <2>3. /\ dep' = [dep EXCEPT ![g] = d] /\ mounted' = [mounted EXCEPT ![g] = dep[g].next]
        /\ dep[g].status = "Deploying" /\ UNCHANGED <<vol, disk, jobs, work, attach>>
    BY <1>5, <2>1 DEF Converged
  <2>4. dep'[g] = d /\ mounted'[g] = dep[g].next /\ dep[g].next \subseteq Volumes
    BY <1>0, <2>3 DEF Deps
  <2>5. Needed(g)' = dep[g].next /\ dep[g].next \subseteq Needed(g)
    BY <2>2, <2>3, <2>4, SetsAreSome DEF Needed, Current
  <2> QED
    BY <1>0, <2>2, <2>3, <2>4, <2>5
<1>6. CASE RolloutFails(g)
  BY <1>0, <1>6 DEF RolloutFails, Deps, Needed, Current, Complete
<1>7. CASE RolledBack(g)
  BY <1>0, <1>7 DEF RolledBack, Deps, Needed, Current
<1> QED
  BY <1>1, <1>2, <1>3, <1>4, <1>5, <1>6, <1>7

LEMMA GroupInv ==
    ASSUME VolumesAssumption, Complete, IInv, NEW g \in Groups, GroupSteps(g)
    PROVE  IInv'
<1>1. CASE (\E v \in Volumes : Attach(g, v) \/ Detach(g, v) \/ Resolve(g, v))
           \/ Import(g) \/ ReadDraft(g) \/ Observe(g)
  <2>1. /\ attach' \in [Groups -> SUBSET Volumes] /\ dep' \in [Groups -> Deps] /\ mounted' = mounted
        /\ UNCHANGED <<vol, disk, jobs, work>>
        /\ \A h \in Groups : /\ dep'[h].status = dep[h].status /\ dep'[h].next = dep[h].next
                             /\ dep'[h].current = dep[h].current
    BY <1>1, DraftInv DEF IInv, VInv
  <2>2. VInv'
    BY <2>1 DEF IInv, VInv, Types, RowsMakeSense, WorkIsOfJob, MadeOnce, HeldOnce, Provided,
       Held, At,
       Creates, Begun
  <2>3. DInv'
    <3>1. \A h \in Groups : Needed(h)' = Needed(h) /\ Current(h)' = Current(h)
      BY <2>1 DEF Needed, Current
    <3> QED
      BY <2>1, <3>1 DEF IInv, DInv, NeededIsKept, MountedIsNeeded, Kept
  <2> QED
    BY <2>2, <2>3 DEF IInv
<1>2. CASE RequestDeploy(g) \/ Validate(g) \/ Apply(g) \/ ApplyFails(g) \/ Converged(g)
           \/ RolloutFails(g) \/ RolledBack(g)
  <2>1. /\ UNCHANGED <<vol, disk, jobs, work, attach>>
        /\ dep' \in [Groups -> Deps] /\ mounted' \in [Groups -> SUBSET Volumes]
        /\ \A h \in Groups : h # g => dep'[h] = dep[h] /\ mounted'[h] = mounted[h]
        /\ \A v \in Needed(g)' : Kept(v)
        /\ mounted'[g] \subseteq Needed(g)'
        /\ dep'[g].status = "Deploying" => dep'[g].next \subseteq mounted'[g] \/ mounted'[g] \subseteq Current(g)'
        /\ dep'[g].status = "RollingBack" => dep'[g].current # None
    BY <1>2, DeployInv
  <2>2. VInv'
    BY <2>1 DEF IInv, VInv, Types, RowsMakeSense, WorkIsOfJob, MadeOnce, HeldOnce, Provided,
       Held, At,
       Creates, Begun
  <2>3. DInv'
    <3>1. \A h \in Groups : h # g => Needed(h)' = Needed(h) /\ Current(h)' = Current(h)
      BY <2>1 DEF Needed, Current
    <3>2. \A v : Kept(v)' = Kept(v)
      BY <2>1 DEF Kept
    <3>3. NeededIsKept'
      BY <2>1, <3>1, <3>2 DEF IInv, DInv, NeededIsKept
    <3>4. MountedIsNeeded'
      BY <2>1, <3>1 DEF IInv, DInv, MountedIsNeeded
    <3> QED
      BY <3>3, <3>4 DEF DInv
  <2> QED
    BY <2>2, <2>3 DEF IInv
<1> QED
  BY <1>1, <1>2 DEF GroupSteps

-----------------------------------------------------------------------------
(* The theorems *)

LEMMA InitIInv == ASSUME VolumesAssumption, Init PROVE IInv
<1>1. Types
  BY IdleTyped DEF VolumesAssumption, Init, Types
<1>2. RowsMakeSense /\ WorkIsOfJob /\ MadeOnce /\ HeldOnce /\ Provided
  BY DEF Init, RowsMakeSense, WorkIsOfJob, MadeOnce, HeldOnce, Provided, Held, Lock, Creates, At,
     Absent, Idle
<1>3. DInv
  BY DEF Init, DInv, NeededIsKept, MountedIsNeeded, Needed, Current, Undeployed
<1> QED
  BY <1>1, <1>2, <1>3 DEF IInv, VInv

\* A worker takes nothing away that a deployment may mount.
LEMMA ActSpares ==
    ASSUME VolumesAssumption, IInv, NEW w \in Workers, Moves(w)
    PROVE  DInv'
<1> DEFINE v == work[w].vol
<1>1. /\ \A u \in Volumes : u # v => vol'[u] = vol[u] /\ disk'[u] = disk[u]
      /\ v \in Volumes /\ UNCHANGED <<attach, dep, mounted>> /\ disk' \in [Volumes -> 0..MaxSize]
  BY NewValues DEF IInv, groups
<1>2. ASSUME NEW g \in Groups, NEW u \in Needed(g) PROVE Kept(u)'
  <2>1. u \in Volumes /\ Kept(u) /\ CouldStillMount(u)
    BY <1>2 DEF IInv, VInv, DInv, NeededIsKept, Types, Deps, Needed, Current, CouldStillMount,
       InFlight
  <2>2. CASE u # v
    BY <1>1, <2>1, <2>2 DEF Kept
  <2>3. CASE u = v
    BY <2>1, <2>3 DEF Moves, Spares, Kept
  <2> QED
    BY <2>2, <2>3
<1>3. \A g \in Groups : Needed(g)' = Needed(g) /\ Current(g)' = Current(g)
  BY <1>1 DEF Needed, Current
<1> QED
  BY <1>1, <1>2, <1>3 DEF IInv, DInv, NeededIsKept, MountedIsNeeded

\* What the next step is
LEMMA NextIs ==
    ASSUME [Next]_vars
    PROVE  \/ \E v \in Volumes, kind \in {"create", "resize", "delete"}, n \in 1..MaxSize \cup {1} : Request(v, kind, n)
           \/ \E w \in Workers : (\E j \in jobs : Take(w, j)) \/ Acts(w) \/ Crash(w)
           \/ \E g \in Groups : GroupSteps(g)
           \/ UNCHANGED vars
  BY DEF Next, Worker, Acts, GroupSteps

\* While the windows are closed whoever has a volume in Creating, Resizing or Deleting is alone with it, and what
\* deployments mount or may mount is kept (VolumesService, couldDeploymentStillMountVolume).
THEOREM Inductive ==
    ASSUME VolumesAssumption, Exclusive, Complete
    PROVE  Spec => []IInv
<1>1. Init => IInv
  BY InitIInv
<1>2. IInv /\ [Next]_vars => IInv'
  <2> SUFFICES ASSUME IInv, [Next]_vars PROVE IInv'
    OBVIOUS
  <2>1. ASSUME NEW v \in Volumes, NEW kind \in {"create", "resize", "delete"}, NEW n \in 1..MaxSize \cup {1},
               Request(v, kind, n)
        PROVE  IInv'
    <3>1. n \in 1..MaxSize
      BY DEF VolumesAssumption
    <3>2. VInv'
      BY <2>1, <3>1, RequestInv DEF IInv
    <3>3. DInv'
      BY <2>1 DEF IInv, DInv, Request, groups, NeededIsKept, MountedIsNeeded, Needed, Current,
         Kept
    <3> QED
      BY <3>2, <3>3 DEF IInv
  <2>2. ASSUME NEW w \in Workers, (\E j \in jobs : Take(w, j)) \/ Crash(w) PROVE IInv'
    <3>1. VInv'
      BY <2>2, TakeInv, CrashInv DEF IInv
    <3>2. UNCHANGED <<vol, disk, dep, mounted>>
      BY <2>2 DEF Take, Crash, groups
    <3>3. DInv'
      BY <3>2 DEF IInv, DInv, NeededIsKept, MountedIsNeeded, Needed, Current, Kept
    <3> QED
      BY <3>1, <3>3 DEF IInv
  <2>3. ASSUME NEW w \in Workers, Acts(w) PROVE IInv'
    BY <2>3, ActMoves, MovesInv, ActSpares DEF IInv
  <2>4. ASSUME NEW g \in Groups, GroupSteps(g) PROVE IInv'
    BY <2>4, GroupInv
  <2>5. CASE UNCHANGED vars
    BY <2>5 DEF vars, IInv, VInv, DInv, Types, RowsMakeSense, WorkIsOfJob, MadeOnce, HeldOnce,
       Provided,
       Held, At, Creates, Begun, NeededIsKept, MountedIsNeeded, Needed, Current, Kept
  <2> QED
    BY <2>1, <2>2, <2>3, <2>4, <2>5, NextIs
<1> QED
  BY <1>1, <1>2, PTL DEF Spec

\* Volumes have the types of their columns, and a size is pending while one is resized
\* (VolumesService, LocalFilesystemStorageAdapterService).
THEOREM TypesAreRight ==
    ASSUME VolumesAssumption, Exclusive, Complete
    PROVE  Spec => []TypeOK
<1>1. Init => FailuresCounted
  BY DEF Init, VolumesAssumption, FailuresCounted
<1>2. FailuresCounted /\ [Next]_vars => FailuresCounted'
  <2> SUFFICES ASSUME FailuresCounted, [Next]_vars PROVE failures' = failures \/ Fault
    BY DEF Fault, VolumesAssumption, FailuresCounted
  <2>1. ASSUME NEW w \in Workers, Acts(w) PROVE failures' = failures \/ Fault
    BY <2>1 DEF Acts, Create, Provision, Finish, Failed, CreateFails, CleanUpFails, Resize, Grow,
       Grown,
       ResizeFails, Delete, Remove, DeleteRow, RemoveFails
  <2>2. ASSUME NEW g \in Groups, GroupSteps(g) PROVE failures' = failures \/ Fault
    BY <2>2 DEF GroupSteps, Attach, Detach, Resolve, Import, ReadDraft, RequestDeploy, Validate,
       Apply,
       ApplyFails, Converged, RolloutFails, RolledBack, Observe
  <2> QED
    BY <2>1, <2>2, NextIs DEF Request, Take, Crash, vars
<1>3. IInv /\ FailuresCounted => TypeOK
  BY DEF FailuresCounted, IInv, VInv, Types, RowsMakeSense, TypeOK, Rows
<1> QED
  BY <1>1, <1>2, <1>3, Inductive, PTL DEF Spec

\* The directory of a volume that a task mounts stays, and a Ready volume has its directory with its
\* limit, whatever crashes and is taken again (couldDeploymentStillMountVolume, createVolume).
THEOREM DirectoriesAreKept ==
    ASSUME VolumesAssumption, Exclusive, Complete
    PROVE  Spec => [](MountedIsKept /\ ReadyHasDirectory)
<1>1. IInv => MountedIsKept /\ ReadyHasDirectory
  BY DEF IInv, VInv, DInv, Provided, NeededIsKept, MountedIsNeeded, Kept, MountedIsKept,
     ReadyHasDirectory
<1> QED
  BY <1>1, Inductive, PTL

\* While no manifest is imported a draft names no volume that goes away (attachVolume).
THEOREM DraftsAreKept ==
    ASSUME VolumesAssumption, Exclusive, Complete, "import" \notin Cases
    PROVE  Spec => []AttachedIsKept
<1> DEFINE AInv == AttachedIsKept /\ \A g \in Groups : dep[g].import = None
<1>1. Init => AInv
  BY DEF Init, AttachedIsKept, Undeployed
<1>2. IInv /\ AInv /\ [Next]_vars => AInv'
  <2> SUFFICES ASSUME IInv, AInv, [Next]_vars PROVE AInv'
    OBVIOUS
  <2>1. ASSUME NEW w \in Workers, Acts(w) PROVE AInv'
    <3>1. /\ Moves(w) /\ UNCHANGED <<attach, dep>> /\ work[w].vol \in Volumes
          /\ \A v \in Volumes : v # work[w].vol => vol'[v] = vol[v]
      BY <2>1, ActMoves, NewValues DEF IInv, groups
    <3>2. ASSUME NEW g \in Groups, NEW v \in attach[g] PROVE vol'[v].status \in Alive
      <4>1. v \in Volumes /\ vol[v].status \in Alive
        BY <3>2 DEF IInv, VInv, Types, AttachedIsKept, Alive
      <4> QED
        BY <3>1, <3>2, <4>1 DEF Moves, Spares
    <3> QED
      BY <3>1, <3>2 DEF AttachedIsKept, Alive
  <2>2. ASSUME NEW g \in Groups, GroupSteps(g) PROVE AInv'
    <3>1. UNCHANGED vol /\ attach \in [Groups -> SUBSET Volumes] /\ dep \in [Groups -> Deps]
      BY <2>2 DEF IInv, VInv, Types, GroupSteps, Attach, Detach, Resolve, Import, ReadDraft,
         RequestDeploy,
         Validate, Apply, ApplyFails, Converged, RolloutFails, RolledBack, Observe
    <3>2. CASE \E v \in Volumes : Attach(g, v) \/ Detach(g, v)
      BY <3>1, <3>2 DEF Attach, Detach, Attachable, AttachedIsKept
    <3>3. CASE ~\E v \in Volumes : Attach(g, v) \/ Detach(g, v)
      <4>1. attach' = attach
        BY <2>2, <3>3 DEF GroupSteps, Resolve, Import, ReadDraft, RequestDeploy,
           Validate, Apply, ApplyFails, Converged, RolloutFails, RolledBack, Observe
      <4>2. \A h \in Groups : dep'[h].import = dep[h].import
        <5>1. CASE ReadDraft(g) \/ Observe(g)
          BY <3>1, <5>1 DEF ReadDraft, Observe, Deps
        <5>2. ASSUME NEW d, dep' = [dep EXCEPT ![g] = d], d.import = dep[g].import
              PROVE  \A h \in Groups : dep'[h].import = dep[h].import
          BY <3>1, <5>2
        <5>3. CASE RequestDeploy(g) \/ Validate(g) \/ ApplyFails(g) \/ Converged(g)
          <6>1. dep[g] \in Deps
            BY <3>1
          <6>2. CASE RequestDeploy(g)
            BY <5>2, <6>1, <6>2 DEF RequestDeploy, Deps
          <6>3. CASE Validate(g)
            BY <5>2, <6>1, <6>3 DEF Validate, Deps
          <6>4. CASE ApplyFails(g)
            <7>1. PICK d : d = [dep[g] EXCEPT !.status = "Failed", !.past = dep[g].past \cup dep[g].next]
              OBVIOUS
            <7>2. dep' = [dep EXCEPT ![g] = d] /\ d.import = dep[g].import
              BY <3>1, <6>1, <6>4, <7>1 DEF ApplyFails, Deps
            <7> QED
              BY <5>2, <7>2
          <6>5. CASE Converged(g)
            BY <5>2, <6>1, <6>5 DEF Converged, Deps
          <6> QED
            BY <5>3, <6>2, <6>3, <6>4, <6>5
        <5>4. CASE RolloutFails(g) \/ RolledBack(g) \/ Apply(g)
          BY <3>1, <5>4 DEF RolloutFails, RolledBack, Apply, Deps
        <5> QED
          BY <2>2, <3>3, <5>1, <5>3, <5>4 DEF GroupSteps, Resolve, Import
      <4> QED
        BY <3>1, <4>1, <4>2 DEF AttachedIsKept
    <3> QED
      BY <3>2, <3>3
  <2>3. CASE (\E v \in Volumes, kind \in {"create", "resize", "delete"}, n \in 1..MaxSize \cup {1} : Request(v, kind, n))
             \/ (\E w \in Workers : (\E j \in jobs : Take(w, j)) \/ Crash(w)) \/ UNCHANGED vars
    <3>1. UNCHANGED <<vol, attach, dep>>
      BY <2>3 DEF Request, Take, Crash, groups, vars
    <3> QED
      BY <3>1 DEF AttachedIsKept
  <2> QED
    BY <2>1, <2>2, <2>3, NextIs
<1> QED
  BY <1>1, <1>2, Inductive, PTL DEF Spec

-----------------------------------------------------------------------------
(* Sums over finite sets.  The iteration of a fold exists and has the value  *)
(* its equation gives it, by induction on the size of the set: among the     *)
(* sets for which a claim fails there would be a smallest one.               *)

\* The member that a fold takes next, and the iteration of Total
Some(s) == CHOOSE x \in s : TRUE
Adds(g, w, S) == g = [s \in SUBSET S |-> IF s = {} THEN 0 ELSE g[s \ {Some(s)}] + w[Some(s)]]

LEMMA LeastNumber ==
    ASSUME NEW T \in SUBSET Nat, T # {}
    PROVE  \E n \in T : \A m \in T : n <= m
<1> DEFINE Less == OpToRel(<, Nat)
<1>1. \A m, n \in Nat : m < n => <<m, n>> \in Less
  BY DEF OpToRel
<1>2. IsWellFoundedOn(Less, Nat)
  BY NatLessThanWellFounded
<1> HIDE DEF Less
<1>3. \E n \in T : \A m \in T : ~ (<<m, n>> \in Less)
  BY <1>2, WFMin
<1>4. PICK n \in T : \A m \in T : ~ (<<m, n>> \in Less)
  BY <1>3
<1>5. \A m \in T : ~(m < n)
  BY <1>1, <1>4
<1>6. \A m \in T : n <= m
  BY <1>5
<1> QED
  BY <1>6

LEMMA SmallestSet ==
    ASSUME NEW S, IsFiniteSet(S), NEW B \in SUBSET (SUBSET S), B # {}
    PROVE  \E s \in B : \A t \in B : Cardinality(s) <= Cardinality(t)
<1> DEFINE T == {Cardinality(s) : s \in B}
<1>1. \A s \in B : Cardinality(s) \in Nat
  BY FS_Subset, FS_CardinalityType
<1>2. T \in SUBSET Nat /\ T # {}
  BY <1>1
<1>3. PICK n \in T : \A m \in T : n <= m
  BY <1>2, LeastNumber
<1> QED
  BY <1>3

LEMMA Smaller ==
    ASSUME NEW S, IsFiniteSet(S), NEW v \in S
    PROVE  IsFiniteSet(S \ {v}) /\ Cardinality(S \ {v}) + 1 = Cardinality(S) /\ Cardinality(S \ {v}) \in Nat
<1>1. IsFiniteSet(S \ {v}) /\ Cardinality(S \ {v}) = Cardinality(S) - 1
  BY FS_RemoveElement
<1>2. Cardinality(S \ {v}) \in Nat /\ Cardinality(S) \in Nat
  BY <1>1, FS_CardinalityType
<1> QED
  BY <1>1, <1>2

LEMMA SmallerIsLess ==
    ASSUME NEW S, IsFiniteSet(S), NEW v \in S
    PROVE  ~(Cardinality(S) <= Cardinality(S \ {v}))
<1>1. Cardinality(S \ {v}) + 1 = Cardinality(S) /\ Cardinality(S \ {v}) \in Nat
  BY Smaller
<1> QED
  BY <1>1

LEMMA SomeIsIn == ASSUME NEW S, S # {} PROVE Some(S) \in S
  BY DEF Some

Bounded(S, n) == {s \in SUBSET S : Cardinality(s) <= n}
AddsTo(g, w, S, n) ==
    g = [s \in Bounded(S, n) |-> IF s = {} THEN 0 ELSE g[s \ {Some(s)}] + w[Some(s)]]

LEMMA AddsExists ==
    ASSUME NEW S, IsFiniteSet(S), NEW w
    PROVE  \E g : Adds(g, w, S)
<1> DEFINE B == {n \in Nat : ~ \E g : AddsTo(g, w, S, n)}
<1>0. \A s \in SUBSET S : IsFiniteSet(s) /\ Cardinality(s) \in Nat /\ Cardinality(s) <= Cardinality(S)
  BY FS_Subset, FS_CardinalityType
<1>1. B = {}
  <2> SUFFICES ASSUME B # {} PROVE FALSE
    OBVIOUS
  <2>1. PICK n \in B : \A m \in B : n <= m
    BY LeastNumber
  <2>2. CASE n = 0
    <3> DEFINE g == [s \in Bounded(S, 0) |-> 0]
    <3>1. \A s \in Bounded(S, 0) : s = {}
      BY <1>0, FS_EmptySet DEF Bounded
    <3>2. g = [s \in Bounded(S, 0) |-> IF s = {} THEN 0 ELSE g[s \ {Some(s)}] + w[Some(s)]]
      BY <3>1
    <3> QED
      BY <2>1, <2>2, <3>2 DEF AddsTo
  <2>3. CASE n # 0
    <3>1. n - 1 \in Nat /\ n - 1 \notin B
      BY <2>1, <2>3
    <3>2. PICK g : AddsTo(g, w, S, n - 1)
      BY <3>1
    <3> DEFINE h == [s \in Bounded(S, n) |-> IF s = {} THEN 0 ELSE g[s \ {Some(s)}] + w[Some(s)]]
    <3>3. \A s \in Bounded(S, n) : s # {} => s \ {Some(s)} \in Bounded(S, n - 1)
      <4> TAKE s \in Bounded(S, n)
      <4> HAVE s # {}
      <4>1. Some(s) \in s /\ IsFiniteSet(s) /\ s \in SUBSET S /\ Cardinality(s) <= n
        BY <1>0, SomeIsIn DEF Bounded
      <4>2. Cardinality(s \ {Some(s)}) + 1 = Cardinality(s) /\ Cardinality(s \ {Some(s)}) \in Nat
        BY <4>1, Smaller
      <4> QED
        BY <2>1, <4>1, <4>2 DEF Bounded
    <3>4. \A s \in Bounded(S, n - 1) : s \in Bounded(S, n) /\ g[s] = IF s = {} THEN 0 ELSE g[s \ {Some(s)}] + w[Some(s)]
      <4>1. \A s \in Bounded(S, n - 1) : s \in Bounded(S, n)
        BY <1>0, <2>1 DEF Bounded
      <4> QED
        BY <3>2, <4>1 DEF AddsTo
    <3>5. \A s \in Bounded(S, n - 1) : h[s] = g[s]
      BY <3>4
    <3>6. h = [s \in Bounded(S, n) |-> IF s = {} THEN 0 ELSE h[s \ {Some(s)}] + w[Some(s)]]
      <4>1. \A s \in Bounded(S, n) : h[s] = IF s = {} THEN 0 ELSE h[s \ {Some(s)}] + w[Some(s)]
        BY <3>3, <3>5
      <4> QED
        BY <4>1
    <3>7. AddsTo(h, w, S, n)
      BY <3>6 DEF AddsTo
    <3> QED
      BY <2>1, <3>7
  <2> QED
    BY <2>2, <2>3
<1>2. PICK g : AddsTo(g, w, S, Cardinality(S))
  BY <1>0, <1>1
<1>3. Bounded(S, Cardinality(S)) = SUBSET S
  BY <1>0 DEF Bounded
<1> QED
  BY <1>2, <1>3 DEF AddsTo, Adds

LEMMA TotalAdds ==
    ASSUME NEW S, IsFiniteSet(S), NEW w
    PROVE  \E g : Adds(g, w, S) /\ Total(w, S) = g[S]
<1> DEFINE g == CHOOSE f : f = [s \in SUBSET S |-> IF s = {} THEN 0 ELSE f[s \ {Some(s)}] + w[Some(s)]]
<1>1. \E f : f = [s \in SUBSET S |-> IF s = {} THEN 0 ELSE f[s \ {Some(s)}] + w[Some(s)]]
  <2>1. PICK f : Adds(f, w, S)
    BY AddsExists
  <2>2. f = [s \in SUBSET S |-> IF s = {} THEN 0 ELSE f[s \ {Some(s)}] + w[Some(s)]]
    BY <2>1 DEF Adds
  <2> QED
    BY <2>2
<1>2. g = [s \in SUBSET S |-> IF s = {} THEN 0 ELSE g[s \ {Some(s)}] + w[Some(s)]]
  <2> HIDE DEF Some
  <2> QED
    BY <1>1
<1>3. Total(w, S) = g[S]
  BY DEF Total, FoldSet, MapThenFoldSet, Some
<1>4. Adds(g, w, S)
  <2> HIDE DEF g
  <2> QED
    BY <1>2 DEF Adds
<1> QED
  <2> HIDE DEF g
  <2> QED
    BY <1>3, <1>4
LEMMA AddsTyped ==
    ASSUME NEW S, IsFiniteSet(S), NEW w, \A v \in S : w[v] \in Nat, NEW g, Adds(g, w, S)
    PROVE  \A s \in SUBSET S : g[s] \in Nat
<1> DEFINE B == {s \in SUBSET S : g[s] \notin Nat}
<1> SUFFICES ASSUME B # {} PROVE FALSE
  OBVIOUS
<1>1. PICK s \in B : \A t \in B : Cardinality(s) <= Cardinality(t)
  BY SmallestSet
<1>2. s # {}
  BY <1>1 DEF Adds
<1>3. g[s] = g[s \ {Some(s)}] + w[Some(s)] /\ Some(s) \in s
  BY <1>2, SomeIsIn DEF Adds
<1>4. g[s \ {Some(s)}] \in Nat
  <2>1. IsFiniteSet(s)
    BY FS_Subset
  <2> QED
    BY <1>1, <1>3, <2>1, Smaller
<1> QED
  BY <1>1, <1>3, <1>4

\* The order in which the members are added does not matter.
LEMMA AddsAny ==
    ASSUME NEW S, IsFiniteSet(S), NEW w, \A v \in S : w[v] \in Nat, NEW g, Adds(g, w, S)
    PROVE  \A s \in SUBSET S : \A v \in s : g[s] = g[s \ {v}] + w[v]
<1> DEFINE B == {s \in SUBSET S : ~ \A v \in s : g[s] = g[s \ {v}] + w[v]}
<1> SUFFICES ASSUME B # {} PROVE FALSE
  OBVIOUS
<1>1. PICK s \in B : \A t \in B : Cardinality(s) <= Cardinality(t)
  BY SmallestSet
<1>2. PICK v \in s : g[s] # g[s \ {v}] + w[v]
  BY <1>1
<1> DEFINE x == Some(s)
<1>3. g[s] = g[s \ {x}] + w[x] /\ x \in s
  BY <1>2, SomeIsIn DEF Adds
<1> HIDE DEF x
<1>4. x # v
  BY <1>2, <1>3
<1>5. IsFiniteSet(s) /\ IsFiniteSet(s \ {v})
  BY FS_Subset
<1>6. \A y \in s : s \ {y} \in SUBSET S /\ s \ {y} \notin B
  BY <1>1, <1>5, SmallerIsLess
<1>7. g[s \ {x}] = g[s \ {x, v}] + w[v] /\ g[s \ {v}] = g[s \ {x, v}] + w[x]
  <2>1. (s \ {x}) \ {v} = s \ {x, v} /\ (s \ {v}) \ {x} = s \ {x, v}
    OBVIOUS
  <2> QED
    BY <1>2, <1>3, <1>4, <1>6, <2>1
<1>8. g[s \ {x, v}] \in Nat /\ w[x] \in Nat /\ w[v] \in Nat
  BY <1>3, AddsTyped
<1> QED
  BY <1>2, <1>3, <1>7, <1>8

LEMMA AddsMonotone ==
    ASSUME NEW S, IsFiniteSet(S), NEW T, IsFiniteSet(T), NEW w, NEW u,
           \A v \in S : w[v] \in Nat, \A v \in T : u[v] \in Nat, NEW g, Adds(g, w, S), NEW h, Adds(h, u, T)
    PROVE  \A s \in (SUBSET S) \cap (SUBSET T) : (\A v \in s : w[v] <= u[v]) => g[s] <= h[s]
<1> DEFINE B == {s \in SUBSET S : s \in SUBSET T /\ (\A v \in s : w[v] <= u[v]) /\ ~(g[s] <= h[s])}
<1> SUFFICES ASSUME B # {} PROVE FALSE
  OBVIOUS
<1>1. PICK s \in B : \A t \in B : Cardinality(s) <= Cardinality(t)
  BY SmallestSet
<1>2. s # {}
  BY <1>1 DEF Adds
<1> DEFINE x == Some(s)
<1>3. x \in s /\ g[s] = g[s \ {x}] + w[x] /\ h[s] = h[s \ {x}] + u[x]
  BY <1>2, SomeIsIn DEF Adds
<1> HIDE DEF x
<1>4. IsFiniteSet(s)
  BY FS_Subset
<1>5. s \ {x} \notin B
  BY <1>1, <1>3, <1>4, SmallerIsLess
<1>6. g[s \ {x}] \in Nat /\ h[s \ {x}] \in Nat /\ w[x] \in Nat /\ u[x] \in Nat /\ w[x] <= u[x]
  BY <1>3, AddsTyped
<1> QED
  BY <1>1, <1>3, <1>5, <1>6

LEMMA TotalOfNone == ASSUME NEW w PROVE Total(w, {}) = 0
<1>1. IsFiniteSet({})
  BY FS_EmptySet
<1> QED
  BY <1>1, TotalAdds DEF Adds

LEMMA TotalTyped ==
    ASSUME NEW S, IsFiniteSet(S), NEW w, \A v \in S : w[v] \in Nat
    PROVE  Total(w, S) \in Nat
  BY TotalAdds, AddsTyped

LEMMA TotalMonotone ==
    ASSUME NEW S, IsFiniteSet(S), NEW w, NEW u, \A v \in S : w[v] \in Nat /\ u[v] \in Nat /\ w[v] <= u[v]
    PROVE  Total(w, S) <= Total(u, S)
<1>1. PICK g : Adds(g, w, S) /\ Total(w, S) = g[S]
  BY TotalAdds
<1>2. PICK h : Adds(h, u, S) /\ Total(u, S) = h[S]
  BY TotalAdds
<1> QED
  BY <1>1, <1>2, AddsMonotone

LEMMA TotalSame ==
    ASSUME NEW S, IsFiniteSet(S), NEW w, NEW u, \A v \in S : w[v] \in Nat /\ u[v] = w[v]
    PROVE  Total(w, S) = Total(u, S)
<1>1. Total(w, S) <= Total(u, S) /\ Total(u, S) <= Total(w, S)
  BY TotalMonotone
<1>2. Total(w, S) \in Nat /\ Total(u, S) \in Nat
  BY TotalTyped
<1> QED
  BY <1>1, <1>2

LEMMA TotalWithout ==
    ASSUME NEW S, IsFiniteSet(S), NEW w, \A v \in S : w[v] \in Nat, NEW v \in S
    PROVE  Total(w, S) = Total(w, S \ {v}) + w[v]
<1>1. PICK g : Adds(g, w, S) /\ Total(w, S) = g[S]
  BY TotalAdds
<1>2. IsFiniteSet(S \ {v})
  BY Smaller
<1>3. PICK h : Adds(h, w, S \ {v}) /\ Total(w, S \ {v}) = h[S \ {v}]
  BY <1>2, TotalAdds
<1>4. g[S] = g[S \ {v}] + w[v]
  BY <1>1, AddsAny
<1>5. g[S \ {v}] <= h[S \ {v}] /\ h[S \ {v}] <= g[S \ {v}]
  BY <1>1, <1>2, <1>3, AddsMonotone
<1>6. g[S \ {v}] \in Nat /\ h[S \ {v}] \in Nat
  BY <1>1, <1>2, <1>3, AddsTyped
<1> QED
  BY <1>1, <1>3, <1>4, <1>5, <1>6
-----------------------------------------------------------------------------
(* What is reserved *)

Reservations == [v \in Volumes |-> Reserved(v)]
ReservedOf(r) == IF r.pending > 0 THEN r.pending ELSE r.size

\* A directory holds no more than is reserved for it: before a resize has grown it no more than the size it has,
\* and nothing once it was removed.  The reservations fit the quota and the backend.
Covered ==
    /\ \A v \in Volumes : vol[v].size <= Reserved(v) /\ disk[v] <= Reserved(v)
    /\ \A w \in Workers :
          /\ At(w, "Grow") \/ At(w, "Grown") => vol[work[w].vol].pending = work[w].size
          /\ At(w, "Grow") => disk[work[w].vol] <= vol[work[w].vol].size
          /\ At(w, "Row") => disk[work[w].vol] = 0
    /\ Total(Reservations, Volumes) <= Quota /\ Total(Reservations, Volumes) <= Capacity

\* What a step of a worker does with what is reserved for its volume
Secures(w) == LET v == work[w].vol IN
    /\ vol'[v].size <= ReservedOf(vol'[v]) /\ disk'[v] <= ReservedOf(vol'[v])
    /\ work'[w].pc \in {"Grow", "Grown"} => vol'[v].pending = work'[w].size
    /\ work'[w].pc = "Grow" => disk'[v] <= vol'[v].size
    /\ work'[w].pc = "Row" => disk'[v] = 0
    /\ ReservedOf(vol'[v]) <= Reserved(v) \/ Allowed(v, ReservedOf(vol'[v]))

\* The invariant, of the volume of a worker
LEMMA CoveredOfStep ==
    ASSUME VolumesAssumption, VInv, Covered, NEW w \in Workers, work[w].pc # "Idle"
    PROVE  LET v == work[w].vol IN
           /\ v \in Volumes /\ work[w] \in Works /\ work[w].size \in Nat /\ work[w].size > 0
           /\ vol[v] \in Rows /\ vol[v].size \in Nat /\ vol[v].pending \in Nat /\ disk[v] \in Nat
           /\ vol[v].pending > 0 <=> vol[v].status = "Resizing"
           /\ vol[v].status = "Absent" => vol[v] = Absent
           /\ Held(w) # "Free" => vol[v].status = Held(w)
           /\ Held(w) = "Creating" => vol[v].size = work[w].size
           /\ vol[v].size <= ReservedOf(vol[v]) /\ disk[v] <= ReservedOf(vol[v])
           /\ At(w, "Grow") \/ At(w, "Grown") => vol[v].pending = work[w].size
           /\ At(w, "Grow") => disk[v] <= vol[v].size
           /\ At(w, "Grown") => disk[v] = work[w].size
           /\ At(w, "Row") => disk[v] = 0
<1> DEFINE v == work[w].vol
<1>1. v \in Volumes /\ work[w] \in Works /\ work[w].size \in 1..MaxSize /\ vol[v] \in Rows /\ disk[v] \in 0..MaxSize
      /\ MaxSize \in Nat
  BY AtStep
<1>2. /\ work[w].size \in Nat /\ work[w].size > 0 /\ vol[v].size \in Nat /\ vol[v].pending \in Nat /\ disk[v] \in Nat
  BY <1>1 DEF Rows
<1>3. Held(w) = "Creating" => vol[v].size = work[w].size
  <2> SUFFICES ASSUME Held(w) = "Creating" PROVE vol[v].size = work[w].size
    OBVIOUS
  <2>1. Creates(w) /\ vol[v].status = "Creating"
    BY RowOfStep DEF Creates, Held, Lock, KindOf
  <2>2. Begun(v, work[w].size)
    BY <2>1, RowOfStep
  <2> QED
    BY <2>1, <2>2 DEF Begun, Absent
<1>4. vol[v].size <= ReservedOf(vol[v]) /\ disk[v] <= ReservedOf(vol[v])
  BY <1>1 DEF Covered, Reserved, ReservedOf
<1> QED
  BY <1>1, <1>2, <1>3, <1>4, RowOfStep DEF Covered

LEMMA CreateSecures ==
    ASSUME VolumesAssumption, VInv, Covered, NEW w \in Workers,
           Create(w) \/ Provision(w) \/ Finish(w) \/ Failed(w) \/ CreateFails(w) \/ CleanUpFails(w)
    PROVE  Secures(w)
<1> DEFINE v == work[w].vol
<1> USE DEF VInv, Types
<1>0. work[w].pc # "Idle"
  BY DEF Create, Provision, Finish, Failed, CreateFails, CleanUpFails, At
<1>1. CASE Create(w)
  <2>1. disk' = disk /\ work'[w].pc \notin {"Grow", "Grown", "Row"}
    BY <1>0, <1>1, CoveredOfStep DEF Create, Goto, Done, Idle, Works
  <2>2. CASE vol'[v] = vol[v]
    BY <1>0, <2>1, <2>2, CoveredOfStep DEF Secures, Reserved, ReservedOf
  <2>3. CASE vol'[v] # vol[v]
    <3>1. /\ vol[v] = Absent /\ Allowed(v, work[w].size)
          /\ vol'[v] = [status |-> "Creating", size |-> work[w].size, pending |-> 0]
      BY <1>0, <1>1, <2>3, CoveredOfStep DEF Create
    <3> QED
      BY <1>0, <2>1, <3>1, CoveredOfStep DEF Secures, ReservedOf, Absent
  <2> QED
    BY <2>2, <2>3
<1>2. CASE Provision(w)
  <2>1. vol' = vol /\ disk'[v] = work[w].size /\ work'[w].pc = "Finish"
    BY <1>0, <1>2, CoveredOfStep DEF Provision, Goto, Works
  <2>2. Held(w) = "Creating"
    BY <1>2 DEF Provision, At, Held, Lock
  <2> QED
    BY <1>0, <2>1, <2>2, CoveredOfStep DEF Secures, Reserved, ReservedOf
<1>3. CASE Finish(w)
  <2>1. disk' = disk /\ work'[w].pc \notin {"Grow", "Grown", "Row"}
    BY <1>0, <1>3, CoveredOfStep DEF Finish, Goto, Done, Idle, Works
  <2>2. vol'[v].size = vol[v].size /\ vol'[v].pending = vol[v].pending
    BY <1>0, <1>3, CoveredOfStep DEF Finish, Rows
  <2> QED
    BY <1>0, <2>1, <2>2, CoveredOfStep DEF Secures, Reserved, ReservedOf
<1>4. CASE Failed(w) \/ CleanUpFails(w)
  <2>1. work'[w].pc \notin {"Grow", "Grown", "Row"}
    <3>1. work' = [work EXCEPT ![w] = Idle] /\ Idle.pc = "Idle"
      BY <1>4 DEF Failed, CleanUpFails, Done, Idle
    <3> QED
      BY <3>1
  <2>2. \/ disk'[v] = 0 /\ vol'[v] \in {Absent, vol[v]}
        \/ disk'[v] = disk[v] /\ vol'[v].size = vol[v].size /\ vol'[v].pending = vol[v].pending
    <3>1. CASE Failed(w) /\ CleanUp(w)
      BY <1>0, <3>1, CoveredOfStep DEF Failed, Rows
    <3>2. CASE Failed(w) /\ ~CleanUp(w)
      BY <1>0, <3>2, CoveredOfStep DEF Failed, Rows
    <3>3. CASE CleanUpFails(w)
      BY <1>0, <3>3, CoveredOfStep DEF CleanUpFails, Rows
    <3> QED
      BY <1>4, <3>1, <3>2, <3>3
  <2>3. CASE disk'[v] = 0 /\ vol'[v] = Absent
    BY <1>0, <2>1, <2>3, CoveredOfStep DEF Secures, Reserved, ReservedOf, Absent
  <2>4. CASE disk'[v] = 0 /\ vol'[v] = vol[v]
    BY <1>0, <2>1, <2>4, CoveredOfStep DEF Secures, Reserved, ReservedOf
  <2>5. CASE disk'[v] = disk[v] /\ vol'[v].size = vol[v].size /\ vol'[v].pending = vol[v].pending
    BY <1>0, <2>1, <2>5, CoveredOfStep DEF Secures, Reserved, ReservedOf
  <2> QED
    BY <2>2, <2>3, <2>4, <2>5
<1>5. CASE CreateFails(w)
  <2>1. vol' = vol /\ disk' = disk /\ work'[w].pc = "Failed"
    BY <1>0, <1>5, CoveredOfStep DEF CreateFails, Goto, Works
  <2> QED
    BY <1>0, <2>1, CoveredOfStep DEF Secures, Reserved, ReservedOf
<1> QED
  BY <1>1, <1>2, <1>3, <1>4, <1>5

LEMMA ResizeSecures ==
    ASSUME VolumesAssumption, VInv, Covered, "verify" \notin Cases, NEW w \in Workers,
           Resize(w) \/ Grow(w) \/ Grown(w) \/ ResizeFails(w)
    PROVE  Secures(w)
<1> DEFINE v == work[w].vol
<1> USE DEF VInv, Types
<1>0. work[w].pc # "Idle"
  BY DEF Resize, Grow, Grown, ResizeFails, At
<1>1. CASE Resize(w)
  <2>1. CASE vol[v] # Absent /\ work[w].size > vol[v].size /\ Resizable(v) /\ Allowed(v, work[w].size)
    <3>1. /\ disk' = disk /\ work'[w] = [work[w] EXCEPT !.pc = "Grow"]
          /\ vol'[v] = [vol[v] EXCEPT !.pending = work[w].size, !.status = "Resizing"]
      BY <1>0, <1>1, <2>1, CoveredOfStep DEF Resize, Goto
    <3>2. work'[w].pc = "Grow" /\ work'[w].size = work[w].size /\ vol'[v].size = vol[v].size
          /\ vol'[v].pending = work[w].size
      BY <1>0, <3>1, CoveredOfStep DEF Works, Rows
    <3>3. ReservedOf(vol[v]) = vol[v].size /\ ReservedOf(vol'[v]) = work[w].size
      BY <1>0, <2>1, <3>2, CoveredOfStep DEF Resizable, ReservedOf
    <3> QED
      BY <1>0, <2>1, <3>1, <3>2, <3>3, CoveredOfStep DEF Secures
  <2>2. CASE ~(vol[v] # Absent /\ work[w].size > vol[v].size /\ Resizable(v) /\ Allowed(v, work[w].size))
    <3>1. disk' = disk /\ vol' = vol /\ work'[w] = Idle
      BY <1>0, <1>1, <2>2 DEF Resize, Done
    <3> QED
      BY <1>0, <3>1, CoveredOfStep DEF Secures, Idle, Reserved, ReservedOf
  <2> QED
    BY <2>1, <2>2
<1>2. CASE Grow(w)
  <2>1. vol' = vol /\ disk'[v] = work[w].size /\ work'[w].pc = "Grown" /\ work'[w].size = work[w].size
    BY <1>0, <1>2, CoveredOfStep DEF Grow, Goto, Works
  <2>2. At(w, "Grow")
    BY <1>2 DEF Grow
  <2> QED
    BY <1>0, <2>1, <2>2, CoveredOfStep DEF Secures, Reserved, ReservedOf
<1>3. CASE Grown(w)
  <2>1. At(w, "Grown") /\ vol[v].pending > 0 /\ vol[v] # Absent
    BY <1>0, <1>3, CoveredOfStep DEF Grown, Absent
  <2>2. disk' = disk /\ work'[w] = Idle /\ vol'[v] = [status |-> "Ready", size |-> work[w].size, pending |-> 0]
    BY <1>0, <1>3, <2>1, CoveredOfStep DEF Grown, Done
  <2> QED
    BY <1>0, <2>1, <2>2, CoveredOfStep DEF Secures, Reserved, ReservedOf, Idle
<1>4. CASE ResizeFails(w)
  <2>1. At(w, "Grow") /\ vol[v] # Absent
    BY <1>0, <1>4, CoveredOfStep DEF ResizeFails, Absent, At, Held, Lock
  <2>2. disk' = disk /\ work'[w] = Idle /\ vol'[v].size = vol[v].size /\ vol'[v].pending = 0
    BY <1>0, <1>4, <2>1, CoveredOfStep DEF ResizeFails, Done, Released, Rows
  <2> QED
    BY <1>0, <2>1, <2>2, CoveredOfStep DEF Secures, Reserved, ReservedOf, Idle
<1> QED
  BY <1>1, <1>2, <1>3, <1>4

LEMMA DeleteSecures ==
    ASSUME VolumesAssumption, VInv, Covered, NEW w \in Workers,
           Delete(w) \/ Remove(w) \/ DeleteRow(w) \/ RemoveFails(w)
    PROVE  Secures(w)
<1> DEFINE v == work[w].vol
<1> USE DEF VInv, Types
<1>0. work[w].pc # "Idle"
  BY DEF Delete, Remove, DeleteRow, RemoveFails, At
<1>1. CASE Delete(w) \/ RemoveFails(w)
  <2>1. disk' = disk /\ work'[w].pc \notin {"Grow", "Grown", "Row"}
    BY <1>0, <1>1, CoveredOfStep DEF Delete, RemoveFails, Goto, Done, Idle, Works
  <2>2. vol'[v].size = vol[v].size /\ vol'[v].pending = vol[v].pending
    BY <1>0, <1>1, CoveredOfStep DEF Delete, RemoveFails, Rows
  <2> QED
    BY <1>0, <2>1, <2>2, CoveredOfStep DEF Secures, Reserved, ReservedOf
<1>2. CASE Remove(w)
  <2>1. vol' = vol /\ disk'[v] = 0 /\ work'[w].pc = "Row"
    BY <1>0, <1>2, CoveredOfStep DEF Remove, Goto, Works
  <2> QED
    BY <1>0, <2>1, CoveredOfStep DEF Secures, Reserved, ReservedOf
<1>3. CASE DeleteRow(w)
  <2>1. At(w, "Row") /\ disk' = disk /\ work'[w] = Idle /\ vol'[v] \in {Absent, vol[v]}
    BY <1>0, <1>3, CoveredOfStep DEF DeleteRow, Done
  <2>2. CASE vol'[v] = Absent
    BY <1>0, <2>1, <2>2, CoveredOfStep DEF Secures, Reserved, ReservedOf, Absent, Idle
  <2>3. CASE vol'[v] = vol[v]
    BY <1>0, <2>1, <2>3, CoveredOfStep DEF Secures, Reserved, ReservedOf, Idle
  <2> QED
    BY <2>1, <2>2, <2>3
<1> QED
  BY <1>1, <1>2, <1>3

LEMMA ReservationsTyped ==
    ASSUME VolumesAssumption, Types
    PROVE  /\ IsFiniteSet(Volumes) /\ Quota \in Nat /\ Capacity \in Nat
           /\ \A v \in Volumes : /\ Reservations[v] = ReservedOf(vol[v]) /\ Reservations[v] \in Nat
                                 /\ vol[v].size \in Nat /\ disk[v] \in Nat
<1>1. \A v \in Volumes : vol[v].size \in Nat /\ vol[v].pending \in Nat /\ disk[v] \in Nat
  <2> TAKE v \in Volumes
  <2>1. vol[v] \in Rows /\ disk[v] \in 0..MaxSize /\ MaxSize \in Nat
    BY DEF VolumesAssumption, Types
  <2> QED
    BY <2>1 DEF Rows
<1> QED
  BY <1>1 DEF VolumesAssumption, Reservations, Reserved, ReservedOf

\* Less is reserved than before, or what assertQuotaAllowsVolumeChange and assertCapacity let through
LEMMA TotalsFit ==
    ASSUME VolumesAssumption, Types, Types', Covered, NEW v \in Volumes,
           \A u \in Volumes : u # v => vol'[u] = vol[u],
           ReservedOf(vol'[v]) <= Reserved(v) \/ Allowed(v, ReservedOf(vol'[v]))
    PROVE  Total(Reservations', Volumes) <= Quota /\ Total(Reservations', Volumes) <= Capacity
<1>1. /\ IsFiniteSet(Volumes) /\ Quota \in Nat /\ Capacity \in Nat
      /\ \A u \in Volumes : Reservations[u] = ReservedOf(vol[u]) /\ Reservations[u] \in Nat
  BY ReservationsTyped
<1>2. \A u \in Volumes : Reservations'[u] = ReservedOf(vol'[u]) /\ Reservations'[u] \in Nat
  <2> TAKE u \in Volumes
  <2>1. vol'[u] \in Rows /\ MaxSize \in Nat
    BY DEF VolumesAssumption, Types
  <2>2. vol'[u].size \in Nat /\ vol'[u].pending \in Nat
    BY <2>1 DEF Rows
  <2> QED
    BY <2>2 DEF Reservations, Reserved, ReservedOf
<1>3. Total(Reservations, Volumes) \in Nat /\ Total(Reservations', Volumes) \in Nat
  BY <1>1, <1>2, TotalTyped
<1>4. CASE ReservedOf(vol'[v]) <= Reserved(v)
  <2>1. \A u \in Volumes : Reservations'[u] <= Reservations[u]
    BY <1>1, <1>2, <1>4 DEF Reserved, ReservedOf
  <2>2. Total(Reservations', Volumes) <= Total(Reservations, Volumes)
    BY <1>1, <1>2, <2>1, TotalMonotone
  <2> QED
    BY <1>1, <1>3, <2>2 DEF Covered
<1>5. CASE Allowed(v, ReservedOf(vol'[v]))
  <2>1. Total(Reservations', Volumes) = Total(Reservations', Volumes \ {v}) + Reservations'[v]
    BY <1>1, <1>2, TotalWithout
  <2>2. Total(Reservations, Volumes \ {v}) = Total(Reservations', Volumes \ {v})
    <3>1. IsFiniteSet(Volumes \ {v})
      BY <1>1, Smaller
    <3>2. \A u \in Volumes \ {v} : Reservations[u] \in Nat /\ Reservations'[u] = Reservations[u]
      BY <1>1, <1>2
    <3> QED
      BY <3>1, <3>2, TotalSame
  <2>3. /\ Total(Reservations, Volumes \ {v}) + ReservedOf(vol'[v]) <= Quota
        /\ Total(Reservations, Volumes \ {v}) + ReservedOf(vol'[v]) <= Capacity
    BY <1>5 DEF Allowed, Reservations
  <2> QED
    BY <1>2, <2>1, <2>2, <2>3
<1> QED
  BY <1>4, <1>5

LEMMA SecuresInv ==
    ASSUME VolumesAssumption, VInv, VInv', Covered, NEW w \in Workers, Moves(w), Secures(w)
    PROVE  Covered'
<1> DEFINE v == work[w].vol
<1>0. /\ \A x \in Workers : x # w => work'[x] = work[x]
      /\ \A u \in Volumes : u # v => vol'[u] = vol[u] /\ disk'[u] = disk[u]
      /\ v \in Volumes
  BY NewValues
<1>1. \A u \in Volumes : vol'[u].size <= Reserved(u)' /\ disk'[u] <= Reserved(u)'
  BY <1>0 DEF Covered, Secures, Reserved, ReservedOf
<1>2. ASSUME NEW x \in Workers
      PROVE  /\ At(x, "Grow")' \/ At(x, "Grown")' => vol'[work'[x].vol].pending = work'[x].size
             /\ At(x, "Grow")' => disk'[work'[x].vol] <= vol'[work'[x].vol].size
             /\ At(x, "Row")' => disk'[work'[x].vol] = 0
  <2>1. CASE x = w
    BY <2>1 DEF Moves, Goes, Secures, Idle, At
  <2>2. CASE x # w /\ work[x].vol = v
    <3>1. work[x].pc \in {"Grow", "Grown", "Row"} => vol'[v] = vol[v] /\ disk'[v] = disk[v]
      BY <2>2, OthersGoOn DEF Held, Lock
    <3> QED
      BY <1>0, <2>2, <3>1 DEF Covered, At
  <2>3. CASE x # w /\ work[x].vol # v
    BY <1>0, <2>3 DEF VInv, WorkIsOfJob, Covered, At
  <2> QED
    BY <2>1, <2>2, <2>3
<1>3. Total(Reservations', Volumes) <= Quota /\ Total(Reservations', Volumes) <= Capacity
  BY <1>0, TotalsFit DEF Secures, VInv
<1> QED
  BY <1>1, <1>2, <1>3 DEF Covered

LEMMA CoveredInit == ASSUME VolumesAssumption, Init PROVE Covered
<1>1. \A v \in Volumes : Reserved(v) = 0 /\ vol[v].size = 0 /\ disk[v] = 0
  BY DEF Init, Reserved, Absent
<1>2. IsFiniteSet(Volumes) /\ Quota \in Nat /\ Capacity \in Nat
  BY DEF VolumesAssumption
<1>3. Total(Reservations, Volumes) = 0
  <2>1. \A S \in SUBSET Volumes : Total(Reservations, S) = 0
    <3> DEFINE B == {S \in SUBSET Volumes : Total(Reservations, S) # 0}
    <3> SUFFICES ASSUME B # {} PROVE FALSE
      OBVIOUS
    <3>1. PICK S \in B : \A T \in B : Cardinality(S) <= Cardinality(T)
      BY <1>2, SmallestSet
    <3>2. PICK v : v \in S
      BY TotalOfNone
    <3>3. IsFiniteSet(S)
      BY <1>2, FS_Subset
    <3>4. Total(Reservations, S \ {v}) = 0
      BY <3>1, <3>2, <3>3, SmallerIsLess
    <3>5. \A u \in S : Reservations[u] = 0
      BY <1>1 DEF Reservations
    <3>6. Total(Reservations, S) = Total(Reservations, S \ {v}) + Reservations[v]
      BY <3>2, <3>3, <3>5, TotalWithout
    <3> QED
      BY <3>2, <3>4, <3>5, <3>6
  <2> QED
    BY <2>1
<1> QED
  BY <1>1, <1>2, <1>3 DEF Covered, Init, At, Idle

\* What is reserved covers what the directories may hold and fits the tenant's quota and the backend, unless a resize
\* that raised the limit is taken back (assertQuotaAllowsVolumeChange, assertCapacity, failResize).
THEOREM ReservationsHold ==
    ASSUME VolumesAssumption, Exclusive, Complete, "verify" \notin Cases
    PROVE  Spec => []LimitsAreReserved
<1>1. Init => Covered
  BY CoveredInit
<1>2. IInv /\ IInv' /\ Covered /\ [Next]_vars => Covered'
  <2> SUFFICES ASSUME IInv, IInv', Covered, [Next]_vars PROVE Covered'
    OBVIOUS
  <2>1. ASSUME NEW w \in Workers, Acts(w) PROVE Covered'
    <3>1. Moves(w)
      BY <2>1, ActMoves DEF IInv
    <3>2. Secures(w)
      BY <2>1, CreateSecures, ResizeSecures, DeleteSecures DEF IInv, Acts
    <3> QED
      BY <3>1, <3>2, SecuresInv DEF IInv
  <2>2. ASSUME UNCHANGED <<vol, disk>>,
               \A w \in Workers : work'[w].pc \in {"Grow", "Grown", "Row"} => work'[w] = work[w]
        PROVE  Covered'
    <3>1. Reservations' = Reservations
      BY <2>2 DEF Reservations, Reserved
    <3> QED
      BY <2>2, <3>1 DEF Covered, At, Reserved
  <2>3. CASE \E v \in Volumes, kind \in {"create", "resize", "delete"}, n \in 1..MaxSize \cup {1} : Request(v, kind, n)
    BY <2>2, <2>3 DEF Request
  <2>4. ASSUME NEW w \in Workers, (\E j \in jobs : Take(w, j)) \/ Crash(w) PROVE Covered'
    <3>1. work \in [Workers -> Works] /\ UNCHANGED <<vol, disk>>
      BY <2>4 DEF IInv, VInv, Types, Take, Crash
    <3>2. \A x \in Workers : work'[x].pc \in {"Grow", "Grown", "Row"} => work'[x] = work[x]
      <4>1. CASE Crash(w)
        <5>1. work' = [work EXCEPT ![w] = Idle] /\ Idle.pc = "Idle"
          BY <4>1 DEF Crash, Done, Exclusive, Idle
        <5> QED
          BY <3>1, <5>1
      <4>2. CASE \E j \in jobs : Take(w, j)
        <5>1. PICK j \in jobs : Take(w, j)
          BY <4>2
        <5>2. PICK n : n = [Idle EXCEPT !.pc = "Start", !.kind = j.kind, !.vol = j.vol, !.size = j.size]
          OBVIOUS
        <5>3. work' = [work EXCEPT ![w] = n] /\ n.pc = "Start"
          BY <5>1, <5>2 DEF Take, Idle
        <5> QED
          BY <3>1, <5>3
      <4> QED
        BY <2>4, <4>1, <4>2
    <3> QED
      BY <2>2, <3>1, <3>2
  <2>5. ASSUME NEW g \in Groups, GroupSteps(g) PROVE Covered'
    <3>1. UNCHANGED <<vol, disk, work>>
      BY <2>5 DEF GroupSteps, Attach, Detach, Resolve, Import, ReadDraft, RequestDeploy, Validate,
         Apply, ApplyFails, Converged, RolloutFails, RolledBack, Observe
    <3> QED
      BY <2>2, <3>1
  <2>6. CASE UNCHANGED vars
    BY <2>2, <2>6 DEF vars
  <2> QED
    BY <2>1, <2>3, <2>4, <2>5, <2>6, NextIs
<1>3. IInv /\ Covered => LimitsAreReserved
  <2> SUFFICES ASSUME IInv, Covered PROVE LimitsAreReserved
    OBVIOUS
  <2>1. /\ IsFiniteSet(Volumes) /\ Quota \in Nat /\ Capacity \in Nat
        /\ \A v \in Volumes : /\ Reservations[v] = ReservedOf(vol[v]) /\ Reservations[v] \in Nat
                              /\ vol[v].size \in Nat /\ disk[v] \in Nat
    BY ReservationsTyped DEF IInv, VInv
  <2> DEFINE sizes == [v \in Volumes |-> vol[v].size]
  <2>2. \A v \in Volumes : sizes[v] \in Nat /\ sizes[v] <= Reservations[v] /\ disk[v] <= Reservations[v]
    BY <2>1 DEF Covered, Reserved, ReservedOf
  <2>3. Total(sizes, Volumes) <= Total(Reservations, Volumes) /\ Total(disk, Volumes) <= Total(Reservations, Volumes)
    <3> HIDE DEF sizes
    <3> QED
      BY <2>1, <2>2, TotalMonotone
  <2>4. Total(sizes, Volumes) \in Nat /\ Total(disk, Volumes) \in Nat /\ Total(Reservations, Volumes) \in Nat
    <3> HIDE DEF sizes
    <3> QED
      BY <2>1, <2>2, TotalTyped
  <2> QED
    BY <2>1, <2>3, <2>4 DEF Covered, LimitsAreReserved
<1> QED
  BY <1>1, <1>2, <1>3, Inductive, PTL DEF Spec
=============================================================================
