------------------------------- MODULE Worker -------------------------------
(***************************************************************************)
(* The worker process: a loop that executes operations, a lane of critical *)
(* reconciliations, and the loop of main for the slow ones, which runs     *)
(* them all once before.  A signal or a failed loop ends it after what is  *)
(* in progress.  Its state is a row named by WORKER_ID, and production     *)
(* gives every process the same.                                           *)
(***************************************************************************)
EXTENDS Naturals, FiniteSets, Sequences

CONSTANTS
    Processes,      \* processes of one WORKER_ID, in any order
    Once,           \* those with WORKER_ONCE: one operation and nothing else
    Critical,       \* reconciliations of the lane, in its order
    Slow,           \* reconciliations of main, in its order
    Cases           \* windows that are open: "overlap"

WorkerAssumption ==
    /\ Once \subseteq Processes /\ Cases \subseteq {"overlap"}
    /\ Len(Critical) > 0 /\ Len(Slow) > 0

VARIABLES
    main,       \* where main is, and the slow reconciliation it is at
    ops,        \* the loop of operations
    lane,       \* the critical lane: asleep, at one of its tasks, or executing it
    due,        \* tasks whose time has come
    stopping, aborted, failed, crashed,     \* of each process
    row         \* status of the worker

loops == <<ops, lane>>
flags == <<stopping, aborted, failed, crashed>>
vars == <<main, loops, due, flags, row>>

Of(list) == {list[i] : i \in DOMAIN list}
NoLane == [at |-> "None", task |-> 0]

Init ==
    /\ main = [p \in Processes |-> [at |-> "None", task |-> 0]]
    /\ ops = [p \in Processes |-> "None"] /\ lane = [p \in Processes |-> NoLane]
    /\ due = [p \in Processes |-> {}]
    /\ stopping = [p \in Processes |-> FALSE] /\ aborted = [p \in Processes |-> FALSE]
    /\ failed = [p \in Processes |-> FALSE] /\ crashed = [p \in Processes |-> FALSE]
    /\ row = "None"

At(p, at) == main[p].at = at
Goes(p, at) == main' = [main EXCEPT ![p] = [at |-> at, task |-> 0]]
Set(flag, p) == [flag EXCEPT ![p] = TRUE]
\* Nothing of the process is in flight any more.
Drained(p) == ops[p] \in {"None", "Ended"} /\ lane[p].at \in {"None", "Ended"}
Over(p) == main[p].at \in {"None", "Exited"}

-----------------------------------------------------------------------------
(* main *)

\* Swarm starts a process when the one before has ended; on a node that is cut off it has not.
Start(p) ==
    /\ At(p, "None") /\ Goes(p, "Init")
    /\ "overlap" \in Cases \/ \A q \in Processes : Over(q)
    /\ due' = [due EXCEPT ![p] = Of(Critical) \cup Of(Slow)]
    /\ UNCHANGED <<loops, flags, row>>

\* Mutant: the row of an earlier process is kept.
KeepsRow(status) == IF status = "None" THEN "Running" ELSE status
\* started
StartedRow(status) == "Running"
Started(p) ==
    /\ At(p, "Init")
    /\ \/ Goes(p, "Open") /\ row' = StartedRow(row)
       \/ Goes(p, "Exited") /\ UNCHANGED row
    /\ UNCHANGED <<loops, due, flags>>

\* Mutant: the critical reconciliations have no lane of their own.
NoneAtStart(p) == NoLane
\* Gate policy must not wait for what is slow.
LaneAtStart(p) == IF p \in Once THEN NoLane ELSE [at |-> "Pass", task |-> 1]
Open(p) ==
    /\ At(p, "Open")
    /\ main' = [main EXCEPT ![p] = IF p \in Once THEN [at |-> "Await", task |-> 0] ELSE [at |-> "Startup", task |-> 1]]
    /\ ops' = [ops EXCEPT ![p] = "Check"]
    /\ lane' = [lane EXCEPT ![p] = LaneAtStart(p)]
    /\ UNCHANGED <<due, flags, row>>

\* The listener cannot be opened.
OpenFails(p) ==
    /\ At(p, "Open") /\ p \notin Once /\ Goes(p, "Crash")
    /\ UNCHANGED <<loops, due, flags, row>>

NextTask(p) ==
    IF main[p].task < Len(Slow) THEN main' = [main EXCEPT ![p].task = @ + 1] ELSE Goes(p, "Loop")

\* startupReconcile and reconcile: a failure is recorded like a success.
Startup(p) ==
    /\ At(p, "Startup") /\ NextTask(p)
    /\ due' = [due EXCEPT ![p] = @ \ {Slow[main[p].task]}]
    /\ UNCHANGED <<loops, flags, row>>

\* The conditions of the loop, and the sleep at its end
Loop(p) ==
    /\ At(p, "Loop")
    /\ main' = [main EXCEPT ![p] = IF stopping[p] THEN [at |-> "Await", task |-> 0] ELSE [at |-> "Pass", task |-> 1]]
    /\ UNCHANGED <<loops, due, flags, row>>

Reconcile(p) ==
    /\ At(p, "Pass") /\ NextTask(p)
    /\ due' = [due EXCEPT ![p] = @ \ {Slow[main[p].task]}]
    /\ UNCHANGED <<loops, flags, row>>

\* The failure of the loop of operations is thrown again.
Await(p) ==
    /\ At(p, "Await") /\ ops[p] = "Ended"
    /\ Goes(p, IF failed[p] THEN "Crash" ELSE "Finally")
    /\ UNCHANGED <<loops, due, flags, row>>

\* crashed, which may not reach the database
Crash(p) ==
    /\ At(p, "Crash") /\ Goes(p, "Finally")
    /\ crashed' = Set(crashed, p) /\ row' \in {row, "Crashed"}
    /\ UNCHANGED <<loops, due, stopping, aborted, failed>>

\* The tasks of a loop are not stopped halfway.
Finally(p) ==
    /\ At(p, "Finally") /\ Goes(p, "Drain")
    /\ stopping' = Set(stopping, p) /\ aborted' = Set(aborted, p)
    /\ UNCHANGED <<loops, due, failed, crashed, row>>

\* Mutant: main waits for the operations alone.
OperationsEnded(p) == ops[p] \in {"None", "Ended"}
MayStop(p) == Drained(p)
Stop(p) ==
    /\ At(p, "Drain") /\ MayStop(p) /\ Goes(p, "Exited")
    /\ row' = row \/ (~crashed[p] /\ row' = "Stopped")
    /\ due' = [due EXCEPT ![p] = {}]
    /\ UNCHANGED <<loops, flags>>

-----------------------------------------------------------------------------
(* The loop of operations *)

Poll(p) ==
    /\ ops[p] = "Check" /\ ops' = [ops EXCEPT ![p] = IF stopping[p] THEN "Ended" ELSE "Process"]
    /\ UNCHANGED <<main, lane, due, flags, row>>

\* processNext claimed an operation or found none, or the database cannot be reached.
Processed(p) ==
    /\ ops[p] = "Process" /\ ops' = [ops EXCEPT ![p] = IF p \in Once THEN "Ended" ELSE "Check"]
    /\ UNCHANGED <<main, lane, due, flags, row>>

ProcessFails(p) ==
    /\ ops[p] = "Process" /\ ops' = [ops EXCEPT ![p] = "Ended"]
    /\ failed' = Set(failed, p) /\ stopping' = Set(stopping, p)
    /\ UNCHANGED <<main, lane, due, aborted, crashed, row>>

-----------------------------------------------------------------------------
(* The lane: runReconcileLane *)

Task(p) == Critical[lane[p].task]
NextOfLane(p) == [lane EXCEPT ![p] = IF @.task < Len(Critical) THEN [at |-> "Pass", task |-> @.task + 1]
                                     ELSE [at |-> "Sleep", task |-> 0]]

LaneStep(p) ==
    /\ lane[p].at \in {"Pass", "Sleep"}
    /\ lane' = IF aborted[p] THEN [lane EXCEPT ![p] = [at |-> "Ended", task |-> 0]]
               ELSE IF lane[p].at = "Sleep" THEN [lane EXCEPT ![p] = [at |-> "Pass", task |-> 1]]
               ELSE IF Task(p) \in due[p] THEN [lane EXCEPT ![p].at = "Task"]
               ELSE NextOfLane(p)
    /\ UNCHANGED <<main, ops, due, flags, row>>

\* The next time is counted from the end of the task, whether it failed or not.
TaskEnds(p) ==
    /\ lane[p].at = "Task" /\ lane' = NextOfLane(p)
    /\ due' = [due EXCEPT ![p] = @ \ {Task(p)}]
    /\ UNCHANGED <<main, ops, flags, row>>

\* The interval of a task is over.
Elapse(p) ==
    /\ ~Over(p) /\ due[p] # Of(Critical) \cup Of(Slow)
    /\ due' = [due EXCEPT ![p] = Of(Critical) \cup Of(Slow)]
    /\ UNCHANGED <<main, loops, flags, row>>

-----------------------------------------------------------------------------
(* SIGTERM; the end of the grace period, or of the node *)

Signal(p) ==
    /\ ~Over(p) /\ ~At(p, "Init")
    /\ stopping' = Set(stopping, p) /\ aborted' = Set(aborted, p)
    /\ UNCHANGED <<main, loops, due, failed, crashed, row>>

Kill(p) ==
    /\ ~Over(p) /\ Goes(p, "Exited")
    /\ ops' = [ops EXCEPT ![p] = "Ended"] /\ lane' = [lane EXCEPT ![p] = [at |-> "Ended", task |-> 0]]
    /\ due' = [due EXCEPT ![p] = {}]
    /\ UNCHANGED <<flags, row>>

Main(p) == Start(p) \/ Started(p) \/ Open(p) \/ OpenFails(p) \/ Loop(p) \/ Await(p) \/ Crash(p) \/ Finally(p) \/ Stop(p)
Loops(p) == Poll(p) \/ Processed(p) \/ ProcessFails(p) \/ LaneStep(p) \/ TaskEnds(p)
Next == \E p \in Processes :
    Main(p) \/ Startup(p) \/ Reconcile(p) \/ Loops(p) \/ Elapse(p) \/ Signal(p) \/ Kill(p)

\* What is slow may hang: nothing is assumed of Startup and Reconcile.
Fairness == \A p \in Processes :
    /\ WF_vars(Main(p)) /\ WF_vars(Poll(p) \/ Processed(p)) /\ WF_vars(LaneStep(p) \/ TaskEnds(p))
    /\ WF_vars(Elapse(p))

Spec == Init /\ [][Next]_vars
FairSpec == Spec /\ Fairness

-----------------------------------------------------------------------------
(* Properties *)

\* The types of the variables; a task is one of its list.
TypeOK ==
    /\ main \in [Processes -> [at : {"None", "Init", "Open", "Startup", "Loop", "Pass", "Await", "Crash",
                                     "Finally", "Drain", "Exited"}, task : 0..Len(Slow)]]
    /\ ops \in [Processes -> {"None", "Check", "Process", "Ended"}]
    /\ lane \in [Processes -> [at : {"None", "Pass", "Task", "Sleep", "Ended"}, task : 0..Len(Critical)]]
    /\ due \in [Processes -> SUBSET (Of(Critical) \cup Of(Slow))]
    /\ stopping \in [Processes -> BOOLEAN] /\ aborted \in [Processes -> BOOLEAN]
    /\ failed \in [Processes -> BOOLEAN] /\ crashed \in [Processes -> BOOLEAN]
    /\ row \in {"None", "Running", "Stopped", "Crashed"}

\* A worker that is shown as stopped has nothing in flight, neither an operation nor a reconciliation
\* (the finally block of main).
StoppedIsDrained == row = "Stopped" => \A p \in Processes : Drained(p)

\* A worker that takes operations is shown as running, whatever an earlier process left
\* (WorkerRuntimeObservabilityService.started, stopped, crashed).
ServingIsShown ==
    \A p \in Processes : main[p].at \in {"Open", "Startup", "Loop", "Pass", "Await"} => row = "Running"

\* A process that ends by itself leaves nothing behind that still uses the database (app.close).
ExitIsClean == \A p \in Processes : At(p, "Exited") => Drained(p)

\* The critical reconciliations run again and again, even while a slow one hangs
\* (runReconcileLane, started before the first slow reconciliation).
CriticalRuns ==
    \A p \in Processes, k \in Of(Critical) :
        (ops[p] # "None" /\ p \notin Once) ~> (aborted[p] \/ At(p, "Exited") \/ (lane[p].at = "Task" /\ Task(p) = k))

\* After a signal no operation and no critical reconciliation begins, and those in progress end,
\* even while a slow one hangs (workerAbort, stopping).
SignalEnds == \A p \in Processes : aborted[p] ~> Drained(p)
=============================================================================
