---------------------------- MODULE FencedQueue -----------------------------
(***************************************************************************)
(* What the Operation queue promises: a job queue with fencing tokens.     *)
(* Every claim of a job draws a fresh token, and only the worker holding   *)
(* the newest token may close the job.  The code stores no token: it       *)
(* compares the worker id in leaseOwner.  Operations implements this       *)
(* specification, so the comparison is as good as a token.                 *)
(***************************************************************************)
EXTENDS Naturals

CONSTANTS Ops, Workers, None

VARIABLES
    state,      \* of each job
    token,      \* newest token drawn for each job
    job         \* job[w]: the job and token worker w holds, or None

vars == <<state, token, job>>

Init ==
    /\ state = [o \in Ops |-> "Absent"]
    /\ token = [o \in Ops |-> 0]
    /\ job = [w \in Workers |-> None]

Enqueue(o) ==
    /\ state[o] = "Absent"
    /\ state' = [state EXCEPT ![o] = "Pending"]
    /\ UNCHANGED <<token, job>>

\* A waiting job, or one whose holder is presumed dead, goes to an idle worker.
Claim(w, o) ==
    /\ state[o] \in {"Pending", "Running"}
    /\ job[w] = None
    /\ state' = [state EXCEPT ![o] = "Running"]
    /\ token' = [token EXCEPT ![o] = @ + 1]
    /\ job' = [job EXCEPT ![w] = <<o, token[o] + 1>>]

\* The holder of the newest token closes the job or gives it back.
Close(w, o, s) ==
    /\ job[w] = <<o, token[o]>>
    /\ state[o] = "Running"
    /\ s \in {"Succeeded", "RolledBack", "Failed", "Pending"}
    /\ state' = [state EXCEPT ![o] = s]
    /\ job' = [job EXCEPT ![w] = None]
    /\ UNCHANGED token

\* A worker lets go of what it holds and has no say in the job any more.
Drop(w) ==
    /\ job' = [job EXCEPT ![w] = None]
    /\ UNCHANGED <<state, token>>

\* Unfinished jobs are given up.
GiveUp(S) ==
    /\ \A o \in S : state[o] \in {"Pending", "Running"}
    /\ state' = [o \in Ops |-> IF o \in S THEN "Failed" ELSE state[o]]
    /\ UNCHANGED <<token, job>>

Requeue(o) ==
    /\ state[o] = "Failed"
    /\ state' = [state EXCEPT ![o] = "Pending"]
    /\ UNCHANGED <<token, job>>

Next ==
    \/ \E o \in Ops : Enqueue(o) \/ Requeue(o)
    \/ \E w \in Workers :
           \/ Drop(w)
           \/ \E o \in Ops :
                  \/ Claim(w, o)
                  \/ \E s \in {"Succeeded", "RolledBack", "Failed", "Pending"} : Close(w, o, s)
    \/ \E S \in SUBSET Ops : GiveUp(S)

Spec == Init /\ [][Next]_vars
=============================================================================
