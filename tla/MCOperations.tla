---------------------------- MODULE MCOperations ----------------------------
(* Operations for TLC: every worker process runs with a WORKER_ID of its    *)
(* own, here the process itself; the rows are one or two of chosen kinds.   *)
EXTENDS Operations, TLC

CONSTANTS o1, o2

OwnId == [w \in Workers |-> w]

\* A restart next to an Operation that may be attempted twice.
RestartAndOther == o1 :> "Restart" @@ o2 :> "Other"
OnceAndTwice == o1 :> 1 @@ o2 :> 2

\* The liveness runs have one row.
OneDeployment == o1 :> "Deployment"
OneOther == o1 :> "Other"
Twice == o1 :> 2

WorkerSymmetry == Permutations(Workers)
=============================================================================
