--------------------------- MODULE MCDeployments -----------------------------
(* Deployments for TLC: with the single attempt that the trigger grants an  *)
(* Operation, and with two attempts, so that another process resumes what   *)
(* a crash has left.                                                        *)
EXTENDS Deployments, FiniteSets, TLC

ASSUME DeploymentsAssumption

\* Bound: three versions and one worker at a time with one attempt, two versions and
\* two workers with two.
Small ==
    /\ maxAttempts = 1 => Cardinality({w \in Workers : job[w] # NoJob}) <= 1
    /\ maxAttempts = 2 => status[3] = "Absent"

Symmetries == Permutations(Workers) \cup Permutations(Apps)
=============================================================================
