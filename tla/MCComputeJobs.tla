---------------------------- MODULE MCComputeJobs ----------------------------
EXTENDS ComputeJobs, TLC

CONSTANTS big, small, w1, w2, n1

(* The small job may preempt the big one; the big one may also run remotely.*)
BigForSmall == {<<small, big>>}
TwoUnits == [j \in Jobs |-> IF j = big THEN 2 ELSE 1]
TwoClaims == [j \in Jobs |-> IF j = big THEN 2 ELSE 1]
WorkerSymmetry == Permutations({w1, w2})
=============================================================================
