------------------------------ MODULE Workload ------------------------------
(***************************************************************************)
(* The bound on what an instance is asked to do.  A workload is a number   *)
(* of calls per operation; an instance starts from any of its workloads    *)
(* and interleaves their calls in every way.                               *)
(***************************************************************************)
EXTENDS Naturals

VARIABLE left  \* calls still to come, per operation

\* A call of op begins: it is counted, and the bound is not exceeded.
take(op) == op \in DOMAIN left /\ left[op] > 0 /\ left' = [left EXCEPT ![op] = @ - 1]

=============================================================================
