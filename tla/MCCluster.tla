----------------------------- MODULE MCCluster -----------------------------
(***************************************************************************)
(* Instances of Cluster for TLC.                                           *)
(***************************************************************************)
EXTENDS Refinement

CONSTANTS n1, n2,        \* nodes
          s1, s2, s3,    \* connections: s1 and s3 of n1, s2 of n2
          t1, t2, t3, j      \* standard tasks, an MPI job

MCNodeOf == [s \in Sessions |-> IF s = s2 THEN n2 ELSE n1]
MCNp == [t \in MpiTasks |-> 2]
AnyNode == [t \in Tasks |-> Nodes]
T2OnN2 == [t \in Tasks |-> IF t = t2 THEN {n2} ELSE Nodes]
T1OnN1 == [t \in Tasks |-> IF t = t1 THEN {n1} ELSE Nodes]

\* t2 is urgent
Urgent == [t \in Tasks |-> IF t = t2 THEN 2 ELSE 1]
Even == [t \in Tasks |-> 1]

NoFailure == [t \in Tasks |-> 0]
OneFailure == [t \in Tasks |-> 1]
TwoFailures == [t \in Tasks |-> 2]
T1FailsOnce == [t \in Tasks |-> IF t = t1 THEN 1 ELSE 0]
=============================================================================
