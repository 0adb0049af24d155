----------------------------- MODULE Refinement -----------------------------
(***************************************************************************)
(* Cluster implements TaskLifecycle: the stage of a task, computed from    *)
(* the queue, the maps and the calls in progress.                          *)
(***************************************************************************)
EXTENDS Cluster

Ending(t, status) ==
  \/ \E p \in Procs : /\ call[p] # None
                      /\ call[p].task = t
                      /\ call[p].op \in {"complete", "done"}
                      /\ call[p].status \in status
  \/ \E i \in 1 .. Len(completed_tasks) : /\ completed_tasks[i].task = t
                                          /\ completed_tasks[i].status \in status

BeingQueued(t) == \E p \in Procs : /\ call[p] # None
                                   /\ call[p].task = t
                                   /\ call[p].op \in {"enqueue", "push"}

(* The stage of a task that is in one place.  A task that is queued and    *)
(* completed, or queued twice, is in no stage that TaskLifecycle knows.    *)
(* requeue has the task still running until it removes it, complete_task   *)
(* has it ended: get_task, which looks at the collections only, may find   *)
(* it in neither.  A cancelled task keeps its entry in retry_counts,       *)
(* complete_task removes that of an ended one.                             *)
Stage(t) ==
  IF submitted_at[t] = 0 THEN "new"
  ELSE IF Places(t) # 1 THEN "astray"
  ELSE IF t \in gone THEN IF retry_counts[t] # None THEN "cancelled" ELSE "evicted"
  ELSE IF running_tasks[t] # None THEN "running"
  ELSE IF Queued(t) \/ BeingQueued(t) THEN "queued"
  ELSE IF Ending(t, {"Completed", "MpiCompleted"}) THEN "completed"
  ELSE IF Ending(t, {"Failed"}) THEN "failed"
  ELSE "running"

Lifecycle == INSTANCE TaskLifecycle WITH stage <- [t \in Tasks |-> Stage(t)]

(* A task that was cancelled, or forgotten, is nowhere any more, and no    *)
(* handler has it on its list: CancelTask and the drain of completed_tasks *)
(* each take away the only copy.  The refinement below rests on it.        *)
NoGhost ==
  \A t \in gone :
    /\ running_tasks[t] = None
    /\ ~Queued(t) /\ ~Held(t) /\ ~Completed(t)
    /\ t \notin Listed

(* What the proof of the refinement needs: a task that waits for a worker  *)
(* has an entry in retry_counts, which complete_task removes.              *)
BeingListed(t) == \E p \in Procs : InCall(p, "done") /\ call[p].task = t

EndInv ==
  \A t \in Tasks :
    /\ Queued(t) \/ BeingQueued(t) => retry_counts[t] # None
    /\ Completed(t) \/ BeingListed(t) => retry_counts[t] = None

(* The code implements the abstract specification while each task is in    *)
(* one place: an answer, a lost connection, a retry, a cancellation and an *)
(* eviction, in any order, never take a task back from its end, run it     *)
(* while it is queued, or cancel it while it runs.  It is not claimed of a *)
(* task that two handlers have lost, or one has lost and one completed:    *)
(* such a task is astray, and a second copy of it runs and ends again.     *)
LifecycleSpec == Lifecycle!Spec
=============================================================================
