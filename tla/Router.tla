------------------------------- MODULE Router -------------------------------
(***************************************************************************)
(* hypercompute-server/src/router.rs: the REST handlers that change state. *)
(***************************************************************************)
EXTENDS Monitor

CONSTANT MayCancel   \* tasks that a client may cancel

(* Task::new and enqueue; the handler's push follows *)
SubmitTask(t) ==
  /\ submitted_at[t] = 0
  /\ submitted_at' = [submitted_at EXCEPT ![t] =
                        1 + Cardinality({u \in Tasks : submitted_at[u] # 0})]
  /\ Enqueue(t, t)
  /\ UNCHANGED <<wireVars, nodeVars, pending_tasks, queue_locked, running_tasks,
                 mpi_jobs, completed_tasks, attempt, gone>>

\* Seeded fault: a running task is cancelled.
CancelTaskRunning(t) ==
  /\ t \in MayCancel
  /\ running_tasks[t] # None
  /\ running_tasks' = [running_tasks EXCEPT ![t] = None]
  /\ gone' = gone \cup {t}
  /\ UNCHANGED <<wireVars, nodeVars, pending_tasks, queue_locked, retry_counts, call,
                 mpi_jobs, completed_tasks, submitted_at, attempt>>

\* Seeded fault: the queue is searched while the dispatcher holds it.
CancelTaskUnlocked(t) ==
  /\ t \in MayCancel
  /\ \E i \in 1 .. Len(pending_tasks) :
       /\ pending_tasks[i] = t
       /\ \A k \in 1 .. (i - 1) : pending_tasks[k] # t
       /\ pending_tasks' = RemoveAt(pending_tasks, i)
  /\ gone' = gone \cup {t}
  /\ UNCHANGED <<wireVars, nodeVars, queue_locked, taskVars, mpi_jobs,
                 completed_tasks, submitted_at, attempt>>

(* Only the queue is searched; retry_counts keeps the entry of the task.   *)
(* A task that is not found is answered 404 and nothing changes.           *)
CancelTask(t) ==
  /\ t \in MayCancel
  /\ ~queue_locked
  /\ \E i \in 1 .. Len(pending_tasks) :
       /\ pending_tasks[i] = t
       /\ \A j \in 1 .. (i - 1) : pending_tasks[j] # t
       /\ pending_tasks' = RemoveAt(pending_tasks, i)
  /\ gone' = gone \cup {t}
  /\ UNCHANGED <<wireVars, nodeVars, queue_locked, taskVars, mpi_jobs,
                 completed_tasks, submitted_at, attempt>>
=============================================================================
