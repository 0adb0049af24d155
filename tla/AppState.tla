------------------------------ MODULE AppState ------------------------------
(***************************************************************************)
(* hypercompute-server/src/state.rs: the state the server's tasks share    *)
(* and the functions that move a task through it.                          *)
(*                                                                         *)
(* A step is the code between two awaits; it is also cut where a message   *)
(* is sent and where a map entry is unlocked and looked up again.  A call  *)
(* of requeue, enqueue or complete_task takes several steps: call[p] says  *)
(* how far process p is in it, and p goes on when it has returned.         *)
(***************************************************************************)
EXTENDS Wire, MpiJobState

CONSTANTS
  Monitor,         \* the task of monitor_nodes
  MaxRetries,      \* --max-retries
  CompletedCap,    \* 10_000
  CompletedDrain   \* 1000

ASSUME LimitsAssumption ==
  /\ MaxRetries \in Nat
  /\ CompletedCap \in Nat
  /\ CompletedDrain \in 0 .. CompletedCap
  /\ Monitor \notin Sessions \cup Tasks \cup {None}

VARIABLES
  nodes, worker_channels, pending_tasks, running_tasks, completed_tasks,
  retry_counts, mpi_jobs,
  queue_locked,    \* the mutex of pending_tasks is held over an await-free scan
  call,            \* where a process is in requeue, enqueue or complete_task
  submitted_at,    \* Task::submitted_at, as a rank; 0 before the submission
  attempt,         \* history: how often a task has been dispatched
  gone             \* history: tasks cancelled, or evicted from completed_tasks

nodeVars    == <<nodes, worker_channels>>
taskVars    == <<running_tasks, retry_counts, call>>
historyVars == <<submitted_at, attempt, gone>>
stateVars   == <<nodeVars, pending_tasks, queue_locked, taskVars, mpi_jobs,
                 completed_tasks, historyVars>>

(* submit handlers are named after the task they submit *)
Procs == Sessions \cup Tasks \cup {Monitor}

NodeInfo  == [status : NodeStatus, active : Nat, stale : BOOLEAN]
LiveTask  == [status : LiveStatus, nodes : SUBSET Nodes]
Jobs      == MpiJob({Np[t] : t \in MpiTasks})
DoneTask  == [task : Tasks, status : FinalStatus, job : Jobs \cup {None}]

(* a call, by what it does next; left is what is left of the retries read *)
Queueing  == [op : {"requeue", "enqueue", "push"}, task : Tasks]
Retrying  == [op : {"retry"}, task : Tasks, left : 0 .. MaxRetries]
Finishing == [op : {"complete", "done"}, task : Tasks, status : FinalStatus,
              job : Jobs \cup {None}]
Calls     == Queueing \cup Retrying \cup Finishing

ASSUME NoneAssumption ==
  None \notin NodeInfo \cup LiveTask \cup Jobs \cup Calls \cup Nat

AppTypeOK ==
  /\ nodes \in [Nodes -> NodeInfo \cup {None}]
  /\ worker_channels \in [Nodes -> Sessions \cup {None}]
  /\ pending_tasks \in Seq(Tasks)
  /\ queue_locked \in BOOLEAN
  /\ running_tasks \in [Tasks -> LiveTask \cup {None}]
  /\ retry_counts \in [Tasks -> 0 .. MaxRetries \cup {None}]
  /\ mpi_jobs \in [Tasks -> Jobs \cup {None}]
  /\ completed_tasks \in Seq(DoneTask)
  /\ call \in [Procs -> Calls \cup {None}]
  /\ submitted_at \in [Tasks -> Nat]
  /\ attempt \in [Tasks -> Nat]
  /\ gone \in SUBSET Tasks

AppInit ==
  /\ nodes = [n \in Nodes |-> None]
  /\ worker_channels = [n \in Nodes |-> None]
  /\ pending_tasks = <<>>
  /\ queue_locked = FALSE
  /\ running_tasks = [t \in Tasks |-> None]
  /\ retry_counts = [t \in Tasks |-> None]
  /\ mpi_jobs = [t \in Tasks |-> None]
  /\ completed_tasks = <<>>
  /\ call = [p \in Procs |-> None]
  /\ submitted_at = [t \in Tasks |-> 0]
  /\ attempt = [t \in Tasks |-> 0]
  /\ gone = {}

-----------------------------------------------------------------------------
(* Helpers *)

(* the node map with field f of n changed, if n is in it *)
WithStatus(n, st) ==
  [nodes EXCEPT ![n] = IF @ = None THEN None ELSE [@ EXCEPT !.status = st]]

WithActive(n, k) ==
  [nodes EXCEPT ![n] = IF @ = None THEN None ELSE [@ EXCEPT !.active = k]]

(* saturating_sub *)
DecrementActive(n) ==
  WithActive(n, IF nodes[n] = None \/ nodes[n].active = 0
                THEN 0 ELSE nodes[n].active - 1)

IncrementActive(n) ==
  WithActive(n, IF nodes[n] = None THEN 0 ELSE nodes[n].active + 1)

(* send_to_worker returns true when the channel exists and has a receiver *)
ChannelOpen(n) == worker_channels[n] # None /\ rxOpen[worker_channels[n]]

SendToWorker(n, msg) == toWorker' = Delivered({worker_channels[n]}, msg)

(* what the cleanup of a handler and the monitor look for *)
RunningOn(n) == {t \in Tasks : /\ running_tasks[t] # None
                               /\ running_tasks[t].status \in {"Dispatched", "Running"}
                               /\ running_tasks[t].nodes = {n}}

MpiRunningOn(n) == {t \in Tasks : /\ running_tasks[t] # None
                                  /\ running_tasks[t].status = "MpiDispatched"
                                  /\ n \in running_tasks[t].nodes}

-----------------------------------------------------------------------------
(* requeue, enqueue, complete_task *)

InCall(p, op) == call[p] # None /\ call[p].op = op

Requeue(p, t) == call' = [call EXCEPT ![p] = [op |-> "requeue", task |-> t]]

CompleteTask(p, t, st, job) ==
  call' = [call EXCEPT ![p] =
             [op |-> "complete", task |-> t, status |-> st, job |-> job]]

Enqueue(p, t) ==
  /\ retry_counts' = [retry_counts EXCEPT ![t] = MaxRetries]
  /\ call' = [call EXCEPT ![p] = [op |-> "push", task |-> t]]

\* Seeded fault: the last retry is refused.
ReadRetriesOneLess(p) ==
  /\ InCall(p, "requeue")
  /\ LET t == call[p].task IN
     \/ /\ retry_counts[t] \in {None, 0, 1}
        /\ running_tasks' = [running_tasks EXCEPT ![t] = None]
        /\ CompleteTask(p, t, "Failed", None)
     \/ /\ retry_counts[t] \notin {None, 0, 1}
        /\ call' = [call EXCEPT ![p] =
                      [op |-> "retry", task |-> t, left |-> retry_counts[t] - 1]]
        /\ UNCHANGED running_tasks
  /\ UNCHANGED <<nodeVars, pending_tasks, queue_locked, retry_counts, mpi_jobs,
                 completed_tasks, historyVars>>

(* requeue: what it reads here, less one, is written in a later step.  The *)
(* task without retries leaves the running map at once: complete_task will *)
(* remove it once more, so that no step in between makes a difference.     *)
ReadRetries(p) ==
  /\ InCall(p, "requeue")
  /\ LET t == call[p].task IN
     \/ /\ retry_counts[t] \in {None, 0}
        /\ running_tasks' = [running_tasks EXCEPT ![t] = None]
        /\ CompleteTask(p, t, "Failed", None)
     \/ /\ retry_counts[t] \notin {None, 0}
        /\ call' = [call EXCEPT ![p] =
                      [op |-> "retry", task |-> t, left |-> retry_counts[t] - 1]]
        /\ UNCHANGED running_tasks
  /\ UNCHANGED <<nodeVars, pending_tasks, queue_locked, retry_counts, mpi_jobs,
                 completed_tasks, historyVars>>

\* Seeded fault: requeue writes the retry count and forgets to enqueue.
WriteRetriesOnly(p) ==
  /\ InCall(p, "retry")
  /\ LET t == call[p].task IN
     /\ retry_counts' = [retry_counts EXCEPT ![t] = call[p].left]
     /\ running_tasks' = [running_tasks EXCEPT ![t] = None]
     /\ call' = [call EXCEPT ![p] = None]
  /\ UNCHANGED <<nodeVars, pending_tasks, queue_locked, mpi_jobs, completed_tasks,
                 historyVars>>

(* Whatever has become of the task since the read. *)
WriteRetries(p) ==
  /\ InCall(p, "retry")
  /\ LET t == call[p].task IN
     /\ retry_counts' = [retry_counts EXCEPT ![t] = call[p].left]
     /\ running_tasks' = [running_tasks EXCEPT ![t] = None]
     /\ call' = [call EXCEPT ![p] = [op |-> "enqueue", task |-> t]]
  /\ UNCHANGED <<nodeVars, pending_tasks, queue_locked, mpi_jobs, completed_tasks,
                 historyVars>>

(* requeue calls enqueue, which writes the maximum over what it wrote. *)
Reenqueue(p) ==
  /\ InCall(p, "enqueue")
  /\ Enqueue(p, call[p].task)
  /\ UNCHANGED <<nodeVars, pending_tasks, queue_locked, running_tasks, mpi_jobs,
                 completed_tasks, historyVars>>

(* complete_task, before it awaits the lock of completed_tasks *)
EndTask(p) ==
  /\ InCall(p, "complete")
  /\ running_tasks' = [running_tasks EXCEPT ![call[p].task] = None]
  /\ retry_counts' = [retry_counts EXCEPT ![call[p].task] = None]
  /\ call' = [call EXCEPT ![p].op = "done"]
  /\ UNCHANGED <<nodeVars, pending_tasks, queue_locked, mpi_jobs, completed_tasks,
                 historyVars>>

Before(t, u) ==
  \/ Priority[t] > Priority[u]
  \/ Priority[t] = Priority[u] /\ submitted_at[t] < submitted_at[u]

\* Seeded fault: enqueue pushes and does not sort.
PositionLast(t) == Len(pending_tasks) + 1

(* push and the stable sort of a queue that was sorted *)
Position(t) ==
  1 + Cardinality({i \in 1 .. Len(pending_tasks) : ~Before(t, pending_tasks[i])})

Push(p) ==
  /\ InCall(p, "push")
  /\ ~queue_locked
  /\ pending_tasks' = InsertAt(pending_tasks, Position(call[p].task), call[p].task)
  /\ call' = [call EXCEPT ![p] = None]
  /\ UNCHANGED <<nodeVars, queue_locked, running_tasks, retry_counts, mpi_jobs,
                 completed_tasks, historyVars>>

Done(p) ==
  /\ InCall(p, "done")
  /\ LET done == Append(completed_tasks, [task |-> call[p].task,
                                          status |-> call[p].status,
                                          job |-> call[p].job])
         drain == IF Len(done) > CompletedCap THEN CompletedDrain ELSE 0
     IN  /\ completed_tasks' = SubSeq(done, drain + 1, Len(done))
         /\ gone' = gone \cup {done[i].task : i \in 1 .. drain}
  /\ call' = [call EXCEPT ![p] = None]
  /\ UNCHANGED <<nodeVars, pending_tasks, queue_locked, running_tasks,
                 retry_counts, mpi_jobs, submitted_at, attempt>>

(* the next step of a call *)
ReturnFromCall(p) ==
  \/ ReadRetries(p) \/ WriteRetries(p) \/ Reenqueue(p) \/ Push(p)
  \/ EndTask(p) \/ Done(p)
=============================================================================
