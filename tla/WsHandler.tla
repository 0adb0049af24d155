----------------------------- MODULE WsHandler -----------------------------
(***************************************************************************)
(* hypercompute-server/src/ws_handler.rs: handle_socket, one per           *)
(* connection.  It handles the messages of its worker one after the other  *)
(* and, once the connection is gone, requeues what its node was running.   *)
(***************************************************************************)
EXTENDS Scheduler

VARIABLE session

WsPc == {"new", "loop", "answered", "finalize", "finalized", "lost", "mpi_lost", "closed"}

(* task is the MPI task to finalize, job its state once taken from the map, *)
(* todo the snapshot of tasks to requeue                                   *)
WsState == [pc : WsPc, task : Tasks \cup {None}, job : Jobs \cup {None},
            todo : SUBSET Tasks]

WsTypeOK == session \in [Sessions -> WsState]

At(pc) == [pc |-> pc, task |-> None, job |-> None, todo |-> {}]

Finalizing(pc, t, job) == [pc |-> pc, task |-> t, job |-> job, todo |-> {}]

Requeueing(pc, todo) == [pc |-> pc, task |-> None, job |-> None, todo |-> todo]

WsInit == session = [s \in Sessions |-> At("new")]

(* the next message of connection s, none while the previous is handled *)
Receive(s, type) ==
  /\ session[s].pc \in {"new", "loop"}
  /\ call[s] = None
  /\ toServer[s] # <<>>
  /\ Head(toServer[s]).type = type
  /\ toServer' = [toServer EXCEPT ![s] = Tail(@)]

Goto(s, state) == session' = [session EXCEPT ![s] = state]

-----------------------------------------------------------------------------
OnRegister(s) ==
  /\ Receive(s, "Register")
  /\ Goto(s, At("loop"))
  /\ worker_channels' = [worker_channels EXCEPT ![NodeOf[s]] = s]
  /\ nodes' = [nodes EXCEPT ![NodeOf[s]] =
                 [status |-> "Online", active |-> 0, stale |-> FALSE]]
  /\ toWorker' = Delivered({s}, [type |-> "Registered"])
  /\ UNCHANGED <<link, rxOpen, pending_tasks, queue_locked, taskVars, mpi_jobs,
                 completed_tasks, historyVars>>

\* Seeded fault: the load of a node that is idle again is not stored.
OnHeartbeatBusyOnly(s) ==
  /\ Receive(s, "Heartbeat")
  /\ LET n == NodeOf[s]
         k == Head(toServer[s]).active
     IN  nodes' = IF nodes[n] = None THEN nodes
                  ELSE [nodes EXCEPT ![n] =
                          [status |-> IF k > 0 THEN "Busy" ELSE "Online",
                           active |-> IF k > 0 THEN k ELSE nodes[n].active,
                           stale |-> FALSE]]
  /\ UNCHANGED <<link, toWorker, rxOpen, session, worker_channels, pending_tasks,
                 queue_locked, taskVars, mpi_jobs, completed_tasks, historyVars>>

OnHeartbeat(s) ==
  /\ Receive(s, "Heartbeat")
  /\ LET n == NodeOf[s]
         k == Head(toServer[s]).active
     IN  nodes' = IF nodes[n] = None THEN nodes
                  ELSE [nodes EXCEPT ![n] =
                          [status |-> IF k > 0 THEN "Busy" ELSE "Online",
                           active |-> k, stale |-> FALSE]]
  /\ UNCHANGED <<link, toWorker, rxOpen, session, worker_channels, pending_tasks,
                 queue_locked, taskVars, mpi_jobs, completed_tasks, historyVars>>

\* Seeded fault: the task is copied, and left to complete_task to remove.
OnTaskResultCopies(s) ==
  /\ Receive(s, "TaskResult")
  /\ LET t == Head(toServer[s]).task
     IN  \/ /\ running_tasks[t] # None
            /\ CompleteTask(s, t, "Completed", None)
            /\ Goto(s, At("answered"))
            /\ UNCHANGED <<nodes, running_tasks, retry_counts>>
         \/ /\ running_tasks[t] = None
            /\ nodes' = DecrementActive(NodeOf[s])
            /\ UNCHANGED <<session, taskVars>>
  /\ UNCHANGED <<link, toWorker, rxOpen, worker_channels, pending_tasks,
                 queue_locked, mpi_jobs, completed_tasks, historyVars>>

OnTaskResult(s) ==
  /\ Receive(s, "TaskResult")
  /\ LET t == Head(toServer[s]).task
     IN  \/ /\ running_tasks[t] # None
            /\ running_tasks' = [running_tasks EXCEPT ![t] = None]
            /\ CompleteTask(s, t, "Completed", None)
            /\ Goto(s, At("answered"))
            /\ UNCHANGED <<nodes, retry_counts>>
         \/ /\ running_tasks[t] = None
            /\ nodes' = DecrementActive(NodeOf[s])
            /\ UNCHANGED <<session, taskVars>>
  /\ UNCHANGED <<link, toWorker, rxOpen, worker_channels, pending_tasks,
                 queue_locked, mpi_jobs, completed_tasks, historyVars>>

OnTaskError(s) ==
  /\ Receive(s, "TaskError")
  /\ LET t == Head(toServer[s]).task
     IN  \/ /\ running_tasks[t] # None
            /\ running_tasks' = [running_tasks EXCEPT ![t] = None]
            /\ Requeue(s, t)
            /\ Goto(s, At("answered"))
            /\ UNCHANGED <<nodes, retry_counts>>
         \/ /\ running_tasks[t] = None
            /\ nodes' = DecrementActive(NodeOf[s])
            /\ UNCHANGED <<session, taskVars>>
  /\ UNCHANGED <<link, toWorker, rxOpen, worker_channels, pending_tasks,
                 queue_locked, mpi_jobs, completed_tasks, historyVars>>

(* decrement_active, after the await of complete_task or requeue *)
Answered(s) ==
  /\ session[s].pc = "answered"
  /\ call[s] = None
  /\ Goto(s, At("loop"))
  /\ nodes' = DecrementActive(NodeOf[s])
  /\ UNCHANGED <<wireVars, worker_channels, pending_tasks, queue_locked, taskVars,
                 mpi_jobs, completed_tasks, historyVars>>

-----------------------------------------------------------------------------
OnMpiRankResult(s) ==
  /\ Receive(s, "MpiRankResult")
  /\ nodes' = DecrementActive(NodeOf[s])
  /\ LET m == Head(toServer[s])
         t == m.task
         job == RecordResult(mpi_jobs[t], m.rank, m.att)
     IN  \/ /\ mpi_jobs[t] = None
            /\ UNCHANGED <<mpi_jobs, session>>
         \/ /\ mpi_jobs[t] # None
            /\ mpi_jobs' = [mpi_jobs EXCEPT ![t] = job]
            /\ \/ IsComplete(job) /\ Goto(s, Finalizing("finalize", t, None))
               \/ ~IsComplete(job) /\ UNCHANGED session
  /\ UNCHANGED <<link, toWorker, rxOpen, worker_channels, pending_tasks,
                 queue_locked, taskVars, completed_tasks, historyVars>>

OnMpiRankError(s) ==
  /\ Receive(s, "MpiRankError")
  /\ nodes' = DecrementActive(NodeOf[s])
  /\ LET m == Head(toServer[s])
         t == m.task
         job == RecordError(mpi_jobs[t], m.rank, m.att)
     IN  \/ /\ mpi_jobs[t] = None
            /\ UNCHANGED <<mpi_jobs, session, toWorker>>
         \/ /\ mpi_jobs[t] # None
            /\ mpi_jobs' = [mpi_jobs EXCEPT ![t] = job]
            /\ \/ /\ IsComplete(job)
                  /\ Goto(s, Finalizing("finalize", t, None))
                  /\ UNCHANGED toWorker
               \/ /\ ~IsComplete(job)
                  /\ AbortMpiJob(t)
                  /\ UNCHANGED session
  /\ UNCHANGED <<link, rxOpen, worker_channels, pending_tasks, queue_locked,
                 taskVars, completed_tasks, historyVars>>

(* finalize_mpi_job: the entry of mpi_jobs was unlocked after is_complete *)
Finalize(s) ==
  /\ session[s].pc = "finalize"
  /\ LET t == session[s].task
     IN  /\ mpi_jobs' = [mpi_jobs EXCEPT ![t] = None]
         /\ Goto(s, IF mpi_jobs[t] = None THEN At("loop")
                    ELSE Finalizing("finalized", t, mpi_jobs[t]))
  /\ UNCHANGED <<wireVars, nodeVars, pending_tasks, queue_locked, taskVars,
                 completed_tasks, historyVars>>

\* Seeded fault: a finalized job is completed whether or not it still runs.
FinalizedAnyway(s) ==
  /\ session[s].pc = "finalized"
  /\ Goto(s, At("loop"))
  /\ LET t == session[s].task
     IN  /\ running_tasks' = [running_tasks EXCEPT ![t] = None]
         /\ CompleteTask(s, t, "MpiCompleted", session[s].job)
  /\ UNCHANGED <<wireVars, nodeVars, pending_tasks, queue_locked, retry_counts,
                 mpi_jobs, completed_tasks, historyVars>>

Finalized(s) ==
  /\ session[s].pc = "finalized"
  /\ Goto(s, At("loop"))
  /\ LET t == session[s].task
     IN  IF running_tasks[t] # None
         THEN /\ running_tasks' = [running_tasks EXCEPT ![t] = None]
              /\ CompleteTask(s, t, "MpiCompleted", session[s].job)
              /\ UNCHANGED retry_counts
         ELSE UNCHANGED taskVars
  /\ UNCHANGED <<wireVars, nodeVars, pending_tasks, queue_locked, mpi_jobs,
                 completed_tasks, historyVars>>

-----------------------------------------------------------------------------
OnDraining(s) ==
  /\ Receive(s, "Draining")
  /\ nodes' = WithStatus(NodeOf[s], "Draining")
  /\ UNCHANGED <<link, toWorker, rxOpen, session, worker_channels, pending_tasks,
                 queue_locked, taskVars, mpi_jobs, completed_tasks, historyVars>>

(* The read loop ends: a registered node loses its channel, whoever's it   *)
(* is by now, and the tasks it runs are listed.                            *)
OnClose(s) ==
  /\ session[s].pc \in {"new", "loop"}
  /\ call[s] = None
  /\ link[s] = "down"
  /\ toServer[s] = <<>>
  /\ \/ /\ session[s].pc = "loop"
        /\ Goto(s, Requeueing("lost", RunningOn(NodeOf[s])))
        /\ worker_channels' = [worker_channels EXCEPT ![NodeOf[s]] = None]
        /\ nodes' = WithStatus(NodeOf[s], "Offline")
        /\ UNCHANGED rxOpen
     \/ /\ session[s].pc = "new"
        /\ Goto(s, At("closed"))
        /\ rxOpen' = [rxOpen EXCEPT ![s] = FALSE]
        /\ UNCHANGED nodeVars
  /\ UNCHANGED <<link, toServer, toWorker, pending_tasks, queue_locked, taskVars,
                 mpi_jobs, completed_tasks, historyVars>>

\* Seeded fault: a task stays on the list when it has been requeued.
RequeueLostAgain(s) ==
  /\ session[s].pc \in {"lost", "mpi_lost"}
  /\ call[s] = None
  /\ \E t \in session[s].todo :
       /\ Requeue(s, t)
       /\ mpi_jobs' = IF session[s].pc = "lost" THEN mpi_jobs
                      ELSE [mpi_jobs EXCEPT ![t] = None]
  /\ UNCHANGED <<wireVars, nodeVars, session, pending_tasks, queue_locked,
                 running_tasks, retry_counts, completed_tasks, historyVars>>

RequeueLost(s) ==
  /\ session[s].pc \in {"lost", "mpi_lost"}
  /\ call[s] = None
  /\ \E t \in session[s].todo :
       /\ Requeue(s, t)
       /\ mpi_jobs' = IF session[s].pc = "lost" THEN mpi_jobs
                      ELSE [mpi_jobs EXCEPT ![t] = None]
       /\ Goto(s, Requeueing(session[s].pc, session[s].todo \ {t}))
  /\ UNCHANGED <<wireVars, nodeVars, pending_tasks, queue_locked, running_tasks,
                 retry_counts, completed_tasks, historyVars>>

LostRequeued(s) ==
  /\ session[s].pc \in {"lost", "mpi_lost"}
  /\ call[s] = None
  /\ session[s].todo = {}
  /\ \/ /\ session[s].pc = "lost"
        /\ Goto(s, Requeueing("mpi_lost", MpiRunningOn(NodeOf[s])))
        /\ UNCHANGED rxOpen
     \/ /\ session[s].pc = "mpi_lost"
        /\ Goto(s, At("closed"))
        /\ rxOpen' = [rxOpen EXCEPT ![s] = FALSE]
  /\ UNCHANGED <<link, toServer, toWorker, stateVars>>

WsNext(s) ==
  \/ OnRegister(s) \/ OnHeartbeat(s) \/ OnTaskResult(s) \/ OnTaskError(s)
  \/ Answered(s) \/ OnMpiRankResult(s) \/ OnMpiRankError(s) \/ Finalize(s) \/ Finalized(s)
  \/ OnDraining(s) \/ OnClose(s) \/ RequeueLost(s) \/ LostRequeued(s)

-----------------------------------------------------------------------------
(* A handler that finalizes a job is in no call, a task that was not       *)
(* submitted has no submit handler, and finitely many were submitted.      *)
HandlerInv ==
  /\ \A s \in Sessions :
       session[s].pc \in {"finalize", "finalized"} =>
         call[s] = None /\ session[s].task \in Tasks
  /\ \A s \in Sessions : session[s].pc = "finalized" => session[s].job \in Jobs
  /\ \A t \in Tasks : submitted_at[t] = 0 => call[t] = None
  /\ IsFiniteSet({t \in Tasks : submitted_at[t] # 0})
=============================================================================
