------------------------------ MODULE Monitor ------------------------------
(***************************************************************************)
(* state.rs, monitor_nodes: every 10 s, the nodes not heard of for         *)
(* node_timeout_secs go Offline and what they run is requeued, then so are *)
(* the tasks Running for task_timeout_secs.  It runs in parallel with the  *)
(* handlers and works on snapshots.                                        *)
(***************************************************************************)
EXTENDS WsHandler

CONSTANT MayExpire   \* nodes whose heartbeats may be late

VARIABLE monitor

MonitorPc == {"idle", "dead", "lost", "mpi_lost", "timed_out"}

(* dead is the snapshot of dead nodes, node the one being handled, todo    *)
(* the snapshot of tasks to requeue                                        *)
MonitorState == [pc : MonitorPc, dead : SUBSET Nodes, node : Nodes \cup {None},
                 todo : SUBSET Tasks]

MonitorTypeOK == monitor \in MonitorState

Round(pc, dead, node, todo) == [pc |-> pc, dead |-> dead, node |-> node, todo |-> todo]

MonitorInit == monitor = Round("idle", {}, None, {})

(* last_seen falls behind the cutoff: time is left out, a heartbeat may be *)
(* delayed for as long as it takes.                                        *)
Silence(n) ==
  /\ n \in MayExpire
  /\ nodes[n] # None
  /\ ~nodes[n].stale
  /\ nodes' = [nodes EXCEPT ![n].stale = TRUE]
  /\ UNCHANGED <<wireVars, worker_channels, pending_tasks, queue_locked, taskVars,
                 mpi_jobs, completed_tasks, historyVars>>

DeadNodes == {n \in Nodes : /\ nodes[n] # None
                            /\ nodes[n].stale
                            /\ nodes[n].status # "Offline"}

(* started_at < cutoff2 is left out: the set is empty, no task is Running *)
TimedOut == {t \in Tasks : running_tasks[t] # None /\ running_tasks[t].status = "Running"}

(* a tick that finds neither a dead node nor a timed-out task does nothing *)
Tick ==
  /\ monitor.pc = "idle"
  /\ DeadNodes \cup TimedOut # {}
  /\ monitor' = Round("dead", DeadNodes, None, {})
  /\ UNCHANGED <<wireVars, stateVars>>

NextDead ==
  /\ monitor.pc = "dead"
  /\ \E n \in monitor.dead :
       /\ nodes' = WithStatus(n, "Offline")
       /\ monitor' = Round("lost", monitor.dead \ {n}, n, RunningOn(n))
  /\ UNCHANGED <<wireVars, worker_channels, pending_tasks, queue_locked, taskVars,
                 mpi_jobs, completed_tasks, historyVars>>

RequeueOne ==
  /\ monitor.pc \in {"lost", "mpi_lost", "timed_out"}
  /\ call[Monitor] = None
  /\ \E t \in monitor.todo :
       /\ Requeue(Monitor, t)
       /\ mpi_jobs' = IF monitor.pc = "mpi_lost"
                      THEN [mpi_jobs EXCEPT ![t] = None]
                      ELSE mpi_jobs
       /\ monitor' = Round(monitor.pc, monitor.dead, monitor.node, monitor.todo \ {t})
  /\ UNCHANGED <<wireVars, nodeVars, pending_tasks, queue_locked, running_tasks,
                 retry_counts, completed_tasks, historyVars>>

(* the phases of one round, each once the snapshot of the previous is done *)
NextPhase ==
  /\ call[Monitor] = None
  /\ monitor.todo = {}
  /\ \/ /\ monitor.pc = "lost"
        /\ monitor' = Round("mpi_lost", monitor.dead, monitor.node,
                             MpiRunningOn(monitor.node))
     \/ /\ monitor.pc = "mpi_lost"
        /\ monitor' = Round("dead", monitor.dead, None, {})
     \/ /\ monitor.pc = "dead"
        /\ monitor.dead = {}
        /\ monitor' = Round("timed_out", {}, None, TimedOut)
     \/ /\ monitor.pc = "timed_out"
        /\ monitor' = Round("idle", {}, None, {})
  /\ UNCHANGED <<wireVars, stateVars>>

MonitorNext == Tick \/ NextDead \/ RequeueOne \/ NextPhase
=============================================================================
