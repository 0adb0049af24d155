------------------------------- MODULE Proto -------------------------------
(***************************************************************************)
(* hypercompute-proto: the identities and the messages server and workers  *)
(* share.  A message carries no node_id: the node of a connection is       *)
(* NodeOf[s], because a worker keeps one id for the life of its process.   *)
(***************************************************************************)
EXTENDS Naturals, Sequences, FiniteSets

CONSTANTS
  Nodes,      \* worker processes, each with its own Uuid
  Sessions,   \* WebSocket connections, each used once
  NodeOf,     \* the worker that opens a connection
  Tasks,      \* tasks that clients may submit, each once
  MpiTasks,   \* the tasks of kind Mpi
  Np,         \* their np
  Priority,   \* Task::priority
  Suits,      \* the nodes that meet a task's hard requirements
  None        \* an absent map entry, an idle process

ASSUME IdsAssumption ==
  /\ NodeOf \in [Sessions -> Nodes]
  /\ MpiTasks \subseteq Tasks
  /\ Np \in [MpiTasks -> Nat]
  /\ Priority \in [Tasks -> Nat]
  /\ Suits \in [Tasks -> SUBSET Nodes]
  /\ Sessions \cap Tasks = {}
  /\ None \notin Sessions \cup Tasks \cup Nodes

IsMpi(t) == t \in MpiTasks

(* NodeStatus; the map entry of a node that never registered is None. *)
NodeStatus == {"Online", "Busy", "Draining", "Offline"}

(* The statuses a task of running_tasks may have: nothing assigns Running. *)
LiveStatus == {"Dispatched", "MpiDispatched", "Running"}

(* The statuses a task of completed_tasks may have. *)
FinalStatus == {"Completed", "MpiCompleted", "Failed"}

(* att is not in the messages: it is the number of the dispatch the answer *)
(* belongs to, kept for the properties.                                    *)
WorkerMessage ==
  [type : {"Register", "Draining"}]
    \cup [type : {"Heartbeat"}, active : Nat]
    \cup [type : {"TaskResult", "TaskError", "MpiRankResult", "MpiRankError"},
          task : Tasks, rank : Nat, att : Nat]

ServerMessage ==
  [type : {"Registered"}]
    \cup [type : {"AbortMpiJob"}, task : Tasks]
    \cup [type : {"DispatchTask", "DispatchMpiSlot"},
          task : Tasks, rank : Nat, att : Nat]
=============================================================================
