----------------------------- MODULE Scheduler -----------------------------
(***************************************************************************)
(* hypercompute-server/src/scheduler.rs: dispatch_pending, run every 200   *)
(* ms.  It holds the mutex of pending_tasks from the first line to the     *)
(* last, scans the queue, and removes at the end what it dispatched.  The  *)
(* other tasks of the server and the workers run in parallel with it: an   *)
(* answer may arrive between the send and the line that records it.        *)
(***************************************************************************)
EXTENDS AppState

CONSTANT MaxAttempts   \* bound on the dispatches of a task

ASSUME MaxAttemptsAssumption == MaxAttempts \in Nat

VARIABLE sched

SchedPc == {"idle", "scan", "record", "mpi", "job"}

(* idx is the position of the scan, targets the nodes chosen for the task  *)
(* there, rank how many of them have been sent their slot, ok is all_ok    *)
SchedState == [pc : SchedPc, idx : Nat, targets : Seq(Nodes), rank : Nat,
               ok : BOOLEAN, dispatched : SUBSET Nat]

SchedTypeOK == sched \in SchedState

SchedIdle == [pc |-> "idle", idx |-> 0, targets |-> <<>>, rank |-> 0,
              ok |-> TRUE, dispatched |-> {}]

SchedInit == sched = SchedIdle

(* score_for refuses Offline and Draining nodes and those that miss a hard *)
(* requirement; the score that ranks the others is left out, any of them   *)
(* may be chosen.  A task at the bound of the model has no eligible node.  *)
Eligible(t) ==
  {n \in Suits[t] : /\ nodes[n] # None
                    /\ nodes[n].status \notin {"Offline", "Draining"}
                    /\ attempt[t] < MaxAttempts}

Current == pending_tasks[sched.idx]

Scanning(t) ==
  /\ sched.pc = "scan"
  /\ sched.idx <= Len(pending_tasks)
  /\ t = Current

Scan(i, dispatched) == [pc |-> "scan", idx |-> i, targets |-> <<>>, rank |-> 0,
                        ok |-> TRUE, dispatched |-> dispatched]

NextTask == Scan(sched.idx + 1, sched.dispatched)

DispatchedTask == Scan(sched.idx + 1, sched.dispatched \cup {sched.idx})

Chosen(pc, targets) == [pc |-> pc, idx |-> sched.idx, targets |-> targets, rank |-> 0,
                        ok |-> TRUE, dispatched |-> sched.dispatched]

SlotSent(ok) == [pc |-> "mpi", idx |-> sched.idx, targets |-> sched.targets,
                 rank |-> sched.rank + 1, ok |-> sched.ok /\ ok,
                 dispatched |-> sched.dispatched]

-----------------------------------------------------------------------------
Lock ==
  /\ sched.pc = "idle"
  /\ ~queue_locked
  /\ pending_tasks # <<>>
  /\ queue_locked' = TRUE
  /\ sched' = Scan(1, {})
  /\ UNCHANGED <<wireVars, nodeVars, pending_tasks, taskVars, mpi_jobs,
                 completed_tasks, historyVars>>

(* no eligible node, or fewer than np: the task stays in the queue *)
Skip ==
  /\ \E t \in Tasks :
       /\ Scanning(t)
       /\ Cardinality(Eligible(t)) < IF IsMpi(t) THEN Np[t] ELSE 1
  /\ sched' = NextTask
  /\ UNCHANGED <<wireVars, stateVars>>

SendTask(t, n) ==
  /\ Scanning(t)
  /\ \/ /\ ChannelOpen(n)
        /\ SendToWorker(n, [type |-> "DispatchTask", task |-> t, rank |-> 0,
                            att |-> attempt[t] + 1])
        /\ attempt' = [attempt EXCEPT ![t] = @ + 1]
        /\ sched' = Chosen("record", <<n>>)
        /\ UNCHANGED nodes
     \/ /\ ~ChannelOpen(n)
        /\ nodes' = WithStatus(n, "Offline")
        /\ sched' = NextTask
        /\ UNCHANGED <<toWorker, attempt>>
  /\ UNCHANGED <<link, toServer, rxOpen, worker_channels, pending_tasks,
                 queue_locked, taskVars, mpi_jobs, completed_tasks,
                 submitted_at, gone>>

Send == \E t \in Tasks \ MpiTasks : \E n \in Eligible(t) : SendTask(t, n)

\* Seeded fault: the task is recorded only on a node that is still there.
RecordIfOnline ==
  /\ sched.pc = "record"
  /\ LET n == sched.targets[1]
     IN  /\ nodes' = IncrementActive(n)
         /\ running_tasks' = IF nodes[n].status = "Offline" THEN running_tasks
                             ELSE [running_tasks EXCEPT ![Current] =
                                     [status |-> "Dispatched", nodes |-> {n}]]
  /\ sched' = DispatchedTask
  /\ UNCHANGED <<wireVars, worker_channels, pending_tasks, queue_locked,
                 retry_counts, call, mpi_jobs, completed_tasks, historyVars>>

Record ==
  /\ sched.pc = "record"
  /\ LET n == sched.targets[1]
     IN  /\ nodes' = IncrementActive(n)
         /\ running_tasks' = [running_tasks EXCEPT ![Current] =
                                [status |-> "Dispatched", nodes |-> {n}]]
  /\ sched' = DispatchedTask
  /\ UNCHANGED <<wireVars, worker_channels, pending_tasks, queue_locked,
                 retry_counts, call, mpi_jobs, completed_tasks, historyVars>>

(* recruit_mpi_nodes: np distinct nodes, their order is the order of ranks *)
RecruitNodes(t, f) ==
  /\ Scanning(t)
  /\ \A i, k \in 1 .. Np[t] : f[i] = f[k] => i = k
  /\ sched' = Chosen("mpi", f)
  /\ attempt' = [attempt EXCEPT ![t] = @ + 1]
  /\ UNCHANGED <<wireVars, nodeVars, pending_tasks, queue_locked, taskVars,
                 mpi_jobs, completed_tasks, submitted_at, gone>>

Recruit == \E t \in MpiTasks : \E f \in [1 .. Np[t] -> Eligible(t)] : RecruitNodes(t, f)

SendSlot ==
  /\ sched.pc = "mpi"
  /\ sched.rank < Len(sched.targets)
  /\ LET n == sched.targets[sched.rank + 1]
     IN  \/ /\ ChannelOpen(n)
            /\ SendToWorker(n, [type |-> "DispatchMpiSlot", task |-> Current,
                                rank |-> sched.rank, att |-> attempt[Current]])
            /\ nodes' = IncrementActive(n)
            /\ sched' = SlotSent(TRUE)
         \/ /\ ~ChannelOpen(n)
            /\ nodes' = WithStatus(n, "Offline")
            /\ sched' = SlotSent(FALSE)
            /\ UNCHANGED toWorker
  /\ UNCHANGED <<link, toServer, rxOpen, worker_channels, pending_tasks,
                 queue_locked, taskVars, mpi_jobs, completed_tasks, historyVars>>

RecordMpi ==
  /\ sched.pc = "mpi"
  /\ sched.rank = Len(sched.targets)
  /\ sched.ok
  /\ running_tasks' = [running_tasks EXCEPT ![Current] =
                         [status |-> "MpiDispatched",
                          nodes |-> {sched.targets[i] : i \in 1 .. Len(sched.targets)}]]
  /\ sched' = [sched EXCEPT !.pc = "job"]
  /\ UNCHANGED <<wireVars, nodeVars, pending_tasks, queue_locked, retry_counts,
                 call, mpi_jobs, completed_tasks, historyVars>>

RegisterJob ==
  /\ sched.pc = "job"
  /\ mpi_jobs' = [mpi_jobs EXCEPT ![Current] = NewJob(Len(sched.targets))]
  /\ sched' = DispatchedTask
  /\ UNCHANGED <<wireVars, nodeVars, pending_tasks, queue_locked, taskVars,
                 completed_tasks, historyVars>>

(* abort_mpi_job: to every node of the map that has a channel *)
AbortMpiJob(t) ==
  toWorker' = Delivered({worker_channels[n] : n \in {m \in Nodes : nodes[m] # None}},
                        [type |-> "AbortMpiJob", task |-> t])

\* Seeded fault: an aborted job is removed from the queue like the others.
AbortDispatchRemoves ==
  /\ sched.pc = "mpi"
  /\ sched.rank = Len(sched.targets)
  /\ ~sched.ok
  /\ AbortMpiJob(Current)
  /\ sched' = DispatchedTask
  /\ UNCHANGED <<link, toServer, rxOpen, stateVars>>

AbortDispatch ==
  /\ sched.pc = "mpi"
  /\ sched.rank = Len(sched.targets)
  /\ ~sched.ok
  /\ AbortMpiJob(Current)
  /\ sched' = NextTask
  /\ UNCHANGED <<link, toServer, rxOpen, stateVars>>

(* After the scan: the loop that removes the dispatched positions, the     *)
(* last one first, and the end of the function.                            *)
Scanned == sched.pc = "scan" /\ sched.idx > Len(pending_tasks)

\* Seeded fault: the positions are removed first one first.
SweepForwards ==
  /\ Scanned
  /\ \E i \in sched.dispatched :
       /\ \A k \in sched.dispatched : i <= k
       /\ pending_tasks' = RemoveAt(pending_tasks, i)
       /\ sched' = [sched EXCEPT !.dispatched = @ \ {i}]
  /\ UNCHANGED <<wireVars, nodeVars, queue_locked, taskVars, mpi_jobs,
                 completed_tasks, historyVars>>

Sweep ==
  /\ Scanned
  /\ \E i \in sched.dispatched :
       /\ \A k \in sched.dispatched : k <= i
       /\ pending_tasks' = RemoveAt(pending_tasks, i)
       /\ sched' = [sched EXCEPT !.dispatched = @ \ {i}]
  /\ UNCHANGED <<wireVars, nodeVars, queue_locked, taskVars, mpi_jobs,
                 completed_tasks, historyVars>>

Unlock ==
  /\ Scanned
  /\ sched.dispatched = {}
  /\ queue_locked' = FALSE
  /\ sched' = SchedIdle
  /\ UNCHANGED <<wireVars, nodeVars, pending_tasks, taskVars, mpi_jobs,
                 completed_tasks, historyVars>>

SchedNext ==
  \/ Lock \/ Skip \/ Send \/ Record
  \/ Recruit \/ SendSlot \/ RecordMpi \/ RegisterJob \/ AbortDispatch
  \/ Sweep \/ Unlock

-----------------------------------------------------------------------------
(* The dispatcher holds the queue from its first step to its last, the     *)
(* positions it keeps stay those of the tasks it saw, and an MPI task has  *)
(* been given one node per rank.                                           *)
ScanInv ==
  /\ queue_locked <=> sched.pc # "idle"
  /\ sched.pc # "idle" => sched.idx >= 1
  /\ sched.pc \in {"record", "mpi", "job"} => sched.idx <= Len(pending_tasks)
  /\ sched.pc = "record" => Len(sched.targets) = 1
  /\ sched.pc \in {"mpi", "job"} =>
       Current \in MpiTasks /\ Len(sched.targets) = Np[Current]
  /\ sched.pc = "idle" => sched.dispatched = {}
  /\ \A i \in sched.dispatched : i \in 1 .. Len(pending_tasks) /\ i < sched.idx
=============================================================================
