--------------------------- MODULE ClusterProofs ---------------------------
(***************************************************************************)
(* The inductive invariant of the whole system: the steps of the           *)
(* dispatcher, of the handlers, of the monitor, of the REST handlers and   *)
(* of the workers keep the types, the facts of ScanInv about the scan,     *)
(* those of HandlerInv about the handlers, and ActiveInv: the counter of a *)
(* connection is never less than the executions it stands for.  So every   *)
(* reachable state has its type, and no connection has more executions     *)
(* than --max-tasks.                                                       *)
(***************************************************************************)
EXTENDS Cluster, QueueLemmas, FiniteSetTheorems


(* What a handler leaves in the channels of the workers. *)
LEMMA DeliveredType ==
  ASSUME WireTypeOK, NEW ss, NEW msg \in ServerMessage
  PROVE  Delivered(ss, msg) \in [Sessions -> Seq(ServerMessage)]
BY DEF WireTypeOK, Delivered

(* What a worker leaves in the channels of the server. *)
LEMMA SentType ==
  ASSUME WireTypeOK, NEW s \in Sessions, NEW msgs \in Seq(WorkerMessage)
  PROVE  Sent(s, msgs) \in [Sessions -> Seq(WorkerMessage)]
BY DEF WireTypeOK, Sent

(* The sorted position is a position of the queue or the one after it. *)
LEMMA PositionType ==
  ASSUME pending_tasks \in Seq(Tasks), NEW t \in Tasks
  PROVE  Position(t) \in 1 .. Len(pending_tasks) + 1
<1> DEFINE I == {i \in 1 .. Len(pending_tasks) : ~Before(t, pending_tasks[i])}
<1>0. Len(pending_tasks) \in Nat
  OBVIOUS
<1>1. IsFiniteSet(1 .. Len(pending_tasks))
        /\ Cardinality(1 .. Len(pending_tasks)) = Len(pending_tasks)
  BY <1>0, FS_Interval
<1>2. IsFiniteSet(I) /\ Cardinality(I) <= Len(pending_tasks)
  <2>1. I \subseteq 1 .. Len(pending_tasks)
    OBVIOUS
  <2> HIDE DEF I
  <2>2. IsFiniteSet(I) /\ Cardinality(I) <= Cardinality(1 .. Len(pending_tasks))
    BY <1>1, <2>1, FS_Subset
  <2> QED BY <1>1, <2>2
<1>3. Cardinality(I) \in Nat
  <2> HIDE DEF I
  <2> QED BY <1>2, FS_CardinalityType
<1> QED BY <1>0, <1>2, <1>3 DEF Position

(* The counter of a node stays a natural number: saturating_sub. *)
LEMMA NodeHelpersType ==
  ASSUME AppTypeOK, NEW n \in Nodes
  PROVE  /\ \A st \in NodeStatus : WithStatus(n, st) \in [Nodes -> NodeInfo \cup {None}]
         /\ IncrementActive(n) \in [Nodes -> NodeInfo \cup {None}]
         /\ DecrementActive(n) \in [Nodes -> NodeInfo \cup {None}]
<1>1. nodes \in [Nodes -> NodeInfo \cup {None}]
  BY DEF AppTypeOK
<1>2. ASSUME NEW k \in Nat PROVE WithActive(n, k) \in [Nodes -> NodeInfo \cup {None}]
  BY <1>1 DEF WithActive, NodeInfo
<1>3. ASSUME NEW st \in NodeStatus PROVE WithStatus(n, st) \in [Nodes -> NodeInfo \cup {None}]
  BY <1>1 DEF WithStatus, NodeInfo
<1>4. nodes[n] # None => nodes[n].active \in Nat
  BY <1>1 DEF NodeInfo
<1> QED BY <1>2, <1>3, <1>4 DEF IncrementActive, DecrementActive

-----------------------------------------------------------------------------
(* The maps that a call of requeue, enqueue or complete_task writes. *)
TaskTypeOK ==
  /\ running_tasks \in [Tasks -> LiveTask \cup {None}]
  /\ retry_counts \in [Tasks -> 0 .. MaxRetries \cup {None}]
  /\ call \in [Procs -> Calls \cup {None}]

(* The retry count is the maximum again, and a push is left to do. *)
LEMMA EnqueueTyped ==
  ASSUME AppTypeOK, NEW p \in Procs, NEW t \in Tasks, Enqueue(p, t)
  PROVE  /\ retry_counts' \in [Tasks -> 0 .. MaxRetries \cup {None}]
         /\ call' \in [Procs -> Calls \cup {None}]
<1>1. [op |-> "push", task |-> t] \in Calls
  BY DEF Calls, Queueing
<1>2. call' \in [Procs -> Calls \cup {None}]
  BY <1>1 DEF AppTypeOK, Enqueue
<1>3. retry_counts' \in [Tasks -> 0 .. MaxRetries \cup {None}]
  BY LimitsAssumption DEF AppTypeOK, Enqueue
<1> QED BY <1>2, <1>3

(* A call of complete_task, or of requeue, begins: nothing but the state   *)
(* of the process changes yet.                                             *)
LEMMA CallBegins ==
  ASSUME AppTypeOK, NEW p \in Procs, NEW t \in Tasks,
         \/ Requeue(p, t)
         \/ \E st \in FinalStatus, job \in Jobs \cup {None} : CompleteTask(p, t, st, job)
  PROVE  /\ call' \in [Procs -> Calls \cup {None}]
         /\ \A q \in Procs : q # p => call'[q] = call[q]
<1>1. [op |-> "requeue", task |-> t] \in Calls
  BY DEF Calls, Queueing
<1>2. \A st \in FinalStatus, job \in Jobs \cup {None} :
        [op |-> "complete", task |-> t, status |-> st, job |-> job] \in Calls
  BY DEF Calls, Finishing
<1>3. PICK c \in Calls : call' = [call EXCEPT ![p] = c]
  BY <1>1, <1>2 DEF Requeue, CompleteTask
<1> QED BY <1>3 DEF AppTypeOK

-----------------------------------------------------------------------------
(* The states the dispatcher goes to are states. *)
LEMMA SchedStates ==
  ASSUME SchedTypeOK
  PROVE  /\ SchedIdle \in SchedState
         /\ Scan(1, {}) \in SchedState
         /\ NextTask \in SchedState
         /\ DispatchedTask \in SchedState
         /\ \A pc \in SchedPc, f \in Seq(Nodes) : Chosen(pc, f) \in SchedState
         /\ SlotSent(TRUE) \in SchedState
         /\ SlotSent(FALSE) \in SchedState
<1> USE DEF SchedTypeOK, SchedState, SchedPc
<1>1. SchedIdle \in SchedState
  BY DEF SchedIdle
<1>2. Scan(1, {}) \in SchedState
  BY DEF Scan
<1>3. NextTask \in SchedState
  BY DEF NextTask, Scan
<1>4. DispatchedTask \in SchedState
  BY DEF DispatchedTask, Scan
<1>5. ASSUME NEW pc \in SchedPc, NEW f \in Seq(Nodes) PROVE Chosen(pc, f) \in SchedState
  BY DEF Chosen
<1>6. SlotSent(TRUE) \in SchedState /\ SlotSent(FALSE) \in SchedState
  BY DEF SlotSent
<1> QED BY <1>1, <1>2, <1>3, <1>4, <1>5, <1>6

(* The task at the position of the scan, while the dispatcher is at it. *)
LEMMA CurrentType ==
  ASSUME AppTypeOK, SchedTypeOK, ScanInv, sched.pc \in {"record", "mpi", "job"}
  PROVE  Current \in Tasks
BY DEF AppTypeOK, SchedTypeOK, SchedState, ScanInv, Current

(* Going on to the next position, with or without the present one among    *)
(* those to remove.                                                        *)
LEMMA ScanGoesOn ==
  ASSUME AppTypeOK, SchedTypeOK, ScanInv, sched.pc # "idle",
         UNCHANGED <<pending_tasks, queue_locked>>,
         \/ sched' = NextTask
         \/ sched' = DispatchedTask /\ sched.idx <= Len(pending_tasks)
  PROVE  SchedTypeOK' /\ ScanInv'
<1>1. SchedTypeOK'
  BY SchedStates DEF SchedTypeOK
<1>2. sched.idx \in Nat /\ sched.idx >= 1 /\ Len(pending_tasks) \in Nat
  BY DEF SchedTypeOK, SchedState, ScanInv, AppTypeOK
<1>6. queue_locked'
  BY DEF ScanInv
<1>3. /\ sched'.pc = "scan"
      /\ sched'.idx = sched.idx + 1
      /\ \/ sched'.dispatched = sched.dispatched
         \/ /\ sched'.dispatched = sched.dispatched \cup {sched.idx}
            /\ sched.idx <= Len(pending_tasks)
  BY DEF NextTask, DispatchedTask, Scan
<1>4. \A i \in sched.dispatched : i \in 1 .. Len(pending_tasks) /\ i < sched.idx
  BY DEF ScanInv
<1>5. \A i \in sched'.dispatched : i \in 1 .. Len(pending_tasks) /\ i < sched'.idx
  BY <1>2, <1>3, <1>4
<1> QED BY <1>1, <1>2, <1>3, <1>5, <1>6 DEF ScanInv

(* Staying at the position of the scan. *)
LEMMA ScanStays ==
  ASSUME AppTypeOK, SchedTypeOK, ScanInv, sched.pc # "idle",
         UNCHANGED <<pending_tasks, queue_locked>>,
         sched' \in SchedState, sched'.idx = sched.idx,
         sched'.dispatched = sched.dispatched, sched.idx <= Len(pending_tasks),
         \/ sched'.pc = "record" /\ Len(sched'.targets) = 1
         \/ /\ sched'.pc \in {"mpi", "job"}
            /\ Current \in MpiTasks /\ Len(sched'.targets) = Np[Current]
  PROVE  SchedTypeOK' /\ ScanInv'
<1>1. Current' = Current
  BY DEF Current
<1>2. sched.idx >= 1 /\ queue_locked'
  BY DEF ScanInv
<1>3. \A i \in sched.dispatched : i \in 1 .. Len(pending_tasks) /\ i < sched.idx
  BY DEF ScanInv
<1> QED BY <1>1, <1>2, <1>3 DEF SchedTypeOK, ScanInv

(* Each step of the dispatcher. *)
LEMMA SchedTyped ==
  ASSUME WireTypeOK, AppTypeOK, SchedTypeOK, ScanInv, SchedNext
  PROVE  WireTypeOK' /\ AppTypeOK' /\ SchedTypeOK' /\ ScanInv'
<1> USE DEF nodeVars, taskVars, historyVars, wireVars, stateVars
<1>1. /\ sched \in SchedState /\ sched.targets \in Seq(Nodes)
      /\ sched.idx \in Nat /\ sched.rank \in Nat
  BY DEF SchedTypeOK, SchedState
<1>2. pending_tasks \in Seq(Tasks) /\ Len(pending_tasks) \in Nat /\ attempt \in [Tasks -> Nat]
  BY DEF AppTypeOK
<1>3. sched.pc \in {"record", "mpi", "job"} =>
        Current \in Tasks /\ sched.idx <= Len(pending_tasks)
  BY CurrentType DEF ScanInv
<1>4. sched.pc \in {"mpi", "job"} =>
        Current \in MpiTasks /\ Len(sched.targets) = Np[Current]
  BY DEF ScanInv
<1>10. CASE Lock
  <2>1. WireTypeOK' /\ AppTypeOK'
    BY <1>10 DEF Lock, WireTypeOK, AppTypeOK
  <2>2. SchedTypeOK'
    BY <1>10, SchedStates DEF Lock, SchedTypeOK
  <2>3. /\ sched'.pc = "scan" /\ sched'.idx = 1 /\ sched'.dispatched = {}
        /\ queue_locked'
    BY <1>10 DEF Lock, Scan
  <2> QED BY <2>1, <2>2, <2>3 DEF ScanInv
<1>11. CASE Skip
  <2>1. WireTypeOK' /\ AppTypeOK'
    BY <1>11 DEF Skip, WireTypeOK, AppTypeOK
  <2>2. /\ sched.pc = "scan" /\ sched' = NextTask
        /\ UNCHANGED <<pending_tasks, queue_locked>>
    BY <1>11 DEF Skip, Scanning
  <2> QED BY <2>1, <2>2, ScanGoesOn
<1>12. CASE Send
  <2> PICK t \in Tasks \ MpiTasks : \E n \in Eligible(t) : SendTask(t, n)
    BY <1>12 DEF Send
  <2> PICK n \in Eligible(t) : SendTask(t, n)
    OBVIOUS
  <2> USE DEF SendTask
  <2>1. n \in Nodes
    BY IdsAssumption DEF Eligible
  <2>2. [type |-> "DispatchTask", task |-> t, rank |-> 0, att |-> attempt[t] + 1]
          \in ServerMessage
    BY <1>2 DEF ServerMessage
  <2>3. toWorker' \in [Sessions -> Seq(ServerMessage)]
    BY <2>2, DeliveredType DEF SendToWorker, WireTypeOK
  <2>4. nodes' \in [Nodes -> NodeInfo \cup {None}]
    BY <2>1, NodeHelpersType DEF NodeStatus, AppTypeOK
  <2>9. attempt' \in [Tasks -> Nat]
    BY <1>2
  <2>5. WireTypeOK' /\ AppTypeOK'
    BY <2>9, <2>3, <2>4 DEF WireTypeOK, AppTypeOK
  <2>6. /\ sched.pc = "scan" /\ sched.idx <= Len(pending_tasks)
        /\ UNCHANGED <<pending_tasks, queue_locked>>
    BY DEF Scanning
  <2>7. CASE sched' = NextTask
    BY <2>5, <2>6, <2>7, ScanGoesOn
  <2>8. CASE sched' = Chosen("record", <<n>>)
    <3>1. sched' \in SchedState
      <4>1. <<n>> \in Seq(Nodes)
        BY <2>1
      <4> QED BY <2>8, <4>1, SchedStates DEF SchedPc
    <3>2. /\ sched'.pc = "record" /\ sched'.targets = <<n>> /\ sched'.idx = sched.idx
          /\ sched'.dispatched = sched.dispatched
      BY <2>8 DEF Chosen
    <3> QED BY <2>5, <2>6, <3>1, <3>2, ScanStays
  <2> QED BY <2>7, <2>8
<1>13. CASE Record
  <2>1. sched.targets[1] \in Nodes /\ Current \in Tasks
    BY <1>1, <1>3, <1>13 DEF Record, ScanInv
  <2>2. nodes' \in [Nodes -> NodeInfo \cup {None}]
    BY <2>1, <1>13, NodeHelpersType DEF Record
  <2>3. running_tasks' \in [Tasks -> LiveTask \cup {None}]
    BY <2>1, <1>13 DEF Record, AppTypeOK, LiveTask, LiveStatus
  <2>4. WireTypeOK' /\ AppTypeOK'
    BY <2>2, <2>3, <1>13 DEF Record, WireTypeOK, AppTypeOK
  <2>5. /\ sched.pc = "record" /\ sched' = DispatchedTask
        /\ UNCHANGED <<pending_tasks, queue_locked>>
    BY <1>13 DEF Record
  <2> QED BY <1>3, <2>4, <2>5, ScanGoesOn
<1>14. CASE Recruit
  <2> PICK t \in MpiTasks : \E f \in [1 .. Np[t] -> Eligible(t)] : RecruitNodes(t, f)
    BY <1>14 DEF Recruit
  <2> PICK f \in [1 .. Np[t] -> Eligible(t)] : RecruitNodes(t, f)
    OBVIOUS
  <2> USE DEF RecruitNodes
  <2>1. Np[t] \in Nat /\ Eligible(t) \subseteq Nodes /\ t \in Tasks
    BY IdsAssumption DEF Eligible
  <2>2. f \in Seq(Nodes) /\ Len(f) = Np[t]
    BY <2>1
  <2>3. attempt' \in [Tasks -> Nat]
    BY <1>2, <2>1
  <2>4. WireTypeOK' /\ AppTypeOK'
    BY <2>3 DEF WireTypeOK, AppTypeOK
  <2>5. /\ sched.pc = "scan" /\ sched.idx <= Len(pending_tasks) /\ Current = t
        /\ UNCHANGED <<pending_tasks, queue_locked>>
    BY DEF Scanning
  <2>6. sched' \in SchedState
    BY <2>2, SchedStates DEF SchedPc
  <2>7. /\ sched'.pc = "mpi" /\ sched'.targets = f /\ sched'.idx = sched.idx
        /\ sched'.dispatched = sched.dispatched
    BY DEF Chosen
  <2> QED BY <2>2, <2>4, <2>5, <2>6, <2>7, ScanStays
<1>15. CASE SendSlot
  <2>0. /\ sched.pc = "mpi" /\ Current \in Tasks /\ sched.idx <= Len(pending_tasks)
        /\ UNCHANGED <<pending_tasks, queue_locked>>
    BY <1>15, <1>3 DEF SendSlot
  <2>1. sched.targets[sched.rank + 1] \in Nodes
    BY <1>1, <1>15 DEF SendSlot
  <2>2. nodes' \in [Nodes -> NodeInfo \cup {None}]
    BY <2>1, <1>15, NodeHelpersType DEF SendSlot, NodeStatus
  <2>3. [type |-> "DispatchMpiSlot", task |-> Current, rank |-> sched.rank,
         att |-> attempt[Current]] \in ServerMessage
    BY <2>0, <1>1, <1>2 DEF ServerMessage
  <2>4. toWorker' \in [Sessions -> Seq(ServerMessage)]
    <3>1. \/ toWorker' = toWorker
          \/ toWorker' = Delivered({worker_channels[sched.targets[sched.rank + 1]]},
                [type |-> "DispatchMpiSlot", task |-> Current, rank |-> sched.rank,
                 att |-> attempt[Current]])
      BY <1>15 DEF SendSlot, SendToWorker
    <3> QED BY <2>3, <3>1, DeliveredType DEF WireTypeOK
  <2>5. WireTypeOK' /\ AppTypeOK'
    BY <2>2, <2>4, <1>15 DEF SendSlot, WireTypeOK, AppTypeOK
  <2>6. sched' = SlotSent(TRUE) \/ sched' = SlotSent(FALSE)
    BY <1>15 DEF SendSlot
  <2>7. sched' \in SchedState
    BY <2>6, SchedStates
  <2>8. /\ sched'.pc = "mpi" /\ sched'.targets = sched.targets
        /\ sched'.idx = sched.idx /\ sched'.dispatched = sched.dispatched
    BY <2>6 DEF SlotSent
  <2> QED BY <1>4, <2>0, <2>5, <2>7, <2>8, ScanStays
<1>16. CASE RecordMpi
  <2>0. /\ sched.pc = "mpi" /\ Current \in Tasks /\ sched.idx <= Len(pending_tasks)
        /\ UNCHANGED <<pending_tasks, queue_locked>>
    BY <1>16, <1>3 DEF RecordMpi
  <2>1. {sched.targets[i] : i \in 1 .. Len(sched.targets)} \subseteq Nodes
    BY <1>1
  <2>2. running_tasks' \in [Tasks -> LiveTask \cup {None}]
    BY <2>0, <2>1, <1>16 DEF RecordMpi, AppTypeOK, LiveTask, LiveStatus
  <2>3. WireTypeOK' /\ AppTypeOK'
    BY <2>2, <1>16 DEF RecordMpi, WireTypeOK, AppTypeOK
  <2>4. sched' = [sched EXCEPT !.pc = "job"]
    BY <1>16 DEF RecordMpi
  <2>5. sched' \in SchedState
    BY <1>1, <2>4 DEF SchedState, SchedPc
  <2>6. /\ sched'.pc = "job" /\ sched'.targets = sched.targets
        /\ sched'.idx = sched.idx /\ sched'.dispatched = sched.dispatched
    BY <1>1, <2>4 DEF SchedState
  <2> QED BY <1>4, <2>0, <2>3, <2>5, <2>6, ScanStays
<1>17. CASE RegisterJob
  <2>0. /\ sched.pc = "job" /\ Current \in Tasks /\ sched.idx <= Len(pending_tasks)
        /\ UNCHANGED <<pending_tasks, queue_locked>>
    BY <1>17, <1>3 DEF RegisterJob
  <2>1. NewJob(Len(sched.targets)) \in Jobs
    <3>1. Current \in MpiTasks /\ Len(sched.targets) = Np[Current]
      BY <1>4, <2>0
    <3> QED BY <3>1 DEF NewJob, Jobs, MpiJob
  <2>2. mpi_jobs' \in [Tasks -> Jobs \cup {None}]
    BY <2>0, <2>1, <1>17 DEF RegisterJob, AppTypeOK
  <2>3. WireTypeOK' /\ AppTypeOK'
    BY <2>2, <1>17 DEF RegisterJob, WireTypeOK, AppTypeOK
  <2>4. sched' = DispatchedTask
    BY <1>17 DEF RegisterJob
  <2> QED BY <2>0, <2>3, <2>4, ScanGoesOn
<1>18. CASE AbortDispatch
  <2>0. /\ sched.pc = "mpi" /\ Current \in Tasks /\ sched' = NextTask
        /\ UNCHANGED <<pending_tasks, queue_locked>>
    BY <1>18, <1>3 DEF AbortDispatch
  <2>1. [type |-> "AbortMpiJob", task |-> Current] \in ServerMessage
    BY <2>0 DEF ServerMessage
  <2>2. toWorker' \in [Sessions -> Seq(ServerMessage)]
    BY <2>1, <1>18, DeliveredType DEF AbortDispatch, AbortMpiJob
  <2>3. WireTypeOK' /\ AppTypeOK'
    BY <2>2, <1>18 DEF AbortDispatch, WireTypeOK, AppTypeOK
  <2> QED BY <2>0, <2>3, ScanGoesOn
<1>19. CASE Sweep
  <2> PICK i \in sched.dispatched :
        /\ \A k \in sched.dispatched : k <= i
        /\ pending_tasks' = RemoveAt(pending_tasks, i)
        /\ sched' = [sched EXCEPT !.dispatched = @ \ {i}]
    BY <1>19 DEF Sweep
  <2>1. i \in 1 .. Len(pending_tasks)
    BY DEF ScanInv
  <2>2. pending_tasks' \in Seq(Tasks) /\ Len(pending_tasks') = Len(pending_tasks) - 1
    BY <2>1, <1>2, RemoveType
  <2>3. WireTypeOK' /\ AppTypeOK'
    BY <2>2, <1>19 DEF Sweep, WireTypeOK, AppTypeOK
  <2>4. SchedTypeOK'
    BY <1>1 DEF SchedTypeOK, SchedState
  <2>5. /\ sched'.pc = "scan" /\ sched'.idx = sched.idx /\ sched.pc = "scan"
        /\ sched'.dispatched = sched.dispatched \ {i} /\ UNCHANGED queue_locked
    BY <1>1, <1>19 DEF Sweep, Scanned, SchedState
  <2>6. \A k \in sched.dispatched : k \in 1 .. Len(pending_tasks) /\ k < sched.idx
    BY DEF ScanInv
  <2>7. \A k \in sched'.dispatched : k \in 1 .. Len(pending_tasks') /\ k < sched'.idx
    BY <2>1, <2>2, <2>5, <2>6
  <2> QED BY <2>3, <2>4, <2>5, <2>7 DEF ScanInv
<1>20. CASE Unlock
  <2>1. WireTypeOK' /\ AppTypeOK'
    BY <1>20 DEF Unlock, WireTypeOK, AppTypeOK
  <2>2. SchedTypeOK'
    BY <1>20, SchedStates DEF Unlock, SchedTypeOK
  <2>3. sched'.pc = "idle" /\ sched'.dispatched = {} /\ queue_locked' = FALSE
    BY <1>20 DEF Unlock, SchedIdle
  <2> QED BY <2>1, <2>2, <2>3 DEF ScanInv
<1> QED
  BY <1>10, <1>11, <1>12, <1>13, <1>14, <1>15, <1>16, <1>17, <1>18, <1>19, <1>20 DEF SchedNext

-----------------------------------------------------------------------------
(* enqueue and complete_task, once they have their lock *)

(* The fields of a call, by what it does next. *)
LEMMA CallFields ==
  ASSUME AppTypeOK, NEW p \in Procs, call[p] # None
  PROVE  /\ call[p].task \in Tasks
         /\ call[p].op = "retry" => call[p].left \in 0 .. MaxRetries
         /\ call[p].op \in {"complete", "done"} => call[p] \in Finishing
<1>1. call[p] \in Queueing \cup Retrying \cup Finishing
  BY DEF AppTypeOK, Calls
<1>2. CASE call[p] \in Queueing
  BY <1>2 DEF Queueing
<1>3. CASE call[p] \in Retrying
  BY <1>3 DEF Retrying
<1>4. CASE call[p] \in Finishing
  BY <1>4 DEF Finishing
<1> QED BY <1>1, <1>2, <1>3, <1>4

(* A step of a call leads to another place of a call, or ends it. *)
LEMMA CallMoves ==
  ASSUME AppTypeOK, NEW p \in Procs, ReturnFromCall(p)
  PROVE  \E c \in Calls \cup {None} : call' = [call EXCEPT ![p] = c]
<1>0. call[p] # None
  BY DEF ReturnFromCall, ReadRetries, WriteRetries, Reenqueue, Push, EndTask, Done, InCall
<1>1. call[p].task \in Tasks
  BY <1>0, CallFields
<1>2. CASE ReadRetries(p)
  <2>1. PICK t \in Tasks : t = call[p].task
    BY <1>1
  <2>2. CASE CompleteTask(p, t, "Failed", None)
    <3>1. [op |-> "complete", task |-> t, status |-> "Failed", job |-> None] \in Calls
      BY DEF Calls, Finishing, FinalStatus
    <3> QED BY <2>2, <3>1 DEF CompleteTask
  <2>3. CASE /\ retry_counts[t] \notin {None, 0}
             /\ call' = [call EXCEPT ![p] =
                           [op |-> "retry", task |-> t, left |-> retry_counts[t] - 1]]
    <3>1. retry_counts[t] \in 0 .. MaxRetries \cup {None}
      BY DEF AppTypeOK
    <3>2. retry_counts[t] - 1 \in 0 .. MaxRetries
      BY <2>3, <3>1, LimitsAssumption
    <3>3. [op |-> "retry", task |-> t, left |-> retry_counts[t] - 1] \in Calls
      BY <3>2 DEF Calls, Retrying
    <3> QED BY <2>3, <3>3
  <2> QED BY <1>2, <2>1, <2>2, <2>3 DEF ReadRetries
<1>3. CASE WriteRetries(p)
  <2>1. [op |-> "enqueue", task |-> call[p].task] \in Calls
    BY <1>1 DEF Calls, Queueing
  <2> QED BY <1>3, <2>1 DEF WriteRetries
<1>4. CASE Reenqueue(p)
  <2>1. [op |-> "push", task |-> call[p].task] \in Calls
    BY <1>1 DEF Calls, Queueing
  <2> QED BY <1>4, <2>1 DEF Reenqueue, Enqueue
<1>5. CASE EndTask(p)
  <2>1. call[p] \in Finishing
    BY <1>0, <1>5, CallFields DEF EndTask, InCall
  <2>2. [call[p] EXCEPT !.op = "done"] \in Calls
    BY <2>1 DEF Calls, Finishing
  <2>3. call' = [call EXCEPT ![p] = [call[p] EXCEPT !.op = "done"]]
    BY <1>5 DEF EndTask
  <2> QED BY <2>2, <2>3
<1>6. CASE Push(p) \/ Done(p)
  BY <1>6 DEF Push, Done
<1> QED BY <1>2, <1>3, <1>4, <1>5, <1>6 DEF ReturnFromCall

(* The queue gains the task, or the completed list its record; the maps    *)
(* keep their types.                                                       *)
LEMMA CallTyped ==
  ASSUME AppTypeOK, NEW p \in Procs, ReturnFromCall(p)
  PROVE  AppTypeOK'
<1> USE DEF nodeVars, historyVars
<1>0. call[p] # None
  BY DEF ReturnFromCall, ReadRetries, WriteRetries, Reenqueue, Push, EndTask, Done, InCall
<1>1. call[p].task \in Tasks
  BY <1>0, CallFields
<1>2. call' \in [Procs -> Calls \cup {None}]
  BY CallMoves DEF AppTypeOK
<1>3. CASE Push(p)
  <2>1. pending_tasks \in Seq(Tasks)
    BY DEF AppTypeOK
  <2>2. pending_tasks' \in Seq(Tasks)
    BY <1>1, <1>3, <2>1, PositionType, InsertType DEF Push
  <2> QED BY <1>2, <1>3, <2>2 DEF Push, AppTypeOK
<1>4. CASE Done(p)
  <2> DEFINE e == [task |-> call[p].task, status |-> call[p].status, job |-> call[p].job]
             done == Append(completed_tasks, e)
             drain == IF Len(done) > CompletedCap THEN CompletedDrain ELSE 0
  <2>1. call[p] \in Finishing
    BY <1>0, <1>4, CallFields DEF Done, InCall
  <2>2. e \in DoneTask
    BY <2>1 DEF Finishing, DoneTask
  <2>3. done \in Seq(DoneTask) /\ Len(done) \in Nat
    BY <2>2 DEF AppTypeOK
  <2>4. drain \in Nat /\ drain <= Len(done)
    BY <2>3, LimitsAssumption
  <2>5. completed_tasks' = SubSeq(done, drain + 1, Len(done))
        /\ gone' = gone \cup {done[i].task : i \in 1 .. drain}
    BY <1>4 DEF Done
  <2> HIDE DEF done, drain, e
  <2>6. completed_tasks' \in Seq(DoneTask)
    BY <2>3, <2>4, <2>5, SubSeqProperties
  <2>7. \A i \in 1 .. drain : done[i] \in DoneTask
    BY <2>3, <2>4
  <2>8. gone' \in SUBSET Tasks
    BY <2>5, <2>7 DEF AppTypeOK, DoneTask
  <2> QED BY <1>2, <1>4, <2>6, <2>8 DEF Done, AppTypeOK
<1>5. CASE ReadRetries(p)
  <2>1. running_tasks' \in [Tasks -> LiveTask \cup {None}]
    BY <1>1, <1>5 DEF ReadRetries, AppTypeOK
  <2> QED BY <1>2, <1>5, <2>1 DEF ReadRetries, AppTypeOK
<1>6. CASE WriteRetries(p)
  <2>1. call[p].left \in 0 .. MaxRetries
    BY <1>0, <1>6, CallFields DEF WriteRetries, InCall
  <2>2. running_tasks' \in [Tasks -> LiveTask \cup {None}]
    BY <1>1, <1>6 DEF WriteRetries, AppTypeOK
  <2>3. retry_counts' \in [Tasks -> 0 .. MaxRetries \cup {None}]
    BY <1>1, <1>6, <2>1 DEF WriteRetries, AppTypeOK
  <2> QED BY <1>2, <1>6, <2>2, <2>3 DEF WriteRetries, AppTypeOK
<1>7. CASE Reenqueue(p)
  <2>1. retry_counts' \in [Tasks -> 0 .. MaxRetries \cup {None}]
    BY <1>1, <1>7, EnqueueTyped DEF Reenqueue
  <2> QED BY <1>2, <1>7, <2>1 DEF Reenqueue, AppTypeOK
<1>8. CASE EndTask(p)
  <2>1. running_tasks' \in [Tasks -> LiveTask \cup {None}]
    BY <1>1, <1>8 DEF EndTask, AppTypeOK
  <2>2. retry_counts' \in [Tasks -> 0 .. MaxRetries \cup {None}]
    BY <1>1, <1>8 DEF EndTask, AppTypeOK
  <2> QED BY <1>2, <1>8, <2>1, <2>2 DEF EndTask, AppTypeOK
<1> QED BY <1>3, <1>4, <1>5, <1>6, <1>7, <1>8 DEF ReturnFromCall

-----------------------------------------------------------------------------
(* An answer leaves a job a job. *)
LEMMA RecordTyped ==
  ASSUME NEW job \in Jobs, NEW r \in Nat, NEW att \in Nat
  PROVE  RecordResult(job, r, att) \in Jobs /\ RecordError(job, r, att) \in Jobs
<1>1. PICK np \in {Np[t] : t \in MpiTasks} :
        job \in [results : [Ranks(np) -> Nat], errors : [Ranks(np) -> Nat]]
  BY DEF Jobs, MpiJob
<1>2. /\ RecordResult(job, r, att) \in [results : [Ranks(np) -> Nat], errors : [Ranks(np) -> Nat]]
      /\ RecordError(job, r, att) \in [results : [Ranks(np) -> Nat], errors : [Ranks(np) -> Nat]]
  BY <1>1 DEF RecordResult, RecordError
<1> QED BY <1>2 DEF Jobs, MpiJob

(* The states a handler goes to are states. *)
LEMMA WsStates ==
  /\ \A pc \in WsPc : At(pc) \in WsState
  /\ \A pc \in WsPc, t \in Tasks, job \in Jobs \cup {None} : Finalizing(pc, t, job) \in WsState
  /\ \A pc \in WsPc, todo \in SUBSET Tasks : Requeueing(pc, todo) \in WsState
BY DEF At, Finalizing, Requeueing, WsState

(* Only the handler of s moves. *)
LEMMA GotoType ==
  ASSUME WsTypeOK, NEW s \in Sessions, NEW st \in WsState, Goto(s, st)
  PROVE  WsTypeOK' /\ session'[s] = st /\ \A r \in Sessions : r # s => session'[r] = session[r]
BY DEF Goto, WsTypeOK

(* What a handler reads is a message, and reading it leaves the rest. *)
LEMMA ReceiveType ==
  ASSUME WireTypeOK, NEW s \in Sessions, NEW type, Receive(s, type)
  PROVE  /\ toServer' \in [Sessions -> Seq(WorkerMessage)]
         /\ Head(toServer[s]) \in WorkerMessage
         /\ Head(toServer[s]).type = type
         /\ type \in {"TaskResult", "TaskError", "MpiRankResult", "MpiRankError"} =>
              /\ Head(toServer[s]).task \in Tasks
              /\ Head(toServer[s]).rank \in Nat
              /\ Head(toServer[s]).att \in Nat
         /\ type = "Heartbeat" => Head(toServer[s]).active \in Nat
<1>1. toServer[s] \in Seq(WorkerMessage) /\ toServer[s] # <<>>
  BY DEF WireTypeOK, Receive
<1>2. Head(toServer[s]) \in WorkerMessage /\ Tail(toServer[s]) \in Seq(WorkerMessage)
  BY <1>1, HeadTail
<1>3. toServer' \in [Sessions -> Seq(WorkerMessage)]
  BY <1>2 DEF WireTypeOK, Receive
<1> QED BY <1>2, <1>3 DEF Receive, WorkerMessage

(* HandlerInv after a step of the handler of s. *)
LEMMA HandlerKept ==
  ASSUME HandlerInv, NEW s \in Sessions, UNCHANGED submitted_at,
         \A r \in Sessions : r # s => session'[r] = session[r],
         \A p \in Procs : p # s => call'[p] = call[p],
         session'[s].pc \in {"finalize", "finalized"} =>
           call'[s] = None /\ session'[s].task \in Tasks,
         session'[s].pc = "finalized" => session'[s].job \in Jobs
  PROVE  HandlerInv'
BY IdsAssumption DEF HandlerInv, Procs

(* Each step of a handler. *)
LEMMA WsTyped ==
  ASSUME WireTypeOK, AppTypeOK, WsTypeOK, HandlerInv, NEW s \in Sessions, WsNext(s)
  PROVE  WireTypeOK' /\ AppTypeOK' /\ WsTypeOK' /\ HandlerInv'
<1> USE DEF nodeVars, taskVars, historyVars, wireVars, stateVars
<1>1. NodeOf[s] \in Nodes /\ s \in Procs
  BY IdsAssumption DEF Procs
<1>2. nodes \in [Nodes -> NodeInfo \cup {None}] /\ mpi_jobs \in [Tasks -> Jobs \cup {None}]
  BY DEF AppTypeOK
<1>3. /\ WithStatus(NodeOf[s], "Offline") \in [Nodes -> NodeInfo \cup {None}]
      /\ WithStatus(NodeOf[s], "Draining") \in [Nodes -> NodeInfo \cup {None}]
      /\ DecrementActive(NodeOf[s]) \in [Nodes -> NodeInfo \cup {None}]
  BY <1>1, NodeHelpersType DEF NodeStatus
<1>4. \A pc \in WsPc : At(pc).pc = pc
  BY DEF At
<1>5. session[s] \in WsState
  BY DEF WsTypeOK
<1>6. \A r \in Sessions : r \in Procs
  BY DEF Procs
<1>10. CASE OnRegister(s)
  <2>1. toServer' \in [Sessions -> Seq(WorkerMessage)]
    BY <1>10, ReceiveType DEF OnRegister
  <2>2. toWorker' \in [Sessions -> Seq(ServerMessage)]
    BY <1>10, DeliveredType DEF OnRegister, ServerMessage
  <2>3. WireTypeOK'
    BY <2>1, <2>2, <1>10 DEF OnRegister, WireTypeOK
  <2>4. nodes' \in [Nodes -> NodeInfo \cup {None}]
    BY <1>10, <1>2 DEF OnRegister, NodeInfo, NodeStatus
  <2>5. worker_channels' \in [Nodes -> Sessions \cup {None}]
    BY <1>10 DEF OnRegister, AppTypeOK
  <2>6. AppTypeOK'
    BY <2>4, <2>5, <1>10 DEF OnRegister, AppTypeOK
  <2>7. Goto(s, At("loop")) /\ At("loop") \in WsState
    BY <1>10, WsStates DEF OnRegister, WsPc
  <2>8. /\ WsTypeOK' /\ session'[s].pc = "loop"
        /\ \A r \in Sessions : r # s => session'[r] = session[r]
    BY <2>7, GotoType DEF At
  <2>9. HandlerInv'
    BY <2>8, <1>10, HandlerKept DEF OnRegister
  <2> QED BY <2>3, <2>6, <2>8, <2>9
<1>11. CASE OnHeartbeat(s)
  <2>1. /\ toServer' \in [Sessions -> Seq(WorkerMessage)]
        /\ Head(toServer[s]).active \in Nat
    BY <1>11, ReceiveType DEF OnHeartbeat
  <2>2. nodes' \in [Nodes -> NodeInfo \cup {None}]
    BY <1>2, <1>11, <2>1 DEF OnHeartbeat, NodeInfo, NodeStatus
  <2>3. WireTypeOK' /\ AppTypeOK'
    BY <2>1, <2>2, <1>11 DEF OnHeartbeat, WireTypeOK, AppTypeOK
  <2>4. WsTypeOK' /\ HandlerInv'
    BY <1>11 DEF OnHeartbeat, WsTypeOK, HandlerInv
  <2> QED BY <2>3, <2>4
<1>12. CASE OnTaskResult(s) \/ OnTaskError(s)
  <2> DEFINE t == Head(toServer[s]).task
  <2>1. toServer' \in [Sessions -> Seq(WorkerMessage)] /\ t \in Tasks
    BY <1>12, ReceiveType DEF OnTaskResult, OnTaskError
  <2>2. WireTypeOK'
    BY <1>12, <2>1 DEF OnTaskResult, OnTaskError, WireTypeOK
  <2> HIDE DEF t
  <2>3. /\ UNCHANGED <<worker_channels, pending_tasks, queue_locked, mpi_jobs,
                       completed_tasks, submitted_at, attempt, gone>>
        /\ \/ /\ CompleteTask(s, t, "Completed", None) \/ Requeue(s, t)
              /\ Goto(s, At("answered"))
              /\ running_tasks' = [running_tasks EXCEPT ![t] = None]
              /\ UNCHANGED <<nodes, retry_counts>>
           \/ nodes' = DecrementActive(NodeOf[s]) /\ UNCHANGED <<session, taskVars>>
    BY <1>12 DEF OnTaskResult, OnTaskError, t
  <2>4. CASE /\ CompleteTask(s, t, "Completed", None) \/ Requeue(s, t)
             /\ Goto(s, At("answered"))
             /\ running_tasks' = [running_tasks EXCEPT ![t] = None]
             /\ UNCHANGED <<nodes, retry_counts>>
    <3>1. /\ call' \in [Procs -> Calls \cup {None}]
          /\ \A q \in Procs : q # s => call'[q] = call[q]
      BY <1>1, <2>1, <2>4, CallBegins DEF FinalStatus
    <3>6. running_tasks' \in [Tasks -> LiveTask \cup {None}]
      BY <2>1, <2>4 DEF AppTypeOK
    <3>2. AppTypeOK'
      BY <3>1, <3>6, <2>3, <2>4 DEF AppTypeOK
    <3>3. At("answered") \in WsState
      BY WsStates DEF WsPc
    <3>4. /\ WsTypeOK' /\ session'[s].pc = "answered"
          /\ \A r \in Sessions : r # s => session'[r] = session[r]
      BY <2>4, <3>3, GotoType DEF At
    <3>5. HandlerInv'
      BY <3>1, <3>4, <2>3, HandlerKept
    <3> QED BY <2>2, <3>2, <3>4, <3>5
  <2>5. CASE nodes' = DecrementActive(NodeOf[s]) /\ UNCHANGED <<session, taskVars>>
    <3>1. AppTypeOK'
      BY <1>3, <2>3, <2>5 DEF AppTypeOK
    <3>2. WsTypeOK' /\ HandlerInv'
      BY <2>3, <2>5 DEF WsTypeOK, HandlerInv
    <3> QED BY <2>2, <3>1, <3>2
  <2> QED BY <2>3, <2>4, <2>5
<1>13. CASE Answered(s)
  <2>1. WireTypeOK' /\ AppTypeOK'
    BY <1>13, <1>3 DEF Answered, WireTypeOK, AppTypeOK
  <2>2. Goto(s, At("loop")) /\ At("loop") \in WsState
    BY <1>13, WsStates DEF Answered, WsPc
  <2>3. /\ WsTypeOK' /\ session'[s].pc = "loop"
        /\ \A r \in Sessions : r # s => session'[r] = session[r]
    BY <2>2, GotoType DEF At
  <2>4. HandlerInv'
    BY <2>3, <1>13, HandlerKept DEF Answered
  <2> QED BY <2>1, <2>3, <2>4
<1>14. CASE OnMpiRankResult(s) \/ OnMpiRankError(s)
  <2> DEFINE m == Head(toServer[s])
  <2>1. /\ toServer' \in [Sessions -> Seq(WorkerMessage)]
        /\ m.task \in Tasks /\ m.rank \in Nat /\ m.att \in Nat
        /\ call[s] = None
    BY <1>14, ReceiveType DEF OnMpiRankResult, OnMpiRankError, Receive
  <2>2. /\ UNCHANGED <<link, rxOpen, worker_channels, pending_tasks, queue_locked,
                       taskVars, completed_tasks, historyVars>>
        /\ nodes' = DecrementActive(NodeOf[s])
        /\ toWorker' = toWorker \/ AbortMpiJob(m.task)
        /\ session' = session \/ Goto(s, Finalizing("finalize", m.task, None))
        /\ \/ mpi_jobs' = mpi_jobs
           \/ /\ mpi_jobs[m.task] # None
              /\ \E job \in {RecordResult(mpi_jobs[m.task], m.rank, m.att),
                             RecordError(mpi_jobs[m.task], m.rank, m.att)} :
                   mpi_jobs' = [mpi_jobs EXCEPT ![m.task] = job]
    BY <1>14 DEF OnMpiRankResult, OnMpiRankError
  <2> HIDE DEF m
  <2>3. mpi_jobs' \in [Tasks -> Jobs \cup {None}]
    <3>1. CASE mpi_jobs[m.task] # None
      <4>1. mpi_jobs[m.task] \in Jobs
        BY <1>2, <2>1, <3>1
      <4>2. /\ RecordResult(mpi_jobs[m.task], m.rank, m.att) \in Jobs
            /\ RecordError(mpi_jobs[m.task], m.rank, m.att) \in Jobs
        BY <2>1, <4>1, RecordTyped
      <4>3. \/ mpi_jobs' = mpi_jobs
            \/ \E job \in Jobs : mpi_jobs' = [mpi_jobs EXCEPT ![m.task] = job]
        BY <2>2, <4>2
      <4> QED BY <1>2, <4>3
    <3>2. CASE mpi_jobs[m.task] = None
      BY <1>2, <2>2, <3>2
    <3> QED BY <3>1, <3>2
  <2>4. toWorker' \in [Sessions -> Seq(ServerMessage)]
    <3>1. [type |-> "AbortMpiJob", task |-> m.task] \in ServerMessage
      BY <2>1 DEF ServerMessage
    <3> QED BY <2>2, <3>1, DeliveredType DEF AbortMpiJob, WireTypeOK
  <2>5. WireTypeOK' /\ AppTypeOK'
    <3>1. WireTypeOK'
      BY <2>1, <2>2, <2>4 DEF WireTypeOK
    <3>2. nodes' \in [Nodes -> NodeInfo \cup {None}]
      BY <1>3, <2>2
    <3>3. AppTypeOK'
      BY <2>2, <2>3, <3>2 DEF AppTypeOK, taskVars, historyVars
    <3> QED BY <3>1, <3>3
  <2>6. CASE session' = session
    BY <2>2, <2>5, <2>6 DEF WsTypeOK, HandlerInv
  <2>7. CASE Goto(s, Finalizing("finalize", m.task, None))
    <3>1. Finalizing("finalize", m.task, None) \in WsState
      BY <2>1, WsStates DEF WsPc
    <3>2. /\ WsTypeOK' /\ session'[s] = Finalizing("finalize", m.task, None)
          /\ \A r \in Sessions : r # s => session'[r] = session[r]
      BY <2>7, <3>1, GotoType
    <3>3. session'[s].pc = "finalize" /\ session'[s].task \in Tasks /\ call'[s] = None
      BY <3>2, <2>1, <2>2 DEF Finalizing
    <3>4. HandlerInv'
      BY <3>2, <3>3, <2>2, HandlerKept
    <3> QED BY <2>5, <3>2, <3>4
  <2> QED BY <2>2, <2>6, <2>7
<1>15. CASE Finalize(s)
  <2> DEFINE t == session[s].task
             st == IF mpi_jobs[t] = None THEN At("loop")
                   ELSE Finalizing("finalized", t, mpi_jobs[t])
  <2>0. session[s].pc = "finalize"
    BY <1>15 DEF Finalize
  <2>1. t \in Tasks /\ call[s] = None
    BY <2>0 DEF HandlerInv
  <2>2. /\ mpi_jobs' = [mpi_jobs EXCEPT ![t] = None] /\ Goto(s, st)
        /\ UNCHANGED <<wireVars, nodeVars, pending_tasks, queue_locked, taskVars,
                       completed_tasks, historyVars>>
    BY <1>15 DEF Finalize
  <2>3. st \in WsState
    BY <1>2, <2>1, WsStates DEF WsPc
  <2>4. \/ st.pc = "loop"
        \/ st.pc = "finalized" /\ st.task \in Tasks /\ st.job \in Jobs
    BY <1>2, <2>1 DEF At, Finalizing
  <2> HIDE DEF t, st
  <2>5. WireTypeOK' /\ AppTypeOK'
    BY <1>2, <2>1, <2>2 DEF WireTypeOK, AppTypeOK
  <2>6. /\ WsTypeOK' /\ session'[s] = st
        /\ \A r \in Sessions : r # s => session'[r] = session[r]
    BY <2>2, <2>3, GotoType
  <2>7. HandlerInv'
    BY <2>1, <2>2, <2>4, <2>6, HandlerKept
  <2> QED BY <2>5, <2>6, <2>7
<1>16. CASE Finalized(s)
  <2> DEFINE t == session[s].task
  <2>1. t \in Tasks /\ session[s].job \in Jobs
    BY <1>16 DEF Finalized, HandlerInv
  <2>2. /\ \/ /\ CompleteTask(s, t, "MpiCompleted", session[s].job)
              /\ running_tasks' = [running_tasks EXCEPT ![t] = None]
              /\ UNCHANGED retry_counts
           \/ UNCHANGED taskVars
        /\ Goto(s, At("loop"))
        /\ UNCHANGED <<wireVars, nodeVars, pending_tasks, queue_locked, mpi_jobs,
                       completed_tasks, historyVars>>
    BY <1>16 DEF Finalized
  <2> HIDE DEF t
  <2>3. TaskTypeOK' /\ \A q \in Procs : q # s => call'[q] = call[q]
    <3>1. CASE /\ CompleteTask(s, t, "MpiCompleted", session[s].job)
               /\ running_tasks' = [running_tasks EXCEPT ![t] = None]
               /\ UNCHANGED retry_counts
      <4>1. /\ call' \in [Procs -> Calls \cup {None}]
            /\ \A q \in Procs : q # s => call'[q] = call[q]
        BY <1>1, <2>1, <3>1, CallBegins DEF FinalStatus
      <4>2. running_tasks' \in [Tasks -> LiveTask \cup {None}]
        BY <2>1, <3>1 DEF AppTypeOK
      <4> QED BY <3>1, <4>1, <4>2 DEF TaskTypeOK, AppTypeOK
    <3>2. CASE UNCHANGED taskVars
      BY <3>2 DEF TaskTypeOK, AppTypeOK
    <3> QED BY <2>2, <3>1, <3>2
  <2>4. WireTypeOK' /\ AppTypeOK'
    BY <2>2, <2>3 DEF WireTypeOK, AppTypeOK, TaskTypeOK
  <2>5. At("loop") \in WsState
    BY WsStates DEF WsPc
  <2>6. /\ WsTypeOK' /\ session'[s].pc = "loop"
        /\ \A r \in Sessions : r # s => session'[r] = session[r]
    BY <2>2, <2>5, GotoType DEF At
  <2>7. HandlerInv'
    BY <2>2, <2>3, <2>6, HandlerKept
  <2> QED BY <2>4, <2>6, <2>7
<1>17. CASE OnDraining(s)
  <2>1. toServer' \in [Sessions -> Seq(WorkerMessage)]
    BY <1>17, ReceiveType DEF OnDraining
  <2>2. WireTypeOK' /\ AppTypeOK'
    BY <1>3, <1>17, <2>1 DEF OnDraining, WireTypeOK, AppTypeOK
  <2>3. WsTypeOK' /\ HandlerInv'
    BY <1>17 DEF OnDraining, WsTypeOK, HandlerInv
  <2> QED BY <2>2, <2>3
<1>18. CASE OnClose(s)
  <2>1. /\ \/ nodes' = WithStatus(NodeOf[s], "Offline")
              /\ worker_channels' = [worker_channels EXCEPT ![NodeOf[s]] = None]
              /\ Goto(s, Requeueing("lost", RunningOn(NodeOf[s])))
              /\ UNCHANGED rxOpen
           \/ Goto(s, At("closed")) /\ UNCHANGED nodeVars
              /\ rxOpen' = [rxOpen EXCEPT ![s] = FALSE]
        /\ UNCHANGED <<link, toServer, toWorker, pending_tasks, queue_locked, taskVars,
                       mpi_jobs, completed_tasks, historyVars>>
    BY <1>18 DEF OnClose
  <2>2. WireTypeOK' /\ AppTypeOK'
    BY <1>3, <2>1 DEF WireTypeOK, AppTypeOK
  <2>3. RunningOn(NodeOf[s]) \in SUBSET Tasks
    BY DEF RunningOn
  <2>4. /\ Requeueing("lost", RunningOn(NodeOf[s])) \in WsState
        /\ At("closed") \in WsState
    BY <2>3, WsStates DEF WsPc
  <2>5. /\ Requeueing("lost", RunningOn(NodeOf[s])).pc = "lost"
        /\ At("closed").pc = "closed"
    BY DEF Requeueing, At
  <2>6. /\ WsTypeOK' /\ session'[s].pc \in {"lost", "closed"}
        /\ \A r \in Sessions : r # s => session'[r] = session[r]
    BY <2>1, <2>4, <2>5, GotoType
  <2>7. HandlerInv'
    BY <2>1, <2>6, HandlerKept
  <2> QED BY <2>2, <2>6, <2>7
<1>19. CASE RequeueLost(s)
  <2> PICK t \in session[s].todo :
        /\ Requeue(s, t)
        /\ mpi_jobs' = IF session[s].pc = "lost" THEN mpi_jobs
                       ELSE [mpi_jobs EXCEPT ![t] = None]
        /\ Goto(s, Requeueing(session[s].pc, session[s].todo \ {t}))
    BY <1>19 DEF RequeueLost
  <2>1. t \in Tasks /\ session[s].todo \ {t} \in SUBSET Tasks
    BY <1>5 DEF WsState
  <2>2. /\ call' \in [Procs -> Calls \cup {None}]
        /\ \A q \in Procs : q # s => call'[q] = call[q]
    BY <1>1, <2>1, CallBegins
  <2>3. mpi_jobs' \in [Tasks -> Jobs \cup {None}]
    BY <1>2, <2>1
  <2>4. /\ session[s].pc \in {"lost", "mpi_lost"}
        /\ UNCHANGED <<wireVars, nodeVars, pending_tasks, queue_locked, running_tasks,
                       retry_counts, completed_tasks, historyVars>>
    BY <1>19 DEF RequeueLost
  <2>5. WireTypeOK' /\ AppTypeOK'
    BY <2>2, <2>3, <2>4 DEF WireTypeOK, AppTypeOK
  <2>6. Requeueing(session[s].pc, session[s].todo \ {t}) \in WsState
    BY <2>1, <2>4, WsStates DEF WsPc
  <2>7. /\ WsTypeOK' /\ session'[s].pc = session[s].pc
        /\ \A r \in Sessions : r # s => session'[r] = session[r]
    BY <2>6, GotoType DEF Requeueing
  <2>8. HandlerInv'
    BY <2>2, <2>4, <2>7, HandlerKept
  <2> QED BY <2>5, <2>7, <2>8
<1>20. CASE LostRequeued(s)
  <2>1. /\ \/ Goto(s, Requeueing("mpi_lost", MpiRunningOn(NodeOf[s]))) /\ UNCHANGED rxOpen
           \/ Goto(s, At("closed")) /\ rxOpen' = [rxOpen EXCEPT ![s] = FALSE]
        /\ UNCHANGED <<link, toServer, toWorker, stateVars>>
    BY <1>20 DEF LostRequeued
  <2>2. WireTypeOK' /\ AppTypeOK'
    BY <2>1 DEF WireTypeOK, AppTypeOK
  <2>3. MpiRunningOn(NodeOf[s]) \in SUBSET Tasks
    BY DEF MpiRunningOn
  <2>4. /\ Requeueing("mpi_lost", MpiRunningOn(NodeOf[s])) \in WsState
        /\ At("closed") \in WsState
    BY <2>3, WsStates DEF WsPc
  <2>5. /\ Requeueing("mpi_lost", MpiRunningOn(NodeOf[s])).pc = "mpi_lost"
        /\ At("closed").pc = "closed"
    BY DEF Requeueing, At
  <2>6. /\ WsTypeOK' /\ session'[s].pc \in {"mpi_lost", "closed"}
        /\ \A r \in Sessions : r # s => session'[r] = session[r]
    BY <2>1, <2>4, <2>5, GotoType
  <2>7. HandlerInv'
    BY <2>1, <2>6, HandlerKept
  <2> QED BY <2>2, <2>6, <2>7
<1> QED
  BY <1>10, <1>11, <1>12, <1>13, <1>14, <1>15, <1>16, <1>17, <1>18, <1>19, <1>20 DEF WsNext

-----------------------------------------------------------------------------
(* A call of another process is not a handler's and not a submission's. *)
LEMMA HandlerKeptByOthers ==
  ASSUME HandlerInv, UNCHANGED <<session, submitted_at>>,
         \A p \in Procs : p # Monitor => call'[p] = call[p]
  PROVE  HandlerInv'
<1>1. \A s \in Sessions : s \in Procs /\ s # Monitor
  BY LimitsAssumption DEF Procs
<1>2. \A t \in Tasks : t \in Procs /\ t # Monitor
  BY LimitsAssumption DEF Procs
<1> QED BY <1>1, <1>2 DEF HandlerInv

(* Each step of monitor_nodes. *)
LEMMA MonitorTyped ==
  ASSUME WireTypeOK, AppTypeOK, MonitorTypeOK, HandlerInv, UNCHANGED session, MonitorNext
  PROVE  WireTypeOK' /\ AppTypeOK' /\ MonitorTypeOK' /\ HandlerInv'
<1> USE DEF nodeVars, taskVars, historyVars, wireVars, stateVars
<1>1. /\ monitor \in MonitorState /\ monitor.pc \in MonitorPc /\ monitor.dead \in SUBSET Nodes
      /\ monitor.node \in Nodes \cup {None} /\ monitor.todo \in SUBSET Tasks
  BY DEF MonitorTypeOK, MonitorState
<1>2. \A pc \in MonitorPc, dead \in SUBSET Nodes, n \in Nodes \cup {None}, todo \in SUBSET Tasks :
        Round(pc, dead, n, todo) \in MonitorState
  BY DEF Round, MonitorState
<1>3. /\ DeadNodes \in SUBSET Nodes /\ TimedOut \in SUBSET Tasks
      /\ \A n : RunningOn(n) \in SUBSET Tasks /\ MpiRunningOn(n) \in SUBSET Tasks
  BY DEF DeadNodes, TimedOut, RunningOn, MpiRunningOn
<1>10. CASE Tick
  <2>1. Round("dead", DeadNodes, None, {}) \in MonitorState
    BY <1>2, <1>3 DEF MonitorPc
  <2> QED BY <1>10, <2>1 DEF Tick, WireTypeOK, AppTypeOK, MonitorTypeOK, HandlerInv
<1>11. CASE NextDead
  <2> PICK n \in monitor.dead :
        /\ nodes' = WithStatus(n, "Offline")
        /\ monitor' = Round("lost", monitor.dead \ {n}, n, RunningOn(n))
    BY <1>11 DEF NextDead
  <2>1. n \in Nodes /\ monitor.dead \ {n} \in SUBSET Nodes
    BY <1>1
  <2>2. Round("lost", monitor.dead \ {n}, n, RunningOn(n)) \in MonitorState
    BY <1>2, <1>3, <2>1 DEF MonitorPc
  <2>3. nodes' \in [Nodes -> NodeInfo \cup {None}]
    BY <2>1, NodeHelpersType DEF NodeStatus
  <2> QED BY <1>11, <2>2, <2>3 DEF NextDead, WireTypeOK, AppTypeOK, MonitorTypeOK, HandlerInv
<1>12. CASE RequeueOne
  <2> PICK t \in monitor.todo :
        /\ Requeue(Monitor, t)
        /\ mpi_jobs' = IF monitor.pc = "mpi_lost"
                       THEN [mpi_jobs EXCEPT ![t] = None] ELSE mpi_jobs
        /\ monitor' = Round(monitor.pc, monitor.dead, monitor.node, monitor.todo \ {t})
    BY <1>12 DEF RequeueOne
  <2>1. t \in Tasks /\ monitor.todo \ {t} \in SUBSET Tasks /\ Monitor \in Procs
    BY <1>1 DEF Procs
  <2>2. /\ call' \in [Procs -> Calls \cup {None}]
        /\ \A p \in Procs : p # Monitor => call'[p] = call[p]
    BY <2>1, CallBegins
  <2>3. mpi_jobs' \in [Tasks -> Jobs \cup {None}]
    BY <2>1 DEF AppTypeOK
  <2>4. MonitorTypeOK'
    BY <1>1, <1>2, <2>1 DEF MonitorTypeOK
  <2>5. UNCHANGED <<wireVars, nodeVars, pending_tasks, queue_locked, running_tasks,
                    retry_counts, completed_tasks, historyVars>>
    BY <1>12 DEF RequeueOne
  <2>6. WireTypeOK' /\ AppTypeOK'
    BY <2>2, <2>3, <2>5 DEF WireTypeOK, AppTypeOK
  <2>7. HandlerInv'
    BY <2>2, <2>5, HandlerKeptByOthers
  <2> QED BY <2>4, <2>6, <2>7
<1>13. CASE NextPhase
  <2>1. /\ Round("mpi_lost", monitor.dead, monitor.node, MpiRunningOn(monitor.node)) \in MonitorState
        /\ Round("dead", monitor.dead, None, {}) \in MonitorState
        /\ Round("timed_out", {}, None, TimedOut) \in MonitorState
        /\ Round("idle", {}, None, {}) \in MonitorState
    BY <1>1, <1>2, <1>3 DEF MonitorPc
  <2>2. MonitorTypeOK'
    BY <1>13, <2>1 DEF NextPhase, MonitorTypeOK
  <2> QED BY <1>13, <2>2 DEF NextPhase, WireTypeOK, AppTypeOK, HandlerInv
<1> QED BY <1>10, <1>11, <1>12, <1>13 DEF MonitorNext

-----------------------------------------------------------------------------
(* A submission and a cancellation change no connection. *)
LEMMA ClientTyped ==
  ASSUME AppTypeOK, WireTypeOK, HandlerInv, UNCHANGED session, NEW t \in Tasks,
         SubmitTask(t) \/ CancelTask(t)
  PROVE  AppTypeOK' /\ WireTypeOK' /\ HandlerInv'
<1> USE DEF nodeVars, taskVars, historyVars, wireVars
<1>1. CASE SubmitTask(t)
  <2> DEFINE D == {u \in Tasks : submitted_at[u] # 0}
  <2>1. IsFiniteSet(D) /\ Cardinality(D) \in Nat
    BY FS_CardinalityType DEF HandlerInv
  <2>2. submitted_at' = [submitted_at EXCEPT ![t] = 1 + Cardinality(D)]
    BY <1>1 DEF SubmitTask
  <2>3. /\ Enqueue(t, t)
        /\ UNCHANGED <<wireVars, nodeVars, pending_tasks, queue_locked, running_tasks,
                       mpi_jobs, completed_tasks, attempt, gone>>
    BY <1>1 DEF SubmitTask
  <2> HIDE DEF D
  <2>4. submitted_at' \in [Tasks -> Nat] /\ submitted_at'[t] # 0
    BY <2>1, <2>2 DEF AppTypeOK
  <2>5. {u \in Tasks : submitted_at'[u] # 0} = D \cup {t}
    BY <2>2, <2>4 DEF AppTypeOK, D
  <2>6. IsFiniteSet({u \in Tasks : submitted_at'[u] # 0})
    BY <2>1, <2>5, FS_AddElement
  <2>7. AppTypeOK' /\ WireTypeOK'
    <3>1. t \in Procs
      BY DEF Procs
    <3> QED BY <2>3, <2>4, <3>1, EnqueueTyped DEF AppTypeOK, WireTypeOK
  <2>8. \A p \in Procs : p # t => call'[p] = call[p]
    BY <2>3 DEF Enqueue, AppTypeOK
  <2>9. /\ \A s \in Sessions : s \in Procs /\ s # t
        /\ \A u \in Tasks : u \in Procs
    BY IdsAssumption DEF Procs
  <2>10. \A s \in Sessions : call'[s] = call[s]
    BY <2>8, <2>9
  <2>11. \A u \in Tasks : submitted_at'[u] = 0 => u # t /\ submitted_at[u] = 0
    BY <2>2, <2>4 DEF AppTypeOK
  <2>12. \A u \in Tasks : submitted_at'[u] = 0 => call'[u] = None
    BY <2>8, <2>9, <2>11 DEF HandlerInv
  <2> QED BY <2>6, <2>7, <2>10, <2>12 DEF HandlerInv
<1>2. CASE CancelTask(t)
  <2>1. PICK i \in 1 .. Len(pending_tasks) : pending_tasks' = RemoveAt(pending_tasks, i)
    BY <1>2 DEF CancelTask
  <2>2. pending_tasks' \in Seq(Tasks)
    BY <2>1, RemoveType DEF AppTypeOK
  <2>3. AppTypeOK' /\ WireTypeOK'
    BY <1>2, <2>2 DEF CancelTask, AppTypeOK, WireTypeOK
  <2> QED BY <1>2, <2>3 DEF CancelTask, HandlerInv
<1> QED BY <1>1, <1>2

-----------------------------------------------------------------------------
(* A broken connection lets a prefix through. *)
LEMMA BreakTyped ==
  ASSUME WireTypeOK, NEW s \in Sessions, Break(s)
  PROVE  WireTypeOK'
BY PrefixType DEF WireTypeOK, Break

(* The end of send_task. *)
LEMMA SendTaskEndsTyped ==
  ASSUME WireTypeOK, NEW s \in Sessions, SendTaskEnds(s)
  PROVE  WireTypeOK'
BY DEF WireTypeOK, SendTaskEnds

(* The answer to a dispatch is a message. *)
LEMMA AnswerIsMessage ==
  ASSUME NEW m, m.task \in Tasks, m.rank \in Nat, m.att \in Nat, NEW ok \in BOOLEAN
  PROVE  Answer(m, ok) \in WorkerMessage
BY DEF Answer, AnswerType, WorkerMessage

(* What a worker process may become. *)
LEMMA ProcessType ==
  ASSUME WorkerTypeOK, NEW n \in Nodes
  PROVE  /\ worker[n].session \in Sessions \cup {None}
         /\ worker[n].shutdown \in BOOLEAN
         /\ \A s \in Sessions \cup {None}, b \in BOOLEAN, c \in BOOLEAN :
              [worker EXCEPT ![n] = Process(s, b, c)]
                \in [Nodes -> [session : Sessions \cup {None},
                               shutdown : BOOLEAN, exited : BOOLEAN]]
<1>1. worker[n] \in [session : Sessions \cup {None}, shutdown : BOOLEAN, exited : BOOLEAN]
  BY DEF WorkerTypeOK
<1>2. ASSUME NEW s \in Sessions \cup {None}, NEW b \in BOOLEAN, NEW c \in BOOLEAN
      PROVE  Process(s, b, c)
               \in [session : Sessions \cup {None}, shutdown : BOOLEAN, exited : BOOLEAN]
  BY <1>2 DEF Process
<1>3. ASSUME NEW s \in Sessions \cup {None}, NEW b \in BOOLEAN, NEW c \in BOOLEAN
      PROVE  [worker EXCEPT ![n] = Process(s, b, c)]
               \in [Nodes -> [session : Sessions \cup {None},
                              shutdown : BOOLEAN, exited : BOOLEAN]]
  BY <1>2 DEF WorkerTypeOK
<1> QED BY <1>1, <1>3

-----------------------------------------------------------------------------
(* Executions end, counters stay. *)
LEMMA FewerExecs ==
  ASSUME WorkerTypeOK, ActiveInv, UNCHANGED active, execs' \subseteq execs
  PROVE  ActiveInv'
<1>1. IsFiniteSet(execs) /\ IsFiniteSet(execs')
  BY FS_Subset DEF ActiveInv
<1>2. ASSUME NEW s \in Sessions
      PROVE  Cardinality({e \in execs' : e.session = s}) <= active[s]
  <2> DEFINE A == {e \in execs : e.session = s}
             B == {e \in execs' : e.session = s}
  <2>1. IsFiniteSet(A) /\ B \subseteq A
    BY <1>1, FS_Subset
  <2>2. Cardinality(B) <= Cardinality(A) /\ Cardinality(B) \in Nat /\ Cardinality(A) \in Nat
    BY <2>1, FS_Subset, FS_CardinalityType
  <2>3. Cardinality(A) <= active[s] /\ active[s] \in Nat
    BY DEF ActiveInv, WorkerTypeOK
  <2> QED BY <2>2, <2>3
<1> QED BY <1>1, <1>2 DEF ActiveInv

(* A task is accepted: one more execution, one more in the counter. *)
LEMMA OneMoreExec ==
  ASSUME WorkerTypeOK, ActiveInv, NEW s \in Sessions, NEW x, x.session = s,
         active' = [active EXCEPT ![s] = @ + 1], execs' = execs \cup {x}
  PROVE  ActiveInv'
<1>1. IsFiniteSet(execs) /\ IsFiniteSet(execs')
  BY FS_AddElement DEF ActiveInv
<1>2. ASSUME NEW r \in Sessions
      PROVE  Cardinality({e \in execs' : e.session = r}) <= active'[r]
  <2> DEFINE A == {e \in execs : e.session = r}
             B == {e \in execs' : e.session = r}
  <2>1. IsFiniteSet(A)
    BY <1>1, FS_Subset
  <2>2. Cardinality(A) <= active[r] /\ active[r] \in Nat /\ Cardinality(A) \in Nat
    BY <2>1, FS_CardinalityType DEF ActiveInv, WorkerTypeOK
  <2>3. active'[r] = IF r = s THEN active[r] + 1 ELSE active[r]
    BY DEF WorkerTypeOK
  <2>4. CASE r = s
    <3>1. B = A \cup {x}
      BY <2>4
    <3> HIDE DEF A, B
    <3>2. Cardinality(B) \in {Cardinality(A), Cardinality(A) + 1}
      BY <2>1, <3>1, FS_AddElement
    <3>3. Cardinality(B) <= active'[r]
      BY <2>2, <2>3, <2>4, <3>2
    <3> QED BY <3>3 DEF B
  <2>5. CASE r # s
    <3>1. B = A
      BY <2>5
    <3> QED BY <2>2, <2>3, <2>5, <3>1
  <2> QED BY <2>4, <2>5
<1> QED BY <1>1, <1>2 DEF ActiveInv

(* An execution ends and is taken off the counter of its connection. *)
LEMMA OneExecLess ==
  ASSUME WorkerTypeOK, ActiveInv, NEW x \in execs,
         active' = [active EXCEPT ![x.session] = @ - 1], execs' = execs \ {x}
  PROVE  ActiveInv' /\ active' \in [Sessions -> Nat]
<1>0. x.session \in Sessions
  BY DEF WorkerTypeOK, Exec
<1>1. IsFiniteSet(execs) /\ IsFiniteSet(execs')
  BY FS_Subset DEF ActiveInv
<1>2. ASSUME NEW r \in Sessions
      PROVE  /\ Cardinality({e \in execs' : e.session = r}) <= active'[r]
             /\ active'[r] \in Nat
  <2> DEFINE A == {e \in execs : e.session = r}
             B == {e \in execs' : e.session = r}
  <2>1. IsFiniteSet(A)
    BY <1>1, FS_Subset
  <2>2. Cardinality(A) <= active[r] /\ active[r] \in Nat /\ Cardinality(A) \in Nat
    BY <2>1, FS_CardinalityType DEF ActiveInv, WorkerTypeOK
  <2>3. active'[r] = IF r = x.session THEN active[r] - 1 ELSE active[r]
    BY DEF WorkerTypeOK
  <2>4. CASE r = x.session
    <3>1. B = A \ {x} /\ x \in A
      BY <2>4
    <3> HIDE DEF A, B
    <3>2. Cardinality(B) = Cardinality(A) - 1 /\ Cardinality(B) \in Nat
      BY <2>1, <3>1, FS_RemoveElement, FS_CardinalityType, FS_Subset
    <3>3. Cardinality(B) <= active'[r] /\ active'[r] \in Nat
      BY <2>2, <2>3, <2>4, <3>2
    <3> QED BY <3>3 DEF B
  <2>5. CASE r # x.session
    <3>1. B = A
      BY <2>5
    <3> QED BY <2>2, <2>3, <2>5, <3>1
  <2> QED BY <2>4, <2>5
<1>3. active' \in [Sessions -> Nat]
  BY <1>2 DEF WorkerTypeOK
<1> QED BY <1>1, <1>2, <1>3 DEF ActiveInv

(* An execution answers: it changes its phase. *)
LEMMA ExecAnswers ==
  ASSUME WorkerTypeOK, ActiveInv, NEW x \in execs, NEW y, y.session = x.session,
         UNCHANGED active, execs' = (execs \ {x}) \cup {y}
  PROVE  ActiveInv'
<1>1. IsFiniteSet(execs) /\ IsFiniteSet(execs \ {x}) /\ IsFiniteSet(execs')
  BY FS_Subset, FS_AddElement DEF ActiveInv
<1>2. ASSUME NEW r \in Sessions
      PROVE  Cardinality({e \in execs' : e.session = r}) <= active[r]
  <2> DEFINE A == {e \in execs : e.session = r}
             B == {e \in execs' : e.session = r}
  <2>1. IsFiniteSet(A) /\ IsFiniteSet(A \ {x})
    BY <1>1, FS_Subset
  <2>2. Cardinality(A) <= active[r] /\ active[r] \in Nat /\ Cardinality(A) \in Nat
    BY <2>1, FS_CardinalityType DEF ActiveInv, WorkerTypeOK
  <2>4. CASE r = x.session
    <3>1. B = (A \ {x}) \cup {y} /\ x \in A
      BY <2>4
    <3> HIDE DEF A, B
    <3>2. Cardinality(A \ {x}) = Cardinality(A) - 1
      BY <2>1, <3>1, FS_RemoveElement
    <3>3. Cardinality(B) \in {Cardinality(A \ {x}), Cardinality(A \ {x}) + 1}
      BY <2>1, <3>1, FS_AddElement
    <3>4. Cardinality(B) <= active[r]
      BY <2>2, <3>2, <3>3
    <3> QED BY <3>4 DEF B
  <2>5. CASE r # x.session
    <3>1. B = A
      BY <2>5
    <3> QED BY <2>2, <3>1
  <2> QED BY <2>4, <2>5
<1> QED BY <1>1, <1>2 DEF ActiveInv

-----------------------------------------------------------------------------
(* What is received and sent. *)
LEMMA DispatchType ==
  ASSUME WireTypeOK, NEW s \in Sessions, toWorker[s] # <<>>
  PROVE  /\ Head(toWorker[s]) \in ServerMessage
         /\ [toWorker EXCEPT ![s] = Tail(@)] \in [Sessions -> Seq(ServerMessage)]
         /\ Head(toWorker[s]).type \in {"DispatchTask", "DispatchMpiSlot"} =>
              /\ Head(toWorker[s]).task \in Tasks
              /\ Head(toWorker[s]).rank \in Nat
              /\ Head(toWorker[s]).att \in Nat
<1>1. toWorker[s] \in Seq(ServerMessage)
  BY DEF WireTypeOK
<1>2. Head(toWorker[s]) \in ServerMessage /\ Tail(toWorker[s]) \in Seq(ServerMessage)
  BY <1>1, HeadTail
<1>3. [toWorker EXCEPT ![s] = Tail(@)] \in [Sessions -> Seq(ServerMessage)]
  BY <1>2 DEF WireTypeOK
<1> QED BY <1>2, <1>3 DEF ServerMessage

(* The steps of a connection. *)
LEMMA SessionStepTyped ==
  ASSUME WireTypeOK, WorkerTypeOK, ActiveInv, NEW s \in Sessions,
         \/ Connect(s) \/ HeartbeatTick(s) \/ SendHeartbeat(s) \/ Ignore(s)
         \/ ReceiveDispatch(s)
  PROVE  WireTypeOK' /\ WorkerTypeOK' /\ ActiveInv'
<1> USE DEF wireVars, workerVars
<1>1. NodeOf[s] \in Nodes
  BY IdsAssumption
<1>2. CASE Connect(s)
  <2> DEFINE n == NodeOf[s]
  <2>1. worker' \in [Nodes -> [session : Sessions \cup {None},
                              shutdown : BOOLEAN, exited : BOOLEAN]]
    BY <1>1, <1>2, ProcessType DEF Connect
  <2>2. <<[type |-> "Register"]>> \in Seq(WorkerMessage)
    BY DEF WorkerMessage
  <2>3. WireTypeOK'
    BY <1>2, <2>2 DEF Connect, WireTypeOK
  <2>4. WorkerTypeOK'
    BY <1>2, <2>1 DEF Connect, WorkerTypeOK
  <2>5. ActiveInv'
    BY <1>2 DEF Connect, ActiveInv
  <2> QED BY <2>3, <2>4, <2>5
<1>3. CASE HeartbeatTick(s)
  <2>1. beat' \in [Sessions -> Nat \cup {None}]
    BY <1>3 DEF HeartbeatTick, WorkerTypeOK
  <2> QED BY <1>3, <2>1 DEF HeartbeatTick, WireTypeOK, WorkerTypeOK, ActiveInv
<1>6. CASE SendHeartbeat(s)
  <2> DEFINE drain == [type |-> "Draining"]
  <2>1. Heartbeat(s) \in WorkerMessage /\ drain \in WorkerMessage
    <3>1. beat[s] \in Nat
      BY <1>6 DEF SendHeartbeat, WorkerTypeOK
    <3> QED BY <3>1 DEF Heartbeat, WorkerMessage
  <2>2. /\ toServer' = Sent(s, <<Heartbeat(s)>>) \/ toServer' = Sent(s, <<Heartbeat(s), drain>>)
        /\ hb' = hb \/ hb' = [hb EXCEPT ![s] = FALSE]
        /\ beat' = [beat EXCEPT ![s] = None]
        /\ UNCHANGED <<link, toWorker, rxOpen, worker, active, execs>>
    BY <1>6 DEF SendHeartbeat
  <2> HIDE DEF drain
  <2>3. <<Heartbeat(s)>> \in Seq(WorkerMessage) /\ <<Heartbeat(s), drain>> \in Seq(WorkerMessage)
    BY <2>1
  <2>4. toServer' \in [Sessions -> Seq(WorkerMessage)]
    BY <2>2, <2>3, SentType
  <2>5. beat' \in [Sessions -> Nat \cup {None}]
    BY <2>2 DEF WorkerTypeOK
  <2> QED BY <2>2, <2>4, <2>5 DEF WireTypeOK, WorkerTypeOK, ActiveInv
<1>4. CASE Ignore(s)
  <2>1. toWorker' \in [Sessions -> Seq(ServerMessage)]
    BY <1>4, DispatchType DEF Ignore
  <2> QED BY <1>4, <2>1 DEF Ignore, WireTypeOK, WorkerTypeOK, ActiveInv
<1>5. CASE ReceiveDispatch(s)
  <2> DEFINE m == Head(toWorker[s])
             x == [session |-> s, task |-> m.task, rank |-> m.rank,
                   att |-> m.att, phase |-> "running"]
  <2>1. /\ toWorker' \in [Sessions -> Seq(ServerMessage)]
        /\ m.task \in Tasks /\ m.rank \in Nat /\ m.att \in Nat
    BY <1>5, DispatchType DEF ReceiveDispatch
  <2>2. UNCHANGED <<link, rxOpen, worker, hb, beat>> /\ (Accept(s, m) \/ Refuse(s, m))
    BY <1>5 DEF ReceiveDispatch
  <2> HIDE DEF m
  <2>3. CASE Accept(s, m)
    <3>1. active' = [active EXCEPT ![s] = @ + 1] /\ execs' = execs \cup {x}
          /\ UNCHANGED toServer
      BY <2>3 DEF Accept
    <3>2. x \in Exec /\ x.session = s
      BY <2>1 DEF Exec
    <3> HIDE DEF x
    <3>3. ActiveInv'
      BY <3>1, <3>2, OneMoreExec
    <3>4. active' \in [Sessions -> Nat]
      BY <3>1 DEF WorkerTypeOK
    <3>5. execs' \in SUBSET Exec
      BY <3>1, <3>2 DEF WorkerTypeOK
    <3>6. WorkerTypeOK'
      BY <2>2, <3>4, <3>5 DEF WorkerTypeOK
    <3> QED BY <2>1, <2>2, <3>1, <3>3, <3>6 DEF WireTypeOK
  <2>4. CASE Refuse(s, m)
    <3>1. Answer(m, FALSE) \in WorkerMessage
      BY <2>1, AnswerIsMessage
    <3>2. <<Answer(m, FALSE)>> \in Seq(WorkerMessage)
      BY <3>1, SingletonType
    <3>3. toServer' \in [Sessions -> Seq(WorkerMessage)]
      BY <2>4, <3>2, SentType DEF Refuse
    <3> QED BY <2>1, <2>2, <2>4, <3>3 DEF Refuse, WireTypeOK, WorkerTypeOK, ActiveInv
  <2> QED BY <2>2, <2>3, <2>4
<1> QED BY <1>2, <1>3, <1>4, <1>5, <1>6

(* The steps of a process. *)
LEMMA ProcessStepTyped ==
  ASSUME WireTypeOK, WorkerTypeOK, ActiveInv, NEW n \in Nodes,
         EndSession(n) \/ Exit(n) \/ CtrlC(n) \/ Crash(n)
  PROVE  WireTypeOK' /\ WorkerTypeOK' /\ ActiveInv'
<1> USE DEF wireVars
<1>1. /\ worker[n].session \in Sessions \cup {None}
      /\ worker[n].shutdown \in BOOLEAN
      /\ \A s \in Sessions \cup {None}, b \in BOOLEAN, c \in BOOLEAN :
           [worker EXCEPT ![n] = Process(s, b, c)]
             \in [Nodes -> [session : Sessions \cup {None},
                            shutdown : BOOLEAN, exited : BOOLEAN]]
  BY ProcessType
<1>2. worker' \in [Nodes -> [session : Sessions \cup {None},
                            shutdown : BOOLEAN, exited : BOOLEAN]]
  <2>1. PICK s \in Sessions \cup {None}, b \in BOOLEAN, c \in BOOLEAN :
               worker' = [worker EXCEPT ![n] = Process(s, b, c)]
    <3>1. CASE EndSession(n)
      BY <1>1, <3>1 DEF EndSession
    <3>2. CASE Exit(n)
      BY <3>2 DEF Exit
    <3>3. CASE CtrlC(n)
      BY <1>1, <3>3 DEF CtrlC
    <3>4. CASE Crash(n)
      BY <1>1, <3>4 DEF Crash
    <3> QED BY <3>1, <3>2, <3>3, <3>4
  <2> QED BY <1>1, <2>1
<1>3. execs' \subseteq execs /\ UNCHANGED active
  BY DEF EndSession, Exit, CtrlC, Crash
<1>4. hb' \in [Sessions -> BOOLEAN]
  BY DEF EndSession, Exit, CtrlC, Crash, WorkerTypeOK
<1>9. beat' \in [Sessions -> Nat \cup {None}]
  BY DEF EndSession, Exit, CtrlC, Crash, WorkerTypeOK
<1>5. WorkerTypeOK'
  BY <1>2, <1>3, <1>4, <1>9 DEF WorkerTypeOK
<1>6. ActiveInv'
  BY <1>3, FewerExecs
<1>7. UNCHANGED wireVars \/ \E s \in Sessions : Break(s)
  BY <1>1 DEF EndSession, Exit, CtrlC, Crash
<1>8. WireTypeOK'
  BY <1>7, BreakTyped DEF WireTypeOK
<1> QED BY <1>5, <1>6, <1>8

(* The steps of an execution. *)
LEMMA ExecStepTyped ==
  ASSUME WireTypeOK, WorkerTypeOK, ActiveInv, NEW e \in execs,
         Finish(e, TRUE) \/ Finish(e, FALSE) \/ Release(e)
  PROVE  WireTypeOK' /\ WorkerTypeOK' /\ ActiveInv'
<1> USE DEF wireVars
<1>1. /\ e \in Exec /\ e.session \in Sessions /\ e.task \in Tasks
      /\ e.rank \in Nat /\ e.att \in Nat
  BY DEF WorkerTypeOK, Exec
<1>2. CASE Finish(e, TRUE) \/ Finish(e, FALSE)
  <2>1. Answer(e, TRUE) \in WorkerMessage /\ Answer(e, FALSE) \in WorkerMessage
    BY <1>1, AnswerIsMessage
  <2>2. <<Answer(e, TRUE)>> \in Seq(WorkerMessage) /\ <<Answer(e, FALSE)>> \in Seq(WorkerMessage)
    BY <2>1, SingletonType
  <2>3. toServer' \in [Sessions -> Seq(WorkerMessage)]
    <3>1. \/ toServer' = Sent(e.session, <<Answer(e, TRUE)>>)
          \/ toServer' = Sent(e.session, <<Answer(e, FALSE)>>)
          \/ toServer' = toServer
      BY <1>2 DEF Finish
    <3> QED BY <1>1, <2>2, <3>1, SentType DEF WireTypeOK
  <2> DEFINE y == [e EXCEPT !.phase = "answered"]
  <2>4. y \in Exec /\ y.session = e.session
    BY <1>1 DEF Exec
  <2>5. execs' = (execs \ {e}) \cup {y}
        /\ UNCHANGED <<link, toWorker, rxOpen, worker, active, hb, beat>>
    BY <1>2 DEF Finish
  <2> HIDE DEF y
  <2>6. ActiveInv'
    BY <2>4, <2>5, ExecAnswers
  <2>8. execs' \in SUBSET Exec
    BY <2>4, <2>5 DEF WorkerTypeOK
  <2>7. WorkerTypeOK'
    BY <2>5, <2>8 DEF WorkerTypeOK
  <2> QED BY <2>3, <2>5, <2>6, <2>7 DEF WireTypeOK
<1>3. CASE Release(e)
  <2>1. /\ active' = [active EXCEPT ![e.session] = @ - 1] /\ execs' = execs \ {e}
        /\ UNCHANGED <<wireVars, worker, hb, beat>>
    BY <1>3 DEF Release
  <2>2. ActiveInv' /\ active' \in [Sessions -> Nat]
    BY <2>1, OneExecLess
  <2> QED BY <2>1, <2>2 DEF WireTypeOK, WorkerTypeOK
<1> QED BY <1>2, <1>3

-----------------------------------------------------------------------------
(* The first state: nothing submitted, no worker connected. *)
LEMMA InitTyped ==
  ASSUME Init
  PROVE  IInv
<1>1. WireTypeOK
  BY DEF Init, WireInit, WireTypeOK
<1>2. AppTypeOK
  <2>1. nodes \in [Nodes -> NodeInfo \cup {None}] /\ worker_channels \in [Nodes -> Sessions \cup {None}]
    BY DEF Init, AppInit
  <2>2. pending_tasks \in Seq(Tasks) /\ completed_tasks \in Seq(DoneTask)
    BY DEF Init, AppInit
  <2>3. queue_locked \in BOOLEAN /\ gone \in SUBSET Tasks
    BY DEF Init, AppInit
  <2>4. /\ running_tasks \in [Tasks -> LiveTask \cup {None}]
        /\ retry_counts \in [Tasks -> 0 .. MaxRetries \cup {None}]
        /\ mpi_jobs \in [Tasks -> Jobs \cup {None}]
    BY DEF Init, AppInit
  <2>5. call \in [Procs -> Calls \cup {None}]
    BY DEF Init, AppInit
  <2>6. submitted_at \in [Tasks -> Nat] /\ attempt \in [Tasks -> Nat]
    BY DEF Init, AppInit
  <2> QED BY <2>1, <2>2, <2>3, <2>4, <2>5, <2>6 DEF AppTypeOK
<1>3. SchedTypeOK
  BY DEF Init, SchedInit, SchedIdle, SchedTypeOK, SchedState, SchedPc
<1>4. WsTypeOK
  BY WsStates DEF Init, WsInit, WsTypeOK, WsPc
<1>5. MonitorTypeOK
  BY DEF Init, MonitorInit, Round, MonitorTypeOK, MonitorState, MonitorPc
<1>6. WorkerTypeOK
  BY DEF Init, WorkerInit, Process, WorkerTypeOK
<1>7. ScanInv
  BY DEF Init, SchedInit, SchedIdle, AppInit, ScanInv
<1>8. HandlerInv
  <2>1. \A s \in Sessions : session[s].pc = "new"
    BY DEF Init, WsInit, At
  <2>2. \A t \in Tasks : call[t] = None
    BY DEF Init, AppInit, Procs
  <2>3. {t \in Tasks : submitted_at[t] # 0} = {}
    BY DEF Init, AppInit
  <2> QED BY <2>1, <2>2, <2>3, FS_EmptySet DEF HandlerInv
<1>9. ActiveInv
  <2>1. execs = {} /\ \A s \in Sessions : active[s] = 0
    BY DEF Init, WorkerInit
  <2>2. \A s \in Sessions : {e \in execs : e.session = s} = {}
    BY <2>1
  <2> QED BY <2>1, <2>2, FS_EmptySet DEF ActiveInv
<1> QED
  BY <1>1, <1>2, <1>3, <1>4, <1>5, <1>6, <1>7, <1>8, <1>9 DEF IInv, TypeOK

(* ScanInv and HandlerInv are left alone by whoever holds neither the      *)
(* queue nor a handler.                                                    *)
LEMMA ScanUntouched ==
  ASSUME ScanInv, UNCHANGED <<sched, pending_tasks, queue_locked>>
  PROVE  ScanInv'
BY DEF ScanInv, Current

LEMMA QueueFree ==
  ASSUME ScanInv, ~queue_locked, UNCHANGED <<sched, queue_locked>>
  PROVE  ScanInv'
BY DEF ScanInv

(* Each step of the system. *)
LEMMA NextTyped ==
  ASSUME IInv, [Next]_vars
  PROVE  IInv'
<1> USE DEF IInv, TypeOK
<1>1. CASE ServerStep
  <2>1. WorkerTypeOK' /\ ActiveInv'
    BY <1>1 DEF ServerStep, workerVars, WorkerTypeOK, ActiveInv
  <2>2. CASE SchedNext /\ UNCHANGED <<session, monitor>>
    <3>1. WireTypeOK' /\ AppTypeOK' /\ SchedTypeOK' /\ ScanInv'
      BY <2>2, SchedTyped
    <3>2. UNCHANGED <<call, submitted_at>>
      BY <2>2 DEF SchedNext, Lock, Skip, Send, SendTask, Record, Recruit, RecruitNodes,
                  SendSlot, RecordMpi, RegisterJob, AbortDispatch, Sweep, Unlock,
                  taskVars, historyVars, stateVars
    <3>3. WsTypeOK' /\ MonitorTypeOK' /\ HandlerInv'
      BY <2>2, <3>2 DEF WsTypeOK, MonitorTypeOK, HandlerInv
    <3> QED BY <2>1, <3>1, <3>3
  <2>3. CASE \E s \in Sessions : WsNext(s) /\ UNCHANGED <<sched, monitor>>
    <3>1. WireTypeOK' /\ AppTypeOK' /\ WsTypeOK' /\ HandlerInv'
      BY <2>3, WsTyped
    <3>2. UNCHANGED <<pending_tasks, queue_locked>>
      <4>1. PICK s \in Sessions : WsNext(s)
        BY <2>3
      <4>2. CASE OnRegister(s) \/ OnHeartbeat(s) \/ OnDraining(s) \/ OnClose(s)
        BY <4>2 DEF OnRegister, OnHeartbeat, OnDraining, OnClose
      <4>3. CASE OnTaskResult(s) \/ OnTaskError(s) \/ Answered(s)
        BY <4>3 DEF OnTaskResult, OnTaskError, Answered
      <4>4. CASE OnMpiRankResult(s) \/ OnMpiRankError(s) \/ Finalize(s) \/ Finalized(s)
        BY <4>4 DEF OnMpiRankResult, OnMpiRankError, Finalize, Finalized
      <4>5. CASE RequeueLost(s) \/ LostRequeued(s)
        BY <4>5 DEF RequeueLost, LostRequeued, stateVars
      <4> QED BY <4>1, <4>2, <4>3, <4>4, <4>5 DEF WsNext
    <3>3. SchedTypeOK' /\ MonitorTypeOK'
      BY <2>3 DEF SchedTypeOK, MonitorTypeOK
    <3>4. ScanInv'
      BY <2>3, <3>2, ScanUntouched
    <3> QED BY <2>1, <3>1, <3>3, <3>4
  <2>4. CASE MonitorNext /\ UNCHANGED <<sched, session>>
    <3>1. WireTypeOK' /\ AppTypeOK' /\ MonitorTypeOK' /\ HandlerInv'
      BY <2>4, MonitorTyped
    <3>2. UNCHANGED <<pending_tasks, queue_locked>>
      BY <2>4 DEF MonitorNext, Tick, NextDead, RequeueOne, NextPhase, stateVars
    <3>3. SchedTypeOK' /\ WsTypeOK' /\ ScanInv'
      BY <2>4, <3>2, ScanUntouched DEF SchedTypeOK, WsTypeOK
    <3> QED BY <2>1, <3>1, <3>3
  <2>5. CASE /\ \E p \in Procs : ReturnFromCall(p)
             /\ UNCHANGED <<wireVars, sched, session, monitor>>
    <3> PICK p \in Procs : ReturnFromCall(p)
      BY <2>5
    <3>1. AppTypeOK'
      BY CallTyped
    <3>2. WireTypeOK' /\ SchedTypeOK' /\ WsTypeOK' /\ MonitorTypeOK'
      BY <2>5 DEF wireVars, WireTypeOK, SchedTypeOK, WsTypeOK, MonitorTypeOK
    <3>3. UNCHANGED <<submitted_at, queue_locked>>
          /\ (pending_tasks' = pending_tasks \/ ~queue_locked)
      BY DEF ReturnFromCall, ReadRetries, WriteRetries, Reenqueue, Push, EndTask, Done,
             historyVars
    <3>4. ScanInv'
      BY <2>5, <3>3, ScanUntouched, QueueFree
    <3>5. \A q \in Procs : call[q] = None => call'[q] = None
      <4>1. PICK c \in Calls \cup {None} : call' = [call EXCEPT ![p] = c]
        BY CallMoves
      <4>2. call[p] # None
        BY DEF ReturnFromCall, ReadRetries, WriteRetries, Reenqueue, Push, EndTask, Done, InCall
      <4> QED BY <4>1, <4>2 DEF AppTypeOK
    <3>6. Sessions \subseteq Procs /\ Tasks \subseteq Procs
      BY DEF Procs
    <3>7. HandlerInv'
      BY <2>5, <3>3, <3>5, <3>6 DEF HandlerInv
    <3> QED BY <2>1, <3>1, <3>2, <3>4, <3>7
  <2> QED BY <1>1, <2>2, <2>3, <2>4, <2>5 DEF ServerStep
<1>2. CASE ClientStep
  <2>1. PICK t \in Tasks : SubmitTask(t) \/ CancelTask(t)
    BY <1>2 DEF ClientStep
  <2>2. UNCHANGED <<workerVars, sched, session, monitor>>
    BY <1>2 DEF ClientStep
  <2>3. AppTypeOK' /\ WireTypeOK' /\ HandlerInv'
    BY <2>1, <2>2, ClientTyped
  <2>4. SchedTypeOK' /\ WsTypeOK' /\ MonitorTypeOK' /\ WorkerTypeOK' /\ ActiveInv'
    BY <2>2 DEF workerVars, SchedTypeOK, WsTypeOK, MonitorTypeOK, WorkerTypeOK, ActiveInv
  <2>5. UNCHANGED queue_locked /\ (pending_tasks' = pending_tasks \/ ~queue_locked)
    BY <2>1 DEF SubmitTask, CancelTask
  <2>6. ScanInv'
    BY <2>2, <2>5, ScanUntouched, QueueFree
  <2> QED BY <2>3, <2>4, <2>6
<1>3. CASE WorkerStep
  <2>1. UNCHANGED <<stateVars, sched, session, monitor>>
    BY <1>3 DEF WorkerStep
  <2>2. AppTypeOK' /\ SchedTypeOK' /\ WsTypeOK' /\ MonitorTypeOK' /\ ScanInv' /\ HandlerInv'
    BY <2>1, ScanUntouched
       DEF stateVars, nodeVars, taskVars, historyVars, AppTypeOK, SchedTypeOK, WsTypeOK,
           MonitorTypeOK, HandlerInv
  <2>3. WireTypeOK' /\ WorkerTypeOK' /\ ActiveInv'
    BY <1>3, SessionStepTyped, ProcessStepTyped, ExecStepTyped DEF WorkerStep, Delivery
  <2> QED BY <2>2, <2>3
<1>4. CASE NetworkStep
  <2>1. CASE /\ \E s \in Sessions : Break(s) \/ SendTaskEnds(s)
             /\ UNCHANGED <<stateVars, sched, session, monitor, workerVars>>
    <3>1. WireTypeOK'
      BY <2>1, BreakTyped, SendTaskEndsTyped
    <3>2. AppTypeOK' /\ SchedTypeOK' /\ WsTypeOK' /\ MonitorTypeOK' /\ ScanInv' /\ HandlerInv'
      BY <2>1, ScanUntouched
         DEF stateVars, nodeVars, taskVars, historyVars, AppTypeOK, SchedTypeOK, WsTypeOK,
             MonitorTypeOK, HandlerInv
    <3>3. WorkerTypeOK' /\ ActiveInv'
      BY <2>1 DEF workerVars, WorkerTypeOK, ActiveInv
    <3> QED BY <3>1, <3>2, <3>3
  <2>2. CASE /\ \E n \in Nodes : Silence(n)
             /\ UNCHANGED <<sched, session, monitor, workerVars>>
    <3>1. PICK n \in Nodes : Silence(n)
      BY <2>2
    <3>2. nodes' \in [Nodes -> NodeInfo \cup {None}]
      <4>1. nodes[n] # None /\ nodes' = [nodes EXCEPT ![n].stale = TRUE]
        BY <3>1 DEF Silence
      <4>2. nodes[n] \in NodeInfo
        BY <4>1 DEF AppTypeOK
      <4>3. [nodes[n] EXCEPT !.stale = TRUE] \in NodeInfo
        BY <4>2 DEF NodeInfo
      <4> QED BY <4>1, <4>3 DEF AppTypeOK
    <3>3. WireTypeOK' /\ AppTypeOK' /\ HandlerInv'
      BY <2>2, <3>1, <3>2
         DEF Silence, wireVars, taskVars, historyVars, WireTypeOK, AppTypeOK, HandlerInv
    <3>4. SchedTypeOK' /\ WsTypeOK' /\ MonitorTypeOK' /\ WorkerTypeOK' /\ ActiveInv'
      BY <2>2 DEF workerVars, SchedTypeOK, WsTypeOK, MonitorTypeOK, WorkerTypeOK, ActiveInv
    <3>5. ScanInv'
      BY <2>2, <3>1, ScanUntouched DEF Silence
    <3> QED BY <3>3, <3>4, <3>5
  <2> QED BY <1>4, <2>1, <2>2 DEF NetworkStep
<1>5. CASE UNCHANGED vars
  BY <1>5 DEF vars, stateVars, wireVars, nodeVars, taskVars, historyVars, workerVars,
              WireTypeOK, AppTypeOK, SchedTypeOK, WsTypeOK, MonitorTypeOK, WorkerTypeOK,
              ScanInv, Current, HandlerInv, ActiveInv
<1> QED BY <1>1, <1>2, <1>3, <1>4, <1>5 DEF Next

(* IInv holds in every reachable state, whatever the numbers of workers,   *)
(* connections and tasks and whatever fails.                               *)
THEOREM InvariantHolds == Spec => []IInv
<1>1. Init => IInv
  BY InitTyped
<1>2. IInv /\ [Next]_vars => IInv'
  BY NextTyped
<1> QED BY <1>1, <1>2, PTL DEF Spec

(* Every value has the type the code gives it: in particular no counter    *)
(* goes below zero (saturating_sub in the server, fetch_sub in the worker, *)
(* which would wrap) and no retry count exceeds max_retries.               *)
THEOREM TypeCorrect == Spec => []TypeOK
<1>1. IInv => TypeOK
  BY DEF IInv
<1> QED BY <1>1, InvariantHolds, PTL

-----------------------------------------------------------------------------
(* The counter of a connection only grows where the capacity is tested. *)
LEMMA LoadBounded ==
  ASSUME TypeOK, LoadInv, [Next]_vars
  PROVE  LoadInv'
<1>1. active \in [Sessions -> Nat] /\ MaxTasks \in Nat
  BY WorkerAssumption DEF TypeOK, WorkerTypeOK
<1>2. \/ UNCHANGED active
      \/ \E s \in Sessions : active[s] < MaxTasks /\ active' = [active EXCEPT ![s] = @ + 1]
      \/ \E s \in Sessions : active' = [active EXCEPT ![s] = @ - 1]
  <2>1. CASE WorkerStep
    <3>1. CASE \E s \in Sessions :
                 \/ Connect(s) \/ HeartbeatTick(s) \/ SendHeartbeat(s) \/ Ignore(s)
                 \/ Delivery(s)
      BY <3>1 DEF Connect, HeartbeatTick, SendHeartbeat, Ignore, Delivery, ReceiveDispatch,
                  Accept, Refuse, workerVars
    <3>2. CASE \E n \in Nodes : EndSession(n) \/ Exit(n) \/ CtrlC(n) \/ Crash(n)
      BY <3>2 DEF EndSession, Exit, CtrlC, Crash
    <3>3. CASE \E e \in execs : Finish(e, TRUE) \/ Finish(e, FALSE)
      BY <3>3 DEF Finish
    <3>4. CASE \E e \in execs : Release(e)
      <4>1. PICK e \in execs : Release(e)
        BY <3>4
      <4>2. e.session \in Sessions
        BY DEF TypeOK, WorkerTypeOK, Exec
      <4> QED BY <4>1, <4>2 DEF Release
    <3> QED BY <2>1, <3>1, <3>2, <3>3, <3>4 DEF WorkerStep
  <2>2. CASE ServerStep
    BY <2>2 DEF ServerStep, workerVars
  <2>3. CASE ClientStep
    BY <2>3 DEF ClientStep, workerVars
  <2>4. CASE NetworkStep
    BY <2>4 DEF NetworkStep, workerVars
  <2>5. CASE UNCHANGED vars
    BY <2>5 DEF vars, workerVars
  <2> QED BY <2>1, <2>2, <2>3, <2>4, <2>5 DEF Next
<1>3. ASSUME NEW r \in Sessions PROVE active'[r] <= MaxTasks
  BY <1>1, <1>2, <1>3 DEF LoadInv
<1> QED BY <1>3 DEF LoadInv

(* No connection ever runs more executions than --max-tasks: the counter   *)
(* covers them (ActiveInv) and is bounded.                                 *)
THEOREM CapacityHolds == Spec => []CapacityKept
<1>1. Init => LoadInv
  BY WorkerAssumption DEF Init, WorkerInit, LoadInv
<1>2. TypeOK /\ LoadInv /\ [Next]_vars => LoadInv'
  BY LoadBounded
<1>3. IInv /\ LoadInv => CapacityKept
  <2> SUFFICES ASSUME IInv, LoadInv, NEW s \in Sessions
               PROVE  Cardinality({e \in execs : e.session = s}) <= MaxTasks
    BY DEF CapacityKept
  <2>1. {e \in execs : e.session = s} \subseteq execs /\ IsFiniteSet(execs)
    BY DEF IInv, ActiveInv
  <2>2. IsFiniteSet({e \in execs : e.session = s})
    BY <2>1, FS_Subset
  <2>3. Cardinality({e \in execs : e.session = s}) \in Nat
    BY <2>2, FS_CardinalityType
  <2>4. Cardinality({e \in execs : e.session = s}) <= active[s] /\ active[s] <= MaxTasks
    BY DEF IInv, ActiveInv, LoadInv
  <2>5. active[s] \in Nat /\ MaxTasks \in Nat
    BY WorkerAssumption DEF IInv, TypeOK, WorkerTypeOK
  <2> QED BY <2>3, <2>4, <2>5
<1> QED BY <1>1, <1>2, <1>3, InvariantHolds, TypeCorrect, PTL DEF Spec
=============================================================================
