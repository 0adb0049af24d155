------------------------------ MODULE Cluster ------------------------------
(***************************************************************************)
(* The server of AppState, Scheduler, WsHandler, Monitor and Router with   *)
(* its workers and the connections between them: the next-state relation,  *)
(* the fairness of the runtime, and the properties.                        *)
(***************************************************************************)
EXTENDS Router, Worker

CONSTANT Prompt   \* tasks that a worker may receive before the dispatcher,
                  \* which has just sent them, has recorded them as running

vars == <<wireVars, stateVars, sched, session, monitor, workerVars>>

TypeOK ==
  /\ WireTypeOK
  /\ AppTypeOK
  /\ SchedTypeOK
  /\ WsTypeOK
  /\ MonitorTypeOK
  /\ WorkerTypeOK

Init ==
  /\ WireInit
  /\ AppInit
  /\ SchedInit
  /\ WsInit
  /\ MonitorInit
  /\ WorkerInit

-----------------------------------------------------------------------------
(* The dispatcher's next lines, a few map writes, take less time than the  *)
(* way to the worker; a task of Prompt is exempt.                          *)
Recorded(t) ==
  sched.pc \in {"record", "mpi", "job"} => Current # t

Delivery(s) ==
  /\ ReceiveDispatch(s)
  /\ LET t == Head(toWorker[s]).task IN t \in Prompt \/ Recorded(t)

ServerStep ==
  /\ UNCHANGED workerVars
  /\ \/ SchedNext /\ UNCHANGED <<session, monitor>>
     \/ \E s \in Sessions : WsNext(s) /\ UNCHANGED <<sched, monitor>>
     \/ MonitorNext /\ UNCHANGED <<sched, session>>
     \/ /\ \E p \in Procs : ReturnFromCall(p)
        /\ UNCHANGED <<wireVars, sched, session, monitor>>

ClientStep ==
  /\ \E t \in Tasks : SubmitTask(t) \/ CancelTask(t)
  /\ UNCHANGED <<workerVars, sched, session, monitor>>

WorkerStep ==
  /\ UNCHANGED <<stateVars, sched, session, monitor>>
  /\ \/ \E s \in Sessions :
          \/ Connect(s) \/ HeartbeatTick(s) \/ SendHeartbeat(s) \/ Ignore(s)
          \/ Delivery(s)
     \/ \E n \in Nodes : EndSession(n) \/ Exit(n) \/ CtrlC(n) \/ Crash(n)
     \/ \E e \in execs : Finish(e, TRUE) \/ Finish(e, FALSE) \/ Release(e)

NetworkStep ==
  \/ /\ \E s \in Sessions : \/ s \in MayBreak /\ Break(s)
                            \/ SendTaskEnds(s)
     /\ UNCHANGED <<stateVars, sched, session, monitor, workerVars>>
  \/ /\ \E n \in Nodes : Silence(n)
     /\ UNCHANGED <<sched, session, monitor, workerVars>>

Next == ServerStep \/ ClientStep \/ WorkerStep \/ NetworkStep

Spec == Init /\ [][Next]_vars

-----------------------------------------------------------------------------
(* Fairness.  tokio keeps running every task that can run; its mutex is    *)
(* fair, so a push that waits for the queue gets it between two scans.     *)
(* Workers reconnect, read what they are sent and finish what they run,    *)
(* except the tasks of MayHang.  Clients and failures are not scheduled.   *)
ServerFairness ==
  /\ WF_vars(SchedNext /\ UNCHANGED <<workerVars, session, monitor>>)
  /\ WF_vars(MonitorNext /\ UNCHANGED <<workerVars, sched, session>>)
  /\ \A s \in Sessions : WF_vars(WsNext(s) /\ UNCHANGED <<workerVars, sched, monitor>>)
  /\ SF_vars((\E p \in Procs : ReturnFromCall(p))
               /\ UNCHANGED <<wireVars, workerVars, sched, session, monitor>>)

WorkerFairness ==
  LET serverVars == <<stateVars, sched, session, monitor>> IN
  /\ WF_vars((\E s \in Sessions : Connect(s)) /\ UNCHANGED serverVars)
  /\ WF_vars((\E s \in Sessions : Ignore(s) \/ Delivery(s)) /\ UNCHANGED serverVars)
  /\ \A s \in {r \in Sessions : NodeOf[r] \in Beats} :
       WF_vars((HeartbeatTick(s) \/ SendHeartbeat(s)) /\ UNCHANGED serverVars)
  /\ WF_vars((\E n \in Nodes : EndSession(n) \/ Exit(n)) /\ UNCHANGED serverVars)
  /\ WF_vars((\E e \in execs : e.task \notin MayHang /\ (Finish(e, TRUE) \/ Release(e)))
               /\ UNCHANGED serverVars)

FairSpec == Spec /\ ServerFairness /\ WorkerFairness

-----------------------------------------------------------------------------
(* Properties *)

Completed(t) == \E i \in 1 .. Len(completed_tasks) : completed_tasks[i].task = t

(* What a process is about to requeue while it may still be running: the   *)
(* cleanup of a connection and the monitor pass requeue tasks that they    *)
(* have copied from the running map and not taken out of it.               *)
Pending(p) ==
  IF /\ call[p] # None
     /\ call[p].op \in {"requeue", "retry"}
     /\ p \in Sessions => session[p].pc \in {"lost", "mpi_lost"}
  THEN {call[p].task} ELSE {}

(* p alone has the task, to queue it or to complete it *)
Holds(p, t) == call[p] # None /\ call[p].task = t /\ t \notin Pending(p)

Held(t) == \E p \in Procs : Holds(p, t)

(* the tasks of the snapshots of running tasks that are not requeued yet   *)
Listed ==
  monitor.todo \cup (UNION {session[s].todo : s \in Sessions})
    \cup (UNION {Pending(p) : p \in Procs})

(* the positions that the dispatcher has recorded elsewhere and will remove *)
Leaving == sched.dispatched \cup IF sched.pc = "job" THEN {sched.idx} ELSE {}

Positions(t) == {i \in 1 .. Len(pending_tasks) : pending_tasks[i] = t} \ Leaving

Queued(t) == Positions(t) # {}

(* No task is lost: a task that was submitted, and neither cancelled nor   *)
(* evicted from completed_tasks, is in the queue, running, completed, or   *)
(* in the hands of a handler that is about to queue or complete it,        *)
(* whatever breaks, in whatever order snapshots are requeued.              *)
Accounted(t) ==
  Queued(t) \/ running_tasks[t] # None \/ Completed(t) \/ Held(t) \/ t \in gone

NoTaskLost == \A t \in Tasks : submitted_at[t] # 0 => Accounted(t)

(* A task is in one place only, so it runs on one node and ends once: it   *)
(* is what a client and the completed list rely on.  The code has no lock  *)
(* across its maps; it holds as long as one handler at a time can lose the *)
(* task (no node that is both timed out and disconnected).                 *)
Places(t) ==
  Cardinality(Positions(t))
    + Cardinality({i \in 1 .. Len(completed_tasks) : completed_tasks[i].task = t})
    + Cardinality({p \in Procs : Holds(p, t)})
    + (IF running_tasks[t] # None THEN 1 ELSE 0)
    + (IF t \in gone THEN 1 ELSE 0)

SinglePlace == \A t \in Tasks : submitted_at[t] # 0 => Places(t) = 1

(* What a handler or the monitor has listed to requeue is still running    *)
(* when its turn comes, and until it is removed: requeue does not look     *)
(* again.  SinglePlace rests on it.  It is so while no second cleanup, and *)
(* no answer that arrives by another connection, takes the task away       *)
(* during the awaits of the list, or after requeue has read its retries.   *)
SnapshotsFresh == \A t \in Listed : running_tasks[t] # None

(* A task is queued, or completed, a second time by one kind of step only: *)
(* the requeue, from a snapshot, of a task that has left the running map   *)
(* since.  Cleanups that overlap, answers to earlier dispatches, removals  *)
(* by position, cancellations and evictions do it no other way.            *)
Stale(t) == t \in Listed /\ running_tasks[t] = None

DoubledByStaleOnly ==
  [][\A t \in Tasks :
       submitted_at[t] # 0 /\ Places(t) = 1 /\ Places(t)' # 1 => Stale(t)]_vars

(* The queue is ordered by priority and, between equals, by the time of    *)
(* submission: a task that is requeued goes back ahead of those submitted  *)
(* after it, whichever handlers push in between.                           *)
QueueOrdered ==
  \A i, j \in 1 .. Len(pending_tasks) :
    i < j => ~Before(pending_tasks[j], pending_tasks[i])

(* The executions that a connection has started, those included that have  *)
(* answered and are still counted, are at most --max-tasks, although the   *)
(* test, the increment and the decrement of `active` are apart.  It is not *)
(* so of a worker (README 174): each connection has a counter of its own.  *)
CapacityKept ==
  \A s \in Sessions : Cardinality({e \in execs : e.session = s}) <= MaxTasks

(* the connections of a node that the server still reads *)
ReadPc == {"loop", "answered", "finalize", "finalized"}

Reads(n) == {s \in Sessions : NodeOf[s] = n /\ session[s].pc \in ReadPc}

Draining(n) == nodes[n] # None /\ nodes[n].status = "Draining"

(* A node that said Draining is not Online or Busy again, whatever the     *)
(* monitor does to it and however late its last heartbeats are: they are   *)
(* handled before Draining.  This is so while the server reads a single    *)
(* connection of the node: a heartbeat left on an older one brings it back *)
(* (README 729: nothing more is dispatched).                               *)
DrainingIsFinal ==
  [][\A n \in Nodes :
       /\ Draining(n)
       /\ \A s \in Reads(n) : worker_channels[n] = s /\ worker_channels'[n] = s
       => nodes'[n].status \in {"Draining", "Offline"}]_vars

(* When an MPI job is completed, every rank has answered, once, and to the *)
(* dispatch that is being completed.                                       *)
JobsAccounted ==
  \A i \in 1 .. Len(completed_tasks) :
    completed_tasks[i].status = "MpiCompleted" =>
      LET t == completed_tasks[i].task
          job == completed_tasks[i].job
      IN  /\ RanksOk(job) + RanksFailed(job) = Np[t]
          /\ \A r \in DOMAIN job.results :
               {job.results[r], job.errors[r]} = {0, attempt[t]}

(* A task that fails no more often than max_retries allows ends with a     *)
(* result: nothing strands it in the queue, in the running map or in a job *)
(* that waits for ranks.                                                   *)
Succeeded(t) ==
  \E i \in 1 .. Len(completed_tasks) :
    completed_tasks[i].task = t /\ completed_tasks[i].status # "Failed"

SubmittedSucceeds == \A t \in Tasks : submitted_at[t] # 0 ~> Succeeded(t)

-----------------------------------------------------------------------------
(* What the proofs need besides TypeOK *)

IInv == TypeOK /\ ScanInv /\ HandlerInv /\ ActiveInv

(* Where a task can be found that is not in the queue. *)
Elsewhere(t) ==
  running_tasks[t] # None \/ Completed(t) \/ Held(t) \/ t \in gone

(* The counter that covers the executions of a connection is bounded. *)
LoadInv == \A s \in Sessions : active[s] <= MaxTasks

(* A position the dispatcher is about to remove holds a task that can be   *)
(* found elsewhere: an early answer may already have taken it out of the   *)
(* running map, but only towards completed_tasks or back to the queue.     *)
LossInv ==
  /\ \A t \in Tasks : submitted_at[t] # 0 =>
       Elsewhere(t) \/ \E i \in 1 .. Len(pending_tasks) : pending_tasks[i] = t
  /\ \A i \in Leaving, t \in Tasks : pending_tasks[i] = t => Elsewhere(t)

(* A task is in one place at most: no collection holds it twice, and it is *)
(* in one collection.                                                      *)
PlaceInv ==
  /\ \A i, k \in 1 .. Len(pending_tasks) : pending_tasks[i] = pending_tasks[k] => i = k
  /\ \A i, k \in 1 .. Len(completed_tasks) :
       completed_tasks[i].task = completed_tasks[k].task => i = k
  /\ \A p, q \in Procs, t \in Tasks : Holds(p, t) /\ Holds(q, t) => p = q
  /\ \A t \in Tasks :
       /\ Queued(t) => ~Elsewhere(t)
       /\ running_tasks[t] # None => ~Completed(t) /\ ~Held(t) /\ t \notin gone
       /\ Completed(t) => ~Held(t) /\ t \notin gone
       /\ Held(t) => t \notin gone

(* A task that was not submitted is nowhere. *)
UntouchedInv ==
  \A t \in Tasks : submitted_at[t] = 0 =>
    ~Elsewhere(t) /\ t \notin Listed

(* What a connection that said Draining will not say any more. *)
Quiet(s) ==
  /\ link[s] # "idle"
  /\ ~hb[s]
  /\ \A i \in 1 .. Len(toServer[s]) : toServer[s][i].type \notin {"Register", "Heartbeat"}

(* No heartbeat follows Draining. *)
LastWord(s) ==
  \A i \in 1 .. Len(toServer[s]) : toServer[s][i].type = "Draining" =>
    /\ link[s] # "idle"
    /\ ~hb[s]
    /\ \A k \in (i + 1) .. Len(toServer[s]) :
         toServer[s][k].type \notin {"Register", "Heartbeat"}

(* The server reads no message of a worker before its Register. *)
RegisterFirst(s) ==
  session[s].pc = "new" =>
    /\ toServer[s] # <<>> => Head(toServer[s]).type = "Register"
    /\ link[s] = "up" => toServer[s] # <<>>

(* A draining node has a quiet connection that the server still reads. *)
DrainInv ==
  /\ \A n \in Nodes : Draining(n) => \E s \in Reads(n) : Quiet(s)
  /\ \A s \in Sessions : LastWord(s) /\ RegisterFirst(s)

(* The tasks that handlers queue were submitted: a submission changes the  *)
(* rank of no task in the queue.                                           *)
SubmittedInv ==
  /\ \A i \in 1 .. Len(pending_tasks) : submitted_at[pending_tasks[i]] # 0
  /\ \A p \in Procs :
       call[p] # None /\ call[p].op \in {"retry", "enqueue", "push"}
         => submitted_at[call[p].task] # 0
  /\ \A t \in Tasks : retry_counts[t] # None => submitted_at[t] # 0

-----------------------------------------------------------------------------
(* What the README promises and the code does not keep: each is refuted by *)
(* a run of its own.                                                       *)

(* README 727: every task is retried at most max_retries times.  requeue   *)
(* ends in enqueue, which sets retry_counts back to max_retries.           *)
RetriesBounded == \A t \in Tasks : attempt[t] <= MaxRetries + 1

(* README 725: a blocked task is requeued after task_timeout_secs.  The    *)
(* monitor looks for tasks Running, a status that nothing assigns, so that *)
(* an execution that hangs keeps its task, and so does a node whose        *)
(* cleanup runs between the send and the line that records the task (730). *)
BlockedTaskRequeued ==
  \A t \in Tasks : running_tasks[t] # None ~> running_tasks[t] = None

(* README 716: a job is completed once all its ranks have answered.  The   *)
(* job id is the task id, so that an answer to an earlier dispatch counts  *)
(* as one to the present dispatch.                                         *)
AllRanksAnswered ==
  \A i \in 1 .. Len(completed_tasks) :
    completed_tasks[i].status = "MpiCompleted" =>
      LET job == completed_tasks[i].job
      IN  \A r \in DOMAIN job.results :
            attempt[completed_tasks[i].task] \in {job.results[r], job.errors[r]}

(* README 728: a worker reconnects after a network failure.  The cleanup   *)
(* of the old connection, when it comes after the new Register, removes    *)
(* the new channel: the worker is connected and can be sent nothing.       *)
ConnectedHasChannel ==
  \A s \in Sessions :
    session[s].pc = "loop" /\ link[s] = "up" => worker_channels[NodeOf[s]] = s
=============================================================================
