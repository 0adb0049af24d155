# HyperCompute in TLA+

HyperCompute is a server that hands shell commands, HTTP requests and MPI jobs
to workers over WebSocket. This directory models the server, its workers and the
connections between them, checks the model with TLC and proves theorems about it
with TLAPS. Everything is translated from the Rust code; paths below are relative
to `src/`, `sc`, `ws`, `st` and `ro` stand for
`hypercompute-server/src/{scheduler,ws_handler,state,router}.rs`, `wo`, `ex` and
`su` for `hypercompute-cli/src/{worker,executor,submitter}.rs`, and "the project's
README" is `src/README.md`.

## 1. Inventory

### Components

| Component | Code | State | Operations |
|---|---|---|---|
| Protocol | `hypercompute-proto/src/lib.rs` | none | `Task`, `NodeInfo`, `WorkerMessage`, `ServerMessage` |
| Scoring | same, `score_for` | none | hard requirements (status, tags, RAM, CPU, GPU), then a score |
| Shared state | `st` `AppState` | `nodes`, `worker_channels`, `running_tasks`, `retry_counts`, `mpi_jobs` (concurrent maps), `pending_tasks`, `completed_tasks` (behind locks) | `enqueue`, `requeue`, `complete_task`, `send_to_worker` |
| Dispatcher | `sc` `run`, `dispatch_pending` | position in the queue, nodes chosen, positions dispatched | every 200 ms, scan the queue under its mutex; standard path, MPI path, abort |
| MPI aggregation | `sc` `MpiJobState` | one slot per rank for a result and an error | `record_result`, `record_error`, `is_complete`, `ranks_ok`, `ranks_failed` |
| WebSocket handler | `ws` `handle_socket` | the node id once registered, snapshots of lost tasks | one per connection: `Register`, `Heartbeat`, `TaskResult`, `TaskError`, `MpiRankResult`, `MpiRankError`, `Draining`; cleanup when the connection ends |
| Monitor | `st` `monitor_nodes` | snapshots of dead nodes and of their tasks | every 10 s: nodes not heard of, tasks `Running` for too long |
| REST router | `ro` | none | `submit_task`, `cancel_task`; `get_task`, `list_*`, `get_mpi_job` only read |
| Worker | `wo` | connection, `active` counter per connection, shutdown flag, heartbeat task, spawned executions | connect with back-off, dispatch or refusal, heartbeats, `Ctrl+C` |
| Executor | `ex` | a child process and its pipes, or an HTTP request; a timer | shell, HTTP, custom handler, MPI rank alone or through `mpirun` |
| Submitter | `su` | the id it waits for | one `POST /tasks`; with `--wait`, a poll every 400 ms until the status is final |

### How they interact

A client posts a task; the router's handler calls `enqueue`, which sets
`retry_counts[t]` to the maximum, waits for the queue's mutex, pushes and sorts.
The dispatcher takes the mutex, walks the queue, sends each task that finds an
eligible node over that node's channel, *then* writes it in `running_tasks`, and
removes the dispatched positions at the end. The worker runs the task or refuses
it at capacity, sends the answer and *then* decrements its counter. The handler
of the connection moves the task from `running_tasks` to `completed_tasks`, or
back to the queue through `requeue`. An MPI job is sent to np nodes, then put in
`running_tasks`, then in `mpi_jobs`; each rank's answer fills a slot, and the
handler that fills the last one finalizes the job. When a connection ends, its
handler takes the node's channel away, marks it `Offline`, lists what it ran and
requeues it; the monitor does the same, from its own snapshot, for a node that
has not been heard of for `node_timeout_secs`.

A client that waits asks `get_task`, which looks at the queue, at `running_tasks`
and at `completed_tasks`, one after the other, and answers 404 if it finds the
task in none of them.

No lock spans two of the maps. Every `await` and every map access is a point at
which another of these tasks may run.

### What is hard

- **Interleaving**: the answer to a task, or the end of its connection, is
  handled before the dispatcher has written that it runs.
- **Stale snapshots**: the lists of lost tasks are made before the awaits of the
  loop that requeues them; the same task can be in the lists of two handlers and
  of the monitor. `requeue` itself reads the retries, and writes them some lines
  later: the task may have ended in between.
- **Ordering**: a worker may be connected again before the server has seen the
  end of its first connection.
- **Partial failure**: a job sent to some of its nodes only; a failed rank; a
  connection that breaks while a job is finalized.
- **Liveness**: tasks and jobs that compete for nodes; refusals at capacity; an
  execution that never ends; two pipes to one process, each waiting for the other.

### What makes each component correct

- Shared state: no task is ever in none of the places where the server would look
  for it (`NoTaskLost`); it is in one place only (`SinglePlace`); the queue is
  ordered (`QueueOrdered`).
- Dispatcher: the positions it removes are those of the tasks it dispatched
  (`ScanInv`, and through it `NoTaskLost`).
- MPI aggregation: a job is completed with one answer per rank, all of them to
  the same dispatch (`JobsAccounted`).
- Handlers and monitor: whatever is requeued, from whichever snapshot, is not
  lost (`NoTaskLost`), what is requeued is still running (`SnapshotsFresh`, where one
  handler at a time can lose a task), and nothing but a requeue from a stale snapshot
  makes two tasks of one (`DoubledByStaleOnly`); the load they count settles
  (`LoadSettles`).
- Worker: at most `--max-tasks` executions of a connection (`CapacityKept`), a
  counter that never wraps (`TypeOK`, by `ActiveInv`), `Draining` is final
  (`DrainingIsFinal`).
- Executor: a result is the whole output (`OutputWhole`), every execution ends
  (`Answers`).
- System and client: where snapshots are fresh, a task is in one stage at a time and
  ends once (`LifecycleSpec`, `NoGhost`); what is submitted succeeds
  (`SubmittedSucceeds`); a client that waits gets an outcome (`WaitEnds`), and what it
  is told is final (`ToldIsFinal`).

## 2. The modules

```
Proto <- Wire <- AppState <- Scheduler <- WsHandler <- Monitor <- Router <- Cluster
            \       ^                                                      /    ^
             \     MpiJobState                                            /     |
              <- Worker  <----------------------------------------------       |
                                                                               |
TaskLifecycle <= Refinement (implements) --------------------------------------+
                     ^      ^
                  Client   MCCluster
                     ^      ^
                     MCClient                 Executor (one Finish of Worker, opened)

QueueLemmas <- ClusterProofs <- QueueProofs <- PlaceProofs <- LifecycleProofs <- DispatchProofs
                            <- DrainProofs              Client <-/  Dispatches <-/
```

`<-` is EXTENDS, `<=` is `INSTANCE ... WITH`.

| Module | Models | Variables |
|---|---|---|
| `Proto` | identities, statuses, messages | |
| `Wire` | connections and their channels (axum, tungstenite and tokio's channels: external) | `link`, `toServer`, `toWorker`, `rxOpen` |
| `MpiJobState` | the aggregation of an MPI job | |
| `AppState` | the maps, the queue, `enqueue`, `requeue`, `complete_task` | `nodes`, `worker_channels`, `pending_tasks`, `queue_locked`, `running_tasks`, `completed_tasks`, `retry_counts`, `mpi_jobs`, `call`, `submitted_at`; history: `attempt`, `gone` |
| `Scheduler` | `dispatch_pending` and what it calls | `sched` |
| `WsHandler` | `handle_socket` | `session` |
| `Monitor` | `monitor_nodes` | `monitor` |
| `Router` | `submit_task`, `cancel_task` | |
| `Worker` | `worker.rs` and the executor's outcome | `worker`, `active`, `hb`, `beat`, `execs` |
| `Cluster` | the composition, the fairness, the properties | |
| `TaskLifecycle` | the abstract specification: the stages of a task | `stage` |
| `Refinement` | the refinement mapping from `Cluster` to it | |
| `Client` | `get_task` and the poll loop of the submitter, over `Cluster` | `poll` |
| `Executor` | one execution with its process, pipes and timer | `job`, `pc`, `unsent`, `stdin`, `stdout`, `peer`, `read`, `outcome`; history: `got`, `wrote` |
| `MCCluster`, `MCClient` | the instances for TLC | |
| `QueueLemmas` | facts about sequences, for the proofs | |
| `ClusterProofs` | the inductive invariant, action by action; the capacity of a connection | |
| `QueueProofs` | no task is lost; the queue is ordered | |
| `DrainProofs` | `Draining` is final | |
| `PlaceProofs` | a task is in one place | |
| `LifecycleProofs` | the refinement, step by step; what a client was told | |
| `Dispatches` | what is left of a dispatch until its answer is read, as state predicates of `Cluster`; the hypotheses and invariants of the next module | |
| `DispatchProofs` | snapshots are fresh; jobs have one answer per rank | |
| `ExecutorProofs` | a result is the whole output | |

**Granularity.** A step is the code between two awaits, cut again where a message
leaves (so that its answer may overtake the next line), where a map entry is
unlocked and looked up again (`Finalize` after `is_complete`), and inside `requeue`,
`enqueue` and `complete_task`, which touch one map after the other with no lock over
them. The caller's step leaves the call in `call[p]`, and `p` does nothing else before
the call has returned:

| Step | Lines | Does | Next |
|---|---|---|---|
| `ReadRetries` | `st` 54-60 | reads `retry_counts`; if nothing is left, takes the task off `running_tasks` | `WriteRetries`, or `EndTask` as `Failed` |
| `WriteRetries` | `st` 62-64 | writes the count *it read*, less one; takes the task off `running_tasks`, whatever has become of it since | `Reenqueue` |
| `Reenqueue` | `st` 65, 47 | `enqueue` writes the maximum over it | `Push` |
| `Push` | `st` 48-50 | with the queue's mutex: push and sort | |
| `EndTask` | `st` 74-75 | `complete_task` takes the task off both maps | `Done` |
| `Done` | `st` 76-78 | with the lock of `completed_tasks`: push, and drain what is too old | |

So a handler's `running_tasks.remove` (`ws` 89, 98, 201), the end of `complete_task`
and each of the three steps of a requeue by another handler come in any order: in
`timeouts` and `mpi` a task is completed between lines 54 and 62, and then queued.
Three pairs of adjacent instructions remain one step. `requeue` reads 0 and removes
the task (54, 58): `complete_task` removes it once more (74). It writes the count and
removes the task (62, 63), and `complete_task` removes the task and the count (74, 75):
handlers and monitor go to `running_tasks` before `retry_counts`, or remove
unconditionally, so that one of the two orders of whole steps has the same effect as
their getting in between. To see the gap, a second handler would have to enqueue the
same task, and the dispatcher to scan, send and record it, between the two
instructions. A submission writes its first count in the client's step (`SubmitTask`,
`st` 47), before anyone knows the task; `cancel_task` removes the task under the
queue's mutex (`ro` 74-77) and touches no other map.

`HeartbeatTick` reads `active`, `SendHeartbeat` sends what it read (`wo` 148, 149):
answers and dispatches may come while the statistics are collected.

**Names.** Actions have the names of the messages or of the functions they
translate: `OnTaskResult` is the arm `WorkerMessage::TaskResult`, `Send` and
`Record` the two halves of the standard path of `dispatch_pending`, `SendSlot`,
`RecordMpi`, `RegisterJob` and `AbortDispatch` the parts of `dispatch_mpi_job`,
`OnClose`, `RequeueLost` and `LostRequeued` the cleanup, `NextDead`, `RequeueOne`
and `NextPhase` the loops of `monitor_nodes`.

**The refinement.** `TaskLifecycle` says what a client may rely on: a task goes
from `new` to `queued`, between `queued` and `running` any number of times, from
`running` to `completed` or `failed`, from `queued` to `cancelled`, and only an
ended one is `evicted`. `Stage` computes this from the collections and the calls for a
task that is in one place (`Places`); a task in two places, queued and completed, or
queued twice, is `astray`, and one in no place too: a stage that `TaskLifecycle` does
not have, so that the first step into it refutes the refinement. It is not what
`get_task` answers: a task of a call is queued, or has ended, before the collections
say so, and one that is being requeued is running until line 63. A task at a position
that the dispatcher has recorded and not yet swept counts as running only.

**The client.** Each look of `get_task` is a step of its own, because each takes
and releases a lock. `poll` is the next look, or the outcome; `LookQueue` waits
for the mutex that the dispatcher holds during a scan. A client asks only for a
task whose POST has been answered (`Posted`).

**The executor.** `Worker` has one step `Finish` for an execution that answers,
and need not take it (`MayHang`). `Executor` opens this step: starting the
process or the request, writing the payload of a custom task to stdin *before*
anything reads stdout, collecting, the exit, the timeout. The peer is external and
may read first, stream, ignore its input, hang, exit or die. Chunks stand for the
bytes a pipe holds. `PeerWrites` after the answer is SIGPIPE. `stdout` stands for
either pipe from the peer: stderr is as bounded, and read by the same calls. A process
may leave one of its own behind that holds its output open (`leaves`): then reading to
the end never ends, and only the timeout answers.

**What is abstracted.** Payloads, outputs, logging and durations. The score among
the eligible nodes: any of them may be chosen (this includes what the code
chooses). Ids: a worker process is a node, a connection a session, used once; the
`node_id` of a message is that of its connection, because a worker keeps one id
for its whole life. Time: the cutoff of the monitor is the step `Silence`, a
heartbeat may be late by any amount. `att`, the number of the dispatch an answer
belongs to, is not in the messages; it is history, for the properties.

**Two things the build decides and the model leaves open to a constant.** Between
the dispatcher's send and its next line lie a few map writes, between the send
and the answer a trip to the worker; `Recorded` rules out that the answer wins,
except for the tasks in `Prompt`. The dispatches of a task are bounded by
`MaxAttempts`: a task at the bound has no eligible node.

## 3. What is checked

Seven runs pass, five show a disagreement between the documentation and the code.
Bounds: one or two nodes, one to three connections (`s1` and `s3` of `n1`, `s2` of
`n2`), one to three tasks, `MaxRetries` 1 or 2, `MaxAttempts` 2 or 3. Deadlock is not
checked: a system in which every task is done does stop.

| Run | Instance | Properties | Shows |
|---|---|---|---|
| `disconnect` | 2 workers, 2 tasks, `t2` only fits `n2`, `n1` may be stopped, `s1` may break, `t1` prompt, a client waits for `t1` | `NoTaskLost`, `SnapshotsFresh`, `SinglePlace`, `ToldIsFinal` | whenever the connection breaks, before, between or after send, record, execution and answer, what the cleanup has listed is still running when its turn comes, a task is in one place; and a task that the client was told has ended is not sent to a worker again |
| `overload` | 1 worker with 1 slot, 3 tasks of 2 priorities, one fails once, one may be cancelled, room for 1 completed task | `TypeOK`, `QueueOrdered`, `CapacityKept`, `NoGhost`, `LifecycleSpec` | refusals, retries, cancellations and evictions keep the queue ordered and the worker within its capacity, and leave no copy of a task that is gone; every step is one of the abstract lifecycle |
| `timeouts` | 1 worker, 2 connections in turn, silent for too long at any time, 1 task, 2 dispatches | `NoTaskLost`, `DoubledByStaleOnly` | the monitor, the cleanup of an old connection and the answer over the new one end or requeue the same task from overlapping snapshots and between each other's lines: it is never lost; it may be queued twice, or completed and queued, and the step that makes it so is a requeue of a task that was listed and no longer runs |
| `mpi` | a job of 2 ranks, a rank error, `s1` may break, `n2` may be killed | `NoTaskLost`, `JobsAccounted`, `DoubledByStaleOnly` | a job is never lost, whether it is being sent, recorded, finalized or requeued; it is completed with one answer per rank; and it comes to be in two places by such a requeue only, never by a finalization, a partial dispatch or an answer |
| `liveness` | 2 workers, a task that fails once and only fits `n1`, a job that needs both | `SubmittedSucceeds` (under `FairSpec`) | the task is retried and succeeds, the job gets its two nodes and succeeds |
| `client` | 2 workers, one sends heartbeats and may be stopped, a task that may be cancelled, a client waits for it | `WaitEnds`, `LoadSettles` (under `FairClientSpec`), `DrainingIsFinal` | the client gets an outcome, the end of the task or 404; the load counted for a node that is left idle does not stay; a node that said `Draining` is not given tasks again |
| `executor` | payloads of up to 4 chunks, outputs of up to 2, a pipe that holds 1, every kind and habit of peer | `OutputWhole`, `Answers` (under `FairExecutorSpec`) | no result is cut short; every execution ends, but a custom one that is fed more than a pipe holds and does not read it first |

Two tasks and two nodes are enough for a position to shift under another, for a
task to change nodes and for a job to be half sent; a second connection of one
node is what the orderings around a reconnection need; three tasks make a queue in
which the middle one moves. `MaxAttempts` 2 lets a task be dispatched, lost or
failed, requeued and dispatched again, in `timeouts` while another handler still has
the first dispatch in its snapshot. A payload of 4 chunks exceeds what the two pipes of capacity 1 and a peer hold between them, so that a
handler which answers as it reads can block, and one chunk does not.

`SinglePlace` is asserted only where one handler at a time can lose the task. It
fails when two can: a task of a node that is timed out *and* disconnected, and a job
two of whose nodes are lost one after the other on two live connections, are queued
once by each of the handlers that listed it. It fails as well when the worker
reconnects before its old connection is cleaned up (`ws` 159 lists the tasks of the
node): the cleanup ends or requeues a task that runs over the new connection and is
answered there. The code has nothing against this, and promises nothing about it.

`DoubledByStaleOnly` is what is left of it there. It says of each step that takes a
task from one place to two, or to none, that the task was on some handler's list (or
in a requeue that has begun) and no longer in the running map: `requeue` does not look
again. So the one hazard that the code has no answer to is told from all the others:
an answer that is both completed and requeued, a job finalized twice, positions
removed in the wrong order, a cancellation that leaves a copy.

`LifecycleSpec` and `NoGhost` are asserted where `SnapshotsFresh` holds, as
`SinglePlace` is, and for the same reason they fail elsewhere: a completed task that
is queued again (`st` 54 read before, 62 written after its end) runs and ends a second
time, and a cancelled or evicted task may have a copy that is still dispatched. There
is no promise of this kind for a doubled task that the code keeps.

`JobsAccounted` holds in `mpi` because there the job cannot be dispatched a
second time after a loss (a broken node does not come back); `bad_stale_rank`
shows what happens when it can.

`CapacityKept` is a property of a connection, not of a worker: `run_session` makes a
new counter (`wo` 123) while the executions of the previous connection go on, so
that a worker that reconnects may run more than `--max-tasks` (the project's
README, line 174: "Nombre max de tâches simultanées").

`WaitEnds` is asserted where no answer overtakes the record of its dispatch and no
connection breaks (`Prompt` and `MayBreak` empty): a task that is recorded after its
answer, or after the cleanup of its node, stays `Dispatched` (`bad_blocked`), and its
client polls for ever.

`Answers` excludes by its left-hand side what does block. `execute_custom` writes
the payload (`ex` 224) before it reads stdout and outside of its timeout: a handler
that streams fills its output pipe, stops reading, and both wait; a handler that
ignores its input lets the write wait until it exits. The slot in `active` stays
taken, and nothing requeues the task (`bad_blocked`).

### Where the documentation and the code disagree

Each run checks one property that quotes the project's README; TLC refutes it.

| Run | The README | The code |
|---|---|---|
| `bad_retries` | 727: at most `max_retries` retries | `requeue` (`st` 53-66) stores `retries - 1` and calls `enqueue`, which stores `max_retries` over it: a failing task is retried for ever |
| `bad_blocked` | 725: a blocked task is requeued after 300 s; 730: a dead node's tasks are requeued | the monitor (`st` 135) looks for tasks `Running`, a status no line assigns; a task written to `running_tasks` (`sc` 59) after the cleanup has listed its node's tasks stays there for ever |
| `bad_stale_rank` | 716: a job is completed once all ranks have answered | the job id is the task id (`sc` 38): an answer to an earlier dispatch counts as one to the present dispatch |
| `bad_reconnect` | 181, 728: a worker reconnects | the cleanup of the old connection (`ws` 156) removes the channel of the new one |
| `bad_poll` | 403: `--wait` blocks until the end | a task that moves between the looks of `get_task` (`ro` 46, 53, 57) is not found, and the 404 ends the poll loop (`su` 191) |

Others are told by the code without a run: a rank's failure never requeues its
job, at its last rank the job is completed as `MpiCompleted` (`ws` 123-142; the
README's line 726 says that it is requeued); after Ctrl+C only the heartbeats end,
the message loop goes on for as long as the server is there (`wo` 150-164; line 182
says that the worker disconnects); `--max-tasks` is counted per connection (above);
a command that times out is not killed (`ex` 184 drops the future, and tokio leaves
the process running; line 246 says "avant kill"); the bonus of a matching region is
0.1 × 0.05 (`lib.rs` 193-195; line 567 gives it a weight of 0.05).

### Fairness

`FairSpec` assumes weak fairness of the dispatcher, of the monitor and of the
handler of each connection: tokio keeps polling every task that can run, and each
of them only waits for messages, locks and timers. It assumes *strong* fairness of
pending calls (`ReturnFromCall`): the dispatcher frees the queue's mutex between
two scans and tokio's mutex is fair, it queues its waiters. On the workers' side
there is one condition for each kind of step, over all workers, which is weaker than one
for each worker and enough for instances in which no worker can go on for ever:
they connect, read what they are sent, see the end of their connection, finish
executions (those in `MayHang` excepted) and decrement the counter. Heartbeats have
a condition for each connection, because one worker's heartbeats never end.
`Finish` and `Release` share one condition, and `Finish` may end in an error only
as often as `MayFail` says. Nothing is assumed of the network, of failures or of
whether a client submits. The bound `MaxAttempts` can strand a task that is refused
too often; in `liveness` the capacity is large enough (3) that no dispatch is
refused.

`FairClientSpec` adds the client that waits: it polls every 400 ms for as long as it
has no outcome, so its looks are fair, and the first one strongly, since the mutex is
taken and freed for ever by the dispatcher. `FairExecutorSpec` has tokio run the
execution and its timer fire, and a peer that does not hang go on.

## 4. What is proved

With TLAPS, for any numbers of nodes, connections and tasks, and any values of
the limits, from the assumptions `IdsAssumption` (ids are distinct, `NodeOf` and
the attributes of tasks have their types), `LimitsAssumption`, `NoneAssumption`
(`None` is no value), `MaxAttemptsAssumption` and `WorkerAssumption`:

- `ClusterProofs!TypeCorrect`: `Spec => []TypeOK`. It says more than types:
  `active` is a natural number, so the worker's counter never wraps below zero;
  a retry count never exceeds the maximum; what is dispatched, completed or
  requeued is always a task, never an absent entry; the dispatcher never reads
  past the end of the queue.
- `ClusterProofs!InvariantHolds`: `Spec => []IInv`, the inductive invariant.
- `ClusterProofs!CapacityHolds`: `Spec => []CapacityKept`: no connection has more
  executions than `--max-tasks`.
- `QueueProofs!NothingLost`: `Spec => []NoTaskLost`, what the runs `disconnect`,
  `timeouts` and `mpi` check on their instances.
- `QueueProofs!OrderKeptForEver`: `Spec => []QueueOrdered`, for any number of tasks
  and priorities.
- `DrainProofs!DrainingHolds`: `Spec => DrainingIsFinal`, an action property.
- `ExecutorProofs!OutputIsWhole`: `ExecutorSpec => []OutputWhole`, for pipes,
  payloads and outputs of any size.

The properties that follow do not hold of every instance (section 3), so their
theorems say when they do. First, in the system of `disconnect` and `overload`, of any
size: no MPI jobs, workers that connect once (`ConnectsOnce`: no two connections of
one node), heartbeats in time (`MayExpire` empty). Connections may break at any
moment, workers may stop, crash, refuse, hang and fail, answers may come early or
late, clients may cancel, tasks may be evicted.

- `DispatchProofs!OnceFresh`: `Spec => []SnapshotsFresh`.
- `DispatchProofs!OncePlaces`: `Spec => []SinglePlace`.
- `DispatchProofs!OnceImplements`: `Spec => LifecycleSpec`.
- `DispatchProofs!OnceTold`: `ClientSpec => ToldIsFinal`.

Then for every system, of the behaviours in which something does not happen:

| Theorem | Under | States | When the code breaks the condition |
|---|---|---|---|
| `DispatchProofs!OrderlyFresh`, `OrderlyPlaces` | `[]Orderly`, no MPI jobs | `[]SnapshotsFresh`, `[]SinglePlace` | a worker registers again before its old connection is cleaned up; the monitor times a node out |
| `PlaceProofs!PlaceHolds` | `[]SnapshotsFresh` | `[]SinglePlace` | two handlers have listed the same task: two nodes of one job, or the two events above |
| `LifecycleProofs!FreshNoGhost`, `FreshImplements` | `[]SnapshotsFresh` | `[]NoGhost`, `LifecycleSpec` | the same |
| `LifecycleProofs!ToldHolds` | `[]SnapshotsFresh` | `ToldIsFinal` | the same |
| `DispatchProofs!JobsHold` | `[]JobsApart` | `[]JobsAccounted` | a job is dispatched again while a rank of the earlier dispatch has yet to answer (`bad_stale_rank`) |

`FreshImplements` says nothing of a behaviour in which a snapshot goes stale, and
cannot: the code then completes a task and queues it (section 3).

`TypeOK` is not inductive. `Record` reads the queue at the position of the scan,
which is a task only as long as nobody shortens the queue: `ScanInv` says that the
dispatcher has the mutex whenever it is in the scan, that its position is in the
queue, and that the positions it keeps lie before it. `Finalized` writes the job
it took from the map: `HandlerInv` says that it took one, and that a finalizing
handler is in no call. `SubmitTask` numbers the submissions and starts a call: no
call may be there already, and the submitted tasks must be finitely many to be
counted. `Release` decrements: `ActiveInv` says that the counter of a connection is
at least the number of its executions. `IInv` is the conjunction.

The proof has one step per action and, below it, one leaf per variable the action
changes. `ClusterProofs` has the helpers (`Requeue`, what a delivery does to the
channels), then the dispatcher, handlers, monitor, router, workers and network, and
their composition. `QueueLemmas` has what `InsertAt`, `RemoveAt` and `SubSeq` do to
lengths, types and elements.

`NoTaskLost` needs `IInv` and `LossInv`: a submitted task is in the queue or
`Elsewhere` (running, completed, in a call, or gone), and so is every task at a
position the dispatcher is about to remove (`Leaving`), so that its removal loses
nothing. The proof has one idea per kind of step. The dispatcher writes
`running_tasks` before it marks the position and removes the last position first,
so the others stay what they were. `requeue` and `complete_task` move a task into
the call of a process that was in no other. A push takes it out of the call into
the queue, while the dispatcher marks nothing because it does not hold the mutex.
An append puts it in the completed list, and what it drains is `gone`. Workers and
network touch none of this. The argument does not depend on `Recorded`, on the
bounds, or on which node is chosen.

`CapacityKept` follows from `ActiveInv`, the counter covers the executions, and
`LoadInv`, the counter is bounded: it grows only in `Accept`, where it was tested.

`QueueOrdered` is inductive once it is known that every task in the queue, about to
be pushed, or with a retry count was submitted (`SubmittedInv`): then `SubmitTask`
gives a number to no queued task, and the order among queued tasks never changes.
What remains is about sequences. The tasks that `Position` counts, those not to
follow the new one, form an initial segment of an ordered queue (`InitialSegment`,
`PositionSplits`), so that the insertion stands after all of them and before all others
(`InsertOrdered`); a removal keeps the order (`RemoveOrdered`).

`OutputWhole` follows from two facts: every chunk written was read or is in the pipe,
and a result is returned only with the process gone and the pipe empty, after which
nobody writes.

`DrainingIsFinal` needs to know what a connection has yet to say (`DrainInv`). A node
becomes `Draining` when its handler reads `Draining`, and the heartbeat task, which
says it, says nothing after it (`LastWord`); so the connection is `Quiet`: no
heartbeat is in its channel and none will be put there. A draining node has such a
connection that the server still reads; if that is the only one it reads, nothing
brings the node back. A worker's first message is `Register` (`RegisterFirst`), so a
connection that is not read yet says nothing about the status.

`SinglePlace` rests on `PlaceInv`: the queue, the completed list and the calls have
no task twice, and a task that is in the queue, running, completed, in a call or gone
is in only one of these. A call of a cleanup or of the monitor does not have the task
before it takes it off `running_tasks` (`Pending`, `Holds`): until then the task is on
a list still. The two steps that take it off, whether or not it still runs, are the
ones that could break `PlaceInv`. `SnapshotsFresh`, that what is listed still runs,
is exactly what they need, and it is not inductive: an answer that is read between the
listing and the end of the requeue takes the task away. `FreshInv` says why there is
none: a dispatch that may still be answered
(sent and unread, executing, or answered and unread) is on the connection of the node
that the task is assigned to, and there is one at most; the cleanup starts when its
connection has been read to its end, and by `Orderly` no other connection of the node
is read until it is over. The dispatcher adds one dispatch only, to a task of the
queue, which `PlaceInv` says runs nowhere. `Punctual`, for the theorems about a worker
that connects once, says that the monitor never finds a node to time out.

`LifecycleSpec` is proved by kinds of steps (`NextKinds`): a step records a task as
running, takes one out of the running map into a call, goes on with a call, submits,
cancels, or changes nothing that `Stage` looks at. Each moves one task along an edge
of `TaskLifecycle` or none, except the drain, which evicts several. A requeue moves it
when it takes the task off the running map, an ending when its call begins. `PlaceInv`
makes `Stage` a function of the one place the task is in. A cancelled task is told
from an evicted one by its retry count, so the proof needs that a task which waits for
a worker has one and `complete_task` has removed that of an ended one (`EndInv`); both
rest on `SnapshotsFresh`, since a stale requeue writes the count of an ended task.

`ToldIsFinal`: what a look found completed has ended for good, because the completed
list and the queue have no task in common (`PlaceInv`), and only a task that is found
in the queue is dispatched (`SentWereQueued`).

`JobsAccounted` rests on `JobInv`, which follows an answer from the worker to the
completed list: whatever a job, a finalizing handler, a call or an entry holds for a
rank is the number of the present dispatch, in the result or in the error and not in both
(`Tally`, `Full`); every answer on its way belongs to the present dispatch
(`AnswersAreCurrent`), a rank has one at most and none when its slot is filled
(`RanksAnswerOnce`). A new dispatch makes the numbers of all these old, so nothing
may be left of the earlier one (`JobsApart`). That is a condition on behaviours and
not on the system: the code neither waits for the ranks it has given up nor tells
their answers from those of the next dispatch.

**Only model-checked**: all liveness (`SubmittedSucceeds`, `WaitEnds`, `LoadSettles`,
`Answers`), out of the prover's reach under fairness. Of the safety properties,
`JobsAccounted` is checked without its hypothesis in `mpi`, where a broken node does
not come back.

## 5. What is not modelled

- The score of `score_for`: it orders the eligible nodes; the model allows any of
  them, and the hard requirements are a constant (`Suits`).
- `np = 0`: such a job would be sent to no node and wait for ever.
- `list_nodes`, `server_status`, `health`: they read, each map on its own.
- Ports (`9900 + rank as u16`), peer lists and the MPI environment.
- What a command does; capability detection; command-line parsing; back-off times.
- A restart of the server: it persists nothing and starts from `Init`; a client's
  task ids are then unknown.

## 6. Plan

Done: the modules, runs and theorems above. What could follow:

1. `Scoring`: `score_for` as a function on bounded numbers: which node wins, and
   what the score never does (prefer the more loaded of two nodes alike, accept a
   node that misses a requirement); `Eligible` then takes the hard requirements
   from it.
2. `DoubledByStaleOnly` as a theorem: `PlaceInv` task by task, with what holds of a task
   that is already in two places.
3. Fresh snapshots with MPI jobs, when the nodes of a job are lost one at a time; the
   end of a stopped worker, with its back-off.
