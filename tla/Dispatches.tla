----------------------------- MODULE Dispatches -----------------------------
(***************************************************************************)
(* What is left of a dispatch between the dispatcher's send and the moment *)
(* the handler reads the answer, and the two orders of events that the     *)
(* code takes for granted: theorems rest on them, TLC breaks them.         *)
(***************************************************************************)
EXTENDS Cluster

DispatchOf(t, ranks, atts) ==
  [type : {"DispatchTask", "DispatchMpiSlot"}, task : {t}, rank : ranks, att : atts]

AnswerOf(t, ranks, atts) ==
  [type : {"TaskResult", "TaskError", "MpiRankResult", "MpiRankError"},
   task : {t}, rank : ranks, att : atts]

ExecOf(s, t, ranks, atts) ==
  [session : {s}, task : {t}, rank : ranks, att : atts, phase : {"running"}]

Has(q, S) == \E i \in 1 .. Len(q) : q[i] \in S

Once(q, S) == \A i, k \in 1 .. Len(q) : q[i] \in S /\ q[k] \in S => i = k

(* A dispatch that may still be answered on connection s: sent and not yet *)
(* read by the worker, executed, or answered and not yet read.             *)
Sending(s, t, ranks, atts) ==
  link[s] # "down" /\ Has(toWorker[s], DispatchOf(t, ranks, atts))

Executing(s, t, ranks, atts) ==
  link[s] # "down" /\ \E e \in execs : e \in ExecOf(s, t, ranks, atts)

Answering(s, t, ranks, atts) == Has(toServer[s], AnswerOf(t, ranks, atts))

Outstanding(s, t, ranks, atts) ==
  \/ Sending(s, t, ranks, atts)
  \/ Executing(s, t, ranks, atts)
  \/ Answering(s, t, ranks, atts)

(* There is one such dispatch at most, in one of the three forms. *)
Single(s, t, ranks) ==
  /\ link[s] # "down" =>
       /\ Once(toWorker[s], DispatchOf(t, ranks, Nat))
       /\ \A e, f \in execs : /\ e \in ExecOf(s, t, ranks, Nat)
                              /\ f \in ExecOf(s, t, ranks, Nat)
                              => e = f
  /\ Once(toServer[s], AnswerOf(t, ranks, Nat))
  /\ Sending(s, t, ranks, Nat) => ~Executing(s, t, ranks, Nat)
  /\ Answering(s, t, ranks, Nat) =>
       ~Sending(s, t, ranks, Nat) /\ ~Executing(s, t, ranks, Nat)

-----------------------------------------------------------------------------
(* The server is done with the end of a connection of a node before it     *)
(* reads the Register of the next, and the monitor finds nothing to        *)
(* requeue: one handler looks after the tasks of a node.                   *)
Attended(s) == session[s].pc \notin {"new", "closed"}

Orderly ==
  /\ monitor.todo = {}
  /\ \A r, s \in Sessions :
       NodeOf[r] = NodeOf[s] /\ Attended(r) /\ Attended(s) => r = s

(* the task runs on n, or the dispatcher has just sent it there *)
Assigned(t, n) ==
  \/ running_tasks[t] # None /\ running_tasks[t].nodes = {n}
  \/ sched.pc = "record" /\ Current = t /\ sched.targets[1] = n

(* Of a system without MPI jobs: an answer that is still to be read comes  *)
(* from the node that the task is assigned to, and there is one at most;   *)
(* what a handler has listed still runs on its node, and is listed once.   *)
SingleTasksOnly ==
  /\ \A t \in Tasks : /\ mpi_jobs[t] = None
                      /\ running_tasks[t] # None => running_tasks[t].status = "Dispatched"
  /\ \A s \in Sessions : session[s].pc \notin {"finalize", "finalized"}

EndsInSilence ==
  \A s \in Sessions : session[s].pc \in {"lost", "mpi_lost", "closed"} =>
    link[s] = "down" /\ toServer[s] = <<>>

ChannelsAreRead ==
  \A n \in Nodes : worker_channels[n] # None =>
    /\ NodeOf[worker_channels[n]] = n
    /\ session[worker_channels[n]].pc \in ReadPc

AnswersAreAwaited ==
  \A s \in Sessions, t \in Tasks :
    /\ Outstanding(s, t, Nat, Nat) =>
         session[s].pc \in ReadPc /\ Assigned(t, NodeOf[s])
    /\ Single(s, t, Nat)

ListedBy(s) == session[s].todo \cup Pending(s)

ListsAreFresh ==
  /\ \A s \in Sessions : \A t \in ListedBy(s) :
       /\ session[s].pc = "lost"
       /\ running_tasks[t] # None
       /\ running_tasks[t].nodes = {NodeOf[s]}
  /\ \A s \in Sessions : session[s].todo \cap Pending(s) = {}
  /\ \A p \in Procs \ Sessions : Pending(p) = {}

FreshInv ==
  /\ SingleTasksOnly
  /\ EndsInSilence
  /\ ChannelsAreRead
  /\ AnswersAreAwaited
  /\ ListsAreFresh

(* The monitor sleeps when no node was silent for too long. *)
Punctual ==
  /\ monitor = Round("idle", {}, None, {})
  /\ \A n \in Nodes : nodes[n] # None => ~nodes[n].stale

-----------------------------------------------------------------------------
(* When a job is dispatched again, nothing is left of an earlier dispatch. *)
DoneMpi(t) ==
  \/ \E p \in Procs : /\ call[p] # None
                      /\ call[p].op \in {"complete", "done"}
                      /\ call[p].status = "MpiCompleted"
                      /\ call[p].task = t
  \/ \E i \in 1 .. Len(completed_tasks) : /\ completed_tasks[i].status = "MpiCompleted"
                                          /\ completed_tasks[i].task = t

Remains(t) ==
  \/ \E s \in Sessions : Outstanding(s, t, Nat, Nat)
  \/ mpi_jobs[t] # None
  \/ \E s \in Sessions : /\ session[s].pc \in {"finalize", "finalized"}
                         /\ session[s].task = t
  \/ DoneMpi(t)

JobsApart == sched.pc = "mpi" /\ sched.rank = 0 => ~Remains(Current)

(* What a job knows is of the dispatch att, and a rank has one answer. *)
Tally(t, job, att) ==
  /\ t \in MpiTasks
  /\ job \in MpiJob({Np[t]})
  /\ \A r \in Ranks(Np[t]) :
       /\ {job.results[r], job.errors[r]} \subseteq {0, att}
       /\ 0 \in {job.results[r], job.errors[r]}

Full(t, job, att) == Tally(t, job, att) /\ IsComplete(job)

JobsTally ==
  \A t \in Tasks : mpi_jobs[t] # None => Tally(t, mpi_jobs[t], attempt[t])

(* A rank that has answered will not do so again. *)
RanksAnswerOnce ==
  \A s \in Sessions, t \in MpiTasks : mpi_jobs[t] # None =>
    \A r \in Ranks(Np[t]) : Outstanding(s, t, {r}, Nat) =>
      mpi_jobs[t].results[r] = 0 /\ mpi_jobs[t].errors[r] = 0

FinalizersAreSure ==
  \A s \in Sessions :
    LET t == session[s].task IN
    /\ session[s].pc = "finalize" => mpi_jobs[t] = None \/ IsComplete(mpi_jobs[t])
    /\ session[s].pc = "finalized" => Full(t, session[s].job, attempt[t])

CallsAreFull ==
  \A p \in Procs : /\ call[p] # None
                   /\ call[p].op \in {"complete", "done"}
                   /\ call[p].status = "MpiCompleted"
                   => Full(call[p].task, call[p].job, attempt[call[p].task])

EntriesAreFull ==
  \A i \in 1 .. Len(completed_tasks) :
    completed_tasks[i].status = "MpiCompleted" =>
      Full(completed_tasks[i].task, completed_tasks[i].job, attempt[completed_tasks[i].task])

AnswersAreCurrent ==
  \A s \in Sessions, t \in MpiTasks :
    /\ ~Outstanding(s, t, Nat, Nat \ {attempt[t]})
    /\ \A r \in Ranks(Np[t]) :
         /\ Single(s, t, {r})
         /\ Outstanding(s, t, {r}, Nat) =>
              \A s2 \in Sessions : Outstanding(s2, t, {r}, Nat) => s2 = s

SlotsToSend ==
  /\ sched.pc \in {"mpi", "job"} =>
       /\ mpi_jobs[Current] = None
       /\ \A s \in Sessions : session[s].pc = "finalize" => session[s].task # Current
  /\ sched.pc = "mpi" =>
       \A r \in Ranks(Np[Current]), s \in Sessions :
         r >= sched.rank => ~Outstanding(s, Current, {r}, Nat)

JobInv ==
  /\ JobsTally
  /\ RanksAnswerOnce
  /\ FinalizersAreSure
  /\ CallsAreFull
  /\ EntriesAreFull
  /\ AnswersAreCurrent
  /\ SlotsToSend
=============================================================================
