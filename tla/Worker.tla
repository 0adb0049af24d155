------------------------------- MODULE Worker -------------------------------
(***************************************************************************)
(* hypercompute-cli/src/worker.rs and, as a step that ends in a result or  *)
(* an error, executor.rs.  A worker process opens one connection after the *)
(* other; the executions it has spawned outlive the connection they came   *)
(* from, the counter `active` does not: run_session makes a new one.       *)
(***************************************************************************)
EXTENDS Wire

CONSTANTS
  MaxTasks,    \* --max-tasks
  Beats,       \* nodes whose heartbeats are modelled
  MayFail,     \* how many dispatches of a task may end in an executor error
  MayHang,     \* tasks whose execution may never end
  MayStop,     \* workers that may receive Ctrl+C
  MayCrash,    \* workers whose process may be killed
  MayBreak     \* connections that the network may break

ASSUME WorkerAssumption == MaxTasks \in Nat /\ MayFail \in [Tasks -> Nat]

VARIABLES
  worker,   \* per process: its connection, the shutdown flag, whether it ended
  active,   \* per connection: the counter of run_session
  hb,       \* per connection: the heartbeat task is running
  beat,     \* per connection: the load read for the heartbeat to come
  execs     \* spawned executions; an answered one has not decremented active

workerVars == <<worker, active, hb, beat, execs>>

Exec == [session : Sessions, task : Tasks, rank : Nat, att : Nat,
         phase : {"running", "answered"}]

WorkerTypeOK ==
  /\ worker \in [Nodes -> [session : Sessions \cup {None},
                           shutdown : BOOLEAN, exited : BOOLEAN]]
  /\ active \in [Sessions -> Nat]
  /\ hb \in [Sessions -> BOOLEAN]
  /\ beat \in [Sessions -> Nat \cup {None}]
  /\ execs \in SUBSET Exec

Process(s, shutdown, exited) == [session |-> s, shutdown |-> shutdown, exited |-> exited]

WorkerInit ==
  /\ worker = [n \in Nodes |-> Process(None, FALSE, FALSE)]
  /\ active = [s \in Sessions |-> 0]
  /\ hb = [s \in Sessions |-> FALSE]
  /\ beat = [s \in Sessions |-> None]
  /\ execs = {}

ExecsOf(n) == {e \in execs : NodeOf[e.session] = n}

(* connect_async succeeds: Register is the first message of the connection *)
Connect(s) ==
  LET n == NodeOf[s] IN
  /\ worker[n].session = None
  /\ ~worker[n].exited
  /\ link[s] = "idle"
  /\ link' = [link EXCEPT ![s] = "up"]
  /\ toServer' = [toServer EXCEPT ![s] = <<[type |-> "Register"]>>]
  /\ worker' = [worker EXCEPT ![n] = Process(s, @.shutdown, FALSE)]
  /\ hb' = [hb EXCEPT ![s] = TRUE]
  /\ UNCHANGED <<toWorker, rxOpen, active, beat, execs>>

(* The message loop sees the end of the connection; run ends if shutdown   *)
(* was requested, and the executions end with the process.                 *)
EndSession(n) ==
  LET s == worker[n].session IN
  /\ s # None
  /\ link[s] = "down"
  /\ worker' = [worker EXCEPT ![n] = Process(None, @.shutdown, @.shutdown)]
  /\ hb' = [hb EXCEPT ![s] = FALSE]
  /\ beat' = [beat EXCEPT ![s] = None]
  /\ execs' = IF worker[n].shutdown THEN execs \ ExecsOf(n) ELSE execs
  /\ UNCHANGED <<wireVars, active>>

(* connect_async fails, or the back-off ends, with shutdown requested *)
Exit(n) ==
  /\ worker[n].session = None
  /\ worker[n].shutdown
  /\ ~worker[n].exited
  /\ worker' = [worker EXCEPT ![n] = Process(None, TRUE, TRUE)]
  /\ execs' = execs \ ExecsOf(n)
  /\ UNCHANGED <<wireVars, active, hb, beat>>

CtrlC(n) ==
  /\ n \in MayStop
  /\ ~worker[n].exited
  /\ ~worker[n].shutdown
  /\ worker' = [worker EXCEPT ![n] = Process(@.session, TRUE, FALSE)]
  /\ UNCHANGED <<wireVars, active, hb, beat, execs>>

(* the process dies; started again, it is another node *)
Crash(n) ==
  /\ n \in MayCrash
  /\ ~worker[n].exited
  /\ worker' = [worker EXCEPT ![n] = Process(None, @.shutdown, TRUE)]
  /\ execs' = execs \ ExecsOf(n)
  /\ IF worker[n].session # None /\ link[worker[n].session] = "up"
     THEN Break(worker[n].session)
     ELSE UNCHANGED wireVars
  /\ UNCHANGED <<active, hb, beat>>

(* A tick of the heartbeat task: it reads `active`, and collects the other *)
(* statistics before it sends.  A tick whose predecessor has not been read *)
(* yet is left out, unless it would send Draining.                         *)
HeartbeatTick(s) ==
  LET n == NodeOf[s] IN
  /\ n \in Beats
  /\ worker[n].session = s
  /\ hb[s]
  /\ beat[s] = None
  /\ \/ worker[n].shutdown
     \/ \A i \in 1 .. Len(toServer[s]) : toServer[s][i].type # "Heartbeat"
  /\ beat' = [beat EXCEPT ![s] = active[s]]
  /\ UNCHANGED <<wireVars, worker, active, hb, execs>>

Heartbeat(s) == [type |-> "Heartbeat", active |-> beat[s]]

\* Seeded fault: Draining is sent before the last heartbeat.
SendHeartbeatLast(s) ==
  /\ worker[NodeOf[s]].session = s
  /\ hb[s]
  /\ beat[s] # None
  /\ beat' = [beat EXCEPT ![s] = None]
  /\ \/ /\ ~worker[NodeOf[s]].shutdown
        /\ toServer' = Sent(s, <<Heartbeat(s)>>)
        /\ UNCHANGED hb
     \/ /\ worker[NodeOf[s]].shutdown
        /\ toServer' = Sent(s, <<[type |-> "Draining"], Heartbeat(s)>>)
        /\ hb' = [hb EXCEPT ![s] = FALSE]
  /\ UNCHANGED <<link, toWorker, rxOpen, worker, active, execs>>

(* The heartbeat task ends after it has sent Draining, and nothing ends    *)
(* the message loop.                                                       *)
SendHeartbeat(s) ==
  /\ worker[NodeOf[s]].session = s
  /\ hb[s]
  /\ beat[s] # None
  /\ beat' = [beat EXCEPT ![s] = None]
  /\ \/ /\ ~worker[NodeOf[s]].shutdown
        /\ toServer' = Sent(s, <<Heartbeat(s)>>)
        /\ UNCHANGED hb
     \/ /\ worker[NodeOf[s]].shutdown
        /\ toServer' = Sent(s, <<Heartbeat(s), [type |-> "Draining"]>>)
        /\ hb' = [hb EXCEPT ![s] = FALSE]
  /\ UNCHANGED <<link, toWorker, rxOpen, worker, active, execs>>

-----------------------------------------------------------------------------
AnswerType(t, ok) ==
  IF IsMpi(t) THEN IF ok THEN "MpiRankResult" ELSE "MpiRankError"
              ELSE IF ok THEN "TaskResult"    ELSE "TaskError"

Answer(m, ok) == [type |-> AnswerType(m.task, ok), task |-> m.task,
                  rank |-> m.rank, att |-> m.att]

(* a message the worker only logs: Registered, AbortMpiJob *)
Ignore(s) ==
  /\ worker[NodeOf[s]].session = s
  /\ toWorker[s] # <<>>
  /\ Head(toWorker[s]).type \in {"Registered", "AbortMpiJob"}
  /\ toWorker' = [toWorker EXCEPT ![s] = Tail(@)]
  /\ UNCHANGED <<link, toServer, rxOpen, workerVars>>

\* Seeded fault: the capacity test is off by one.
AcceptOneMore(s, m) ==
  /\ active[s] <= MaxTasks
  /\ active' = [active EXCEPT ![s] = @ + 1]
  /\ execs' = execs \cup {[session |-> s, task |-> m.task, rank |-> m.rank,
                           att |-> m.att, phase |-> "running"]}
  /\ UNCHANGED toServer

Accept(s, m) ==
  /\ active[s] < MaxTasks
  /\ active' = [active EXCEPT ![s] = @ + 1]
  /\ execs' = execs \cup {[session |-> s, task |-> m.task, rank |-> m.rank,
                           att |-> m.att, phase |-> "running"]}
  /\ UNCHANGED toServer

\* Seeded fault: a refusal is taken off the counter like an execution.
RefuseReleases(s, m) ==
  /\ active[s] >= MaxTasks
  /\ toServer' = Sent(s, <<Answer(m, FALSE)>>)
  /\ active' = [active EXCEPT ![s] = @ - 1]
  /\ UNCHANGED execs

Refuse(s, m) ==
  /\ active[s] >= MaxTasks
  /\ toServer' = Sent(s, <<Answer(m, FALSE)>>)
  /\ UNCHANGED <<active, execs>>

ReceiveDispatch(s) ==
  /\ worker[NodeOf[s]].session = s
  /\ toWorker[s] # <<>>
  /\ Head(toWorker[s]).type \in {"DispatchTask", "DispatchMpiSlot"}
  /\ toWorker' = [toWorker EXCEPT ![s] = Tail(@)]
  /\ Accept(s, Head(toWorker[s])) \/ Refuse(s, Head(toWorker[s]))
  /\ UNCHANGED <<link, rxOpen, worker, hb, beat>>

(* execute or execute_mpi_slot returns and the answer is handed to the     *)
(* channel of the connection the task came from, even if that has ended.   *)
(* A command that exits with an error is a result all the same.            *)
Finish(e, ok) ==
  /\ e \in execs
  /\ e.phase = "running"
  /\ ok \/ e.att <= MayFail[e.task]
  /\ toServer' = IF worker[NodeOf[e.session]].session = e.session
                 THEN Sent(e.session, <<Answer(e, ok)>>)
                 ELSE toServer
  /\ execs' = (execs \ {e}) \cup {[e EXCEPT !.phase = "answered"]}
  /\ UNCHANGED <<link, toWorker, rxOpen, worker, active, hb, beat>>

(* ac.fetch_sub, after the answer is on its way *)
Release(e) ==
  /\ e \in execs
  /\ e.phase = "answered"
  /\ active' = [active EXCEPT ![e.session] = @ - 1]
  /\ execs' = execs \ {e}
  /\ UNCHANGED <<wireVars, worker, hb, beat>>

-----------------------------------------------------------------------------
(* The counter of a connection covers its executions: it never wraps. *)
ActiveInv ==
  /\ IsFiniteSet(execs)
  /\ \A s \in Sessions : Cardinality({e \in execs : e.session = s}) <= active[s]
=============================================================================
