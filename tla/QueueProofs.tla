----------------------------- MODULE QueueProofs -----------------------------
(***************************************************************************)
(* No task is lost, and the queue stays ordered.  A task leaves the running *)
(* map only into a call that queues or completes it, leaves a call only for *)
(* the queue or the completed list, and leaves the queue only by a         *)
(* cancellation or at a position whose task the dispatcher has recorded.   *)
(* A push puts its task after those that precede it, the other steps remove *)
(* tasks or leave the queue alone, and none changes the rank of a queued task. *)
(***************************************************************************)
EXTENDS ClusterProofs

(* The positions the dispatcher will remove are positions of the queue, and *)
(* there are none while it does not hold the mutex.                         *)
LEMMA LeavingType ==
  ASSUME AppTypeOK, SchedTypeOK, ScanInv
  PROVE  /\ \A i \in Leaving : i \in 1 .. Len(pending_tasks) /\ pending_tasks[i] \in Tasks
         /\ ~queue_locked => Leaving = {}
<1>1. sched.idx \in Nat /\ pending_tasks \in Seq(Tasks) /\ Len(pending_tasks) \in Nat
  BY DEF SchedTypeOK, SchedState, AppTypeOK
<1>2. \A i \in Leaving : i \in 1 .. Len(pending_tasks)
  BY <1>1 DEF Leaving, ScanInv
<1>3. \A i \in 1 .. Len(pending_tasks) : pending_tasks[i] \in Tasks
  BY <1>1
<1>4. ~queue_locked => Leaving = {}
  BY DEF Leaving, ScanInv
<1> QED BY <1>2, <1>3, <1>4

(* A step that leaves the queue alone, marks no further position and       *)
(* forgets no task.                                                        *)
LEMMA LossKept ==
  ASSUME AppTypeOK, SchedTypeOK, ScanInv, LossInv,
         UNCHANGED <<pending_tasks, submitted_at>>, Leaving' \subseteq Leaving,
         \A t \in Tasks : Elsewhere(t) => Elsewhere(t)'
  PROVE  LossInv'
<1>1. \A t \in Tasks : submitted_at'[t] # 0 =>
        Elsewhere(t)' \/ \E i \in 1 .. Len(pending_tasks') : pending_tasks'[i] = t
  BY DEF LossInv
<1>2. \A i \in Leaving', t \in Tasks : pending_tasks'[i] = t => Elsewhere(t)'
  BY DEF LossInv
<1> QED BY <1>1, <1>2 DEF LossInv

-----------------------------------------------------------------------------
(* What the steps of the server's processes do to calls and running tasks. *)

(* An answer: p takes t out of the running map and has it in its hands. *)
Takes(p, t) ==
  /\ running_tasks[t] # None
  /\ running_tasks' = [running_tasks EXCEPT ![t] = None]
  /\ \/ Requeue(p, t)
     \/ \E st \in FinalStatus, job \in Jobs \cup {None} : CompleteTask(p, t, st, job)
  /\ Holds(p, t)'

(* A cleanup, or the monitor: p begins to requeue t and leaves it there. *)
Begins(p, t) ==
  /\ UNCHANGED running_tasks
  /\ Requeue(p, t)
  /\ Pending(p)' = {t}

(* Who neither changes its call nor goes on holds what it held. *)
LEMMA HoldsSame ==
  ASSUME NEW p, call'[p] = call[p], p \in Sessions => session'[p] = session[p]
  PROVE  /\ Pending(p)' = Pending(p)
         /\ \A u : Holds(p, u)' <=> Holds(p, u)
BY DEF Holds, Pending

(* Who is in no call holds nothing. *)
LEMMA NoCallHoldsNone ==
  ASSUME NEW p, call[p] = None
  PROVE  Pending(p) = {} /\ \A u : ~Holds(p, u)
BY DEF Holds, Pending

LEMMA NoCallHoldsNoneNext ==
  ASSUME NEW p, call'[p] = None
  PROVE  Pending(p)' = {} /\ \A u : ~Holds(p, u)'
BY DEF Holds, Pending

(* Where a call that begins is. *)
LEMMA CallIs ==
  ASSUME AppTypeOK, NEW p \in Procs, NEW t \in Tasks
  PROVE  /\ Requeue(p, t) =>
              /\ call'[p] # None /\ call'[p].task = t /\ call'[p].op = "requeue"
              /\ \A q \in Procs : q # p => call'[q] = call[q]
         /\ \A st \in FinalStatus, job \in Jobs \cup {None} : CompleteTask(p, t, st, job) =>
              /\ call'[p] # None /\ call'[p].task = t /\ call'[p].op = "complete"
              /\ \A q \in Procs : q # p => call'[q] = call[q]
<1>1. [op |-> "requeue", task |-> t] \in Calls
  BY DEF Calls, Queueing
<1>2. ASSUME Requeue(p, t)
      PROVE  /\ call'[p] # None /\ call'[p].task = t /\ call'[p].op = "requeue"
             /\ \A q \in Procs : q # p => call'[q] = call[q]
  <2>1. call'[p] = [op |-> "requeue", task |-> t]
        /\ \A q \in Procs : q # p => call'[q] = call[q]
    BY <1>2 DEF Requeue, AppTypeOK
  <2> QED BY <1>1, <2>1, NoneAssumption
<1>3. ASSUME NEW st \in FinalStatus, NEW job \in Jobs \cup {None}, CompleteTask(p, t, st, job)
      PROVE  /\ call'[p] # None /\ call'[p].task = t /\ call'[p].op = "complete"
             /\ \A q \in Procs : q # p => call'[q] = call[q]
  <2>1. [op |-> "complete", task |-> t, status |-> st, job |-> job] \in Calls
    BY DEF Calls, Finishing
  <2>2. call'[p] = [op |-> "complete", task |-> t, status |-> st, job |-> job]
        /\ \A q \in Procs : q # p => call'[q] = call[q]
    BY <1>3 DEF CompleteTask, AppTypeOK
  <2> QED BY <2>1, <2>2, NoneAssumption
<1> QED BY <1>2, <1>3

(* The process alone changes its call; no other hold changes. *)
LEMMA OthersHold ==
  ASSUME NEW p \in Procs, \A q \in Procs : q # p => call'[q] = call[q],
         \A q \in Sessions : q # p => session'[q] = session[q]
  PROVE  \A q \in Procs : q # p =>
           Pending(q)' = Pending(q) /\ \A u : Holds(q, u)' <=> Holds(q, u)
BY HoldsSame

(* A handler acts between its calls: it takes a task, begins to requeue    *)
(* one of its list, or leaves calls and running tasks alone.               *)
LEMMA WsEffect ==
  ASSUME AppTypeOK, WireTypeOK, HandlerInv, WsTypeOK, NEW s \in Sessions, WsNext(s)
  PROVE  /\ call[s] = None
         /\ UNCHANGED <<pending_tasks, queue_locked, submitted_at, retry_counts,
                        completed_tasks, gone>>
         /\ \A q \in Sessions : q # s => session'[q] = session[q]
         /\ \/ UNCHANGED <<running_tasks, call>>
            \/ \E t \in Tasks : Takes(s, t)
            \/ \E t \in session[s].todo :
                 t \in Tasks /\ Begins(s, t) /\ session'[s].todo = session[s].todo \ {t}
<1> USE DEF nodeVars, taskVars, historyVars, wireVars, stateVars
<1>0. s \in Procs
  BY DEF Procs
<1>1. UNCHANGED <<pending_tasks, queue_locked, submitted_at, retry_counts,
                  completed_tasks, gone>>
  <2>1. CASE \/ OnRegister(s) \/ OnHeartbeat(s) \/ Answered(s) \/ OnMpiRankResult(s)
             \/ OnMpiRankError(s) \/ Finalize(s) \/ OnDraining(s) \/ OnClose(s)
    BY <2>1 DEF OnRegister, OnHeartbeat, Answered, OnMpiRankResult, OnMpiRankError,
                Finalize, OnDraining, OnClose
  <2>2. CASE \/ OnTaskResult(s) \/ OnTaskError(s) \/ Finalized(s) \/ RequeueLost(s)
             \/ LostRequeued(s)
    BY <2>2 DEF OnTaskResult, OnTaskError, Finalized, RequeueLost, LostRequeued
  <2> QED BY <2>1, <2>2 DEF WsNext
<1>2. call[s] = None
  <2>1. CASE \/ OnRegister(s) \/ OnHeartbeat(s) \/ OnMpiRankResult(s) \/ OnMpiRankError(s)
             \/ OnDraining(s) \/ OnTaskResult(s) \/ OnTaskError(s)
    BY <2>1 DEF OnRegister, OnHeartbeat, OnMpiRankResult, OnMpiRankError, OnDraining,
                OnTaskResult, OnTaskError, Receive
  <2>2. CASE \/ Answered(s) \/ OnClose(s) \/ RequeueLost(s) \/ LostRequeued(s)
    BY <2>2 DEF Answered, OnClose, RequeueLost, LostRequeued
  <2>3. CASE Finalize(s) \/ Finalized(s)
    BY <2>3 DEF Finalize, Finalized, HandlerInv
  <2> QED BY <2>1, <2>2, <2>3 DEF WsNext
<1>3. \E state : session' = [session EXCEPT ![s] = state]
  <2>1. session \in [Sessions -> WsState]
    BY DEF WsTypeOK
  <2>2. session' = session => session' = [session EXCEPT ![s] = session[s]]
    BY <2>1
  <2>3. CASE \/ OnRegister(s) \/ OnHeartbeat(s) \/ Answered(s) \/ OnMpiRankResult(s)
             \/ OnMpiRankError(s) \/ Finalize(s) \/ OnDraining(s) \/ OnClose(s)
    BY <2>2, <2>3 DEF OnRegister, OnHeartbeat, Answered, OnMpiRankResult, OnMpiRankError,
                      Finalize, OnDraining, OnClose, Goto
  <2>4. CASE \/ OnTaskResult(s) \/ OnTaskError(s) \/ Finalized(s) \/ RequeueLost(s)
             \/ LostRequeued(s)
    BY <2>2, <2>4 DEF OnTaskResult, OnTaskError, Finalized, RequeueLost, LostRequeued, Goto
  <2> QED BY <2>3, <2>4 DEF WsNext
<1>4. PICK state : session' = [session EXCEPT ![s] = state]
  BY <1>3
<1>5. \A q \in Sessions : q # s => session'[q] = session[q]
  BY <1>4 DEF WsTypeOK
<1>6. \A x : session' = [session EXCEPT ![s] = x] => session'[s] = x
  BY DEF WsTypeOK
<1>7. \/ UNCHANGED <<running_tasks, call>>
      \/ \E t \in Tasks : Takes(s, t)
      \/ \E t \in session[s].todo :
           t \in Tasks /\ Begins(s, t) /\ session'[s].todo = session[s].todo \ {t}
  <2>1. CASE \/ OnRegister(s) \/ OnHeartbeat(s) \/ Answered(s) \/ OnMpiRankResult(s)
             \/ OnMpiRankError(s) \/ Finalize(s) \/ OnDraining(s) \/ OnClose(s)
             \/ LostRequeued(s)
    BY <2>1 DEF OnRegister, OnHeartbeat, Answered, OnMpiRankResult, OnMpiRankError,
                Finalize, OnDraining, OnClose, LostRequeued
  <2>2. CASE OnTaskResult(s)
    <3>1. PICK t \in Tasks : t = Head(toServer[s]).task
      BY <2>2, ReceiveType DEF OnTaskResult
    <3>2. \/ UNCHANGED <<running_tasks, call>>
          \/ /\ running_tasks[t] # None
             /\ running_tasks' = [running_tasks EXCEPT ![t] = None]
             /\ CompleteTask(s, t, "Completed", None)
      BY <2>2, <3>1 DEF OnTaskResult
    <3>3. ASSUME CompleteTask(s, t, "Completed", None) PROVE Holds(s, t)'
      <4>1. call'[s] # None /\ call'[s].task = t /\ call'[s].op = "complete"
        BY <1>0, <3>3, CallIs DEF FinalStatus
      <4> QED BY <4>1 DEF Holds, Pending
    <3> QED BY <3>2, <3>3 DEF Takes, FinalStatus
  <2>3. CASE OnTaskError(s)
    <3>1. PICK t \in Tasks : t = Head(toServer[s]).task
      BY <2>3, ReceiveType DEF OnTaskError
    <3>2. \/ UNCHANGED <<running_tasks, call>>
          \/ /\ running_tasks[t] # None
             /\ running_tasks' = [running_tasks EXCEPT ![t] = None]
             /\ Requeue(s, t) /\ session' = [session EXCEPT ![s] = At("answered")]
      BY <2>3, <3>1 DEF OnTaskError, Goto
    <3>3. ASSUME Requeue(s, t), session' = [session EXCEPT ![s] = At("answered")]
          PROVE  Holds(s, t)'
      <4>1. call'[s] # None /\ call'[s].task = t
        BY <1>0, <3>3, CallIs
      <4>2. session'[s].pc = "answered"
        BY <1>6, <3>3 DEF At
      <4> QED BY <4>1, <4>2 DEF Holds, Pending
    <3> QED BY <3>2, <3>3 DEF Takes
  <2>4. CASE Finalized(s)
    <3>1. PICK t \in Tasks : t = session[s].task
      BY <2>4 DEF Finalized, HandlerInv
    <3>2. PICK job \in Jobs : job = session[s].job
      BY <2>4 DEF Finalized, HandlerInv
    <3>3. \/ UNCHANGED <<running_tasks, call>>
          \/ /\ running_tasks[t] # None
             /\ running_tasks' = [running_tasks EXCEPT ![t] = None]
             /\ CompleteTask(s, t, "MpiCompleted", job)
      BY <2>4, <3>1, <3>2 DEF Finalized
    <3>4. ASSUME CompleteTask(s, t, "MpiCompleted", job) PROVE Holds(s, t)'
      <4>1. call'[s] # None /\ call'[s].task = t /\ call'[s].op = "complete"
        BY <1>0, <3>4, CallIs DEF FinalStatus
      <4> QED BY <4>1 DEF Holds, Pending
    <3> QED BY <3>3, <3>4 DEF Takes, FinalStatus
  <2>5. CASE RequeueLost(s)
    <3>1. PICK t \in session[s].todo :
            /\ Requeue(s, t)
            /\ session' = [session EXCEPT ![s] =
                             Requeueing(session[s].pc, session[s].todo \ {t})]
      BY <2>5 DEF RequeueLost, Goto
    <3>2. t \in Tasks
      BY DEF WsTypeOK, WsState
    <3>3. session'[s] = Requeueing(session[s].pc, session[s].todo \ {t})
      BY <1>6, <3>1
    <3>4. session'[s].pc \in {"lost", "mpi_lost"}
          /\ session'[s].todo = session[s].todo \ {t}
      BY <2>5, <3>3 DEF RequeueLost, Requeueing
    <3>5. call'[s] # None /\ call'[s].task = t /\ call'[s].op = "requeue"
      BY <1>0, <3>1, <3>2, CallIs
    <3>6. Pending(s)' = {t}
      BY <3>4, <3>5 DEF Pending
    <3>7. UNCHANGED running_tasks
      BY <2>5 DEF RequeueLost
    <3>8. Begins(s, t)
      BY <3>1, <3>6, <3>7 DEF Begins
    <3> QED BY <3>2, <3>4, <3>8
  <2> QED BY <2>1, <2>2, <2>3, <2>4, <2>5 DEF WsNext
<1> QED BY <1>1, <1>2, <1>5, <1>7

(* The monitor begins to requeue a task of its list, or leaves calls alone. *)
LEMMA MonitorEffect ==
  ASSUME AppTypeOK, MonitorTypeOK, MonitorNext
  PROVE  /\ UNCHANGED <<running_tasks, pending_tasks, queue_locked, submitted_at,
                        retry_counts, completed_tasks, gone>>
         /\ \/ UNCHANGED call
            \/ /\ call[Monitor] = None
               /\ \E t \in monitor.todo :
                    t \in Tasks /\ Begins(Monitor, t) /\ monitor'.todo = monitor.todo \ {t}
<1> USE DEF nodeVars, taskVars, historyVars, wireVars, stateVars
<1>1. UNCHANGED <<running_tasks, pending_tasks, queue_locked, submitted_at,
                  retry_counts, completed_tasks, gone>>
  BY DEF MonitorNext, Tick, NextDead, RequeueOne, NextPhase
<1>2. CASE Tick \/ NextDead \/ NextPhase
  BY <1>1, <1>2 DEF Tick, NextDead, NextPhase
<1>3. CASE RequeueOne
  <2>1. PICK t \in monitor.todo :
          /\ Requeue(Monitor, t)
          /\ monitor' = Round(monitor.pc, monitor.dead, monitor.node, monitor.todo \ {t})
    BY <1>3 DEF RequeueOne
  <2>2. t \in Tasks /\ Monitor \in Procs /\ Monitor \notin Sessions
    BY LimitsAssumption DEF MonitorTypeOK, MonitorState, Procs
  <2>3. call'[Monitor] # None /\ call'[Monitor].task = t /\ call'[Monitor].op = "requeue"
    BY <2>1, <2>2, CallIs
  <2>4. Pending(Monitor)' = {t}
    BY <2>2, <2>3 DEF Pending
  <2>5. call[Monitor] = None /\ monitor'.todo = monitor.todo \ {t}
    BY <1>3, <2>1 DEF RequeueOne, Round
  <2>6. Begins(Monitor, t)
    BY <1>1, <2>1, <2>4 DEF Begins
  <2> QED BY <1>1, <2>2, <2>5, <2>6
<1> QED BY <1>2, <1>3 DEF MonitorNext

(* A call goes on: what is still running may stop to be so, and is then in *)
(* the hands of the process.                                               *)
GoesOn(p) == ReadRetries(p) \/ WriteRetries(p) \/ Reenqueue(p) \/ EndTask(p)

LEMMA CallGoesOn ==
  ASSUME AppTypeOK, NEW p \in Procs, GoesOn(p), UNCHANGED session
  PROVE  /\ UNCHANGED <<pending_tasks, queue_locked, submitted_at, completed_tasks, gone>>
         /\ \A q \in Procs : q # p => call'[q] = call[q]
         /\ call[p] # None /\ call'[p] # None
         /\ \E t \in Tasks :
              /\ call[p].task = t /\ call'[p].task = t
              /\ \/ UNCHANGED running_tasks /\ Pending(p)' = Pending(p)
                 \/ running_tasks' = [running_tasks EXCEPT ![t] = None] /\ Pending(p)' = {}
<1> USE DEF nodeVars, historyVars
<1>1. UNCHANGED <<pending_tasks, queue_locked, submitted_at, completed_tasks, gone>>
  BY DEF GoesOn, ReadRetries, WriteRetries, Reenqueue, EndTask, Enqueue
<1>2. call[p] # None
  BY DEF GoesOn, ReadRetries, WriteRetries, Reenqueue, EndTask, InCall
<1>3. PICK t \in Tasks : t = call[p].task
  BY <1>2, CallFields
<1>4. CASE /\ InCall(p, "requeue") /\ running_tasks' = [running_tasks EXCEPT ![t] = None]
           /\ CompleteTask(p, t, "Failed", None)
  <2>1. /\ call'[p] # None /\ call'[p].task = t /\ call'[p].op = "complete"
        /\ \A q \in Procs : q # p => call'[q] = call[q]
    BY <1>4, CallIs DEF FinalStatus
  <2>2. Pending(p)' = {}
    BY <2>1 DEF Pending
  <2> QED BY <1>1, <1>2, <1>3, <1>4, <2>1, <2>2
<1>5. CASE /\ InCall(p, "requeue") /\ UNCHANGED running_tasks
           /\ retry_counts[t] \notin {None, 0}
           /\ call' = [call EXCEPT ![p] =
                         [op |-> "retry", task |-> t, left |-> retry_counts[t] - 1]]
  <2>1. call'[p] = [op |-> "retry", task |-> t, left |-> retry_counts[t] - 1]
        /\ \A q \in Procs : q # p => call'[q] = call[q]
    BY <1>5 DEF AppTypeOK
  <2>2. retry_counts[t] - 1 \in 0 .. MaxRetries
    BY <1>5, LimitsAssumption DEF AppTypeOK
  <2>3. [op |-> "retry", task |-> t, left |-> retry_counts[t] - 1] \in Calls
    BY <2>2 DEF Calls, Retrying
  <2>4. call'[p] # None
    BY <2>1, <2>3, NoneAssumption
  <2>5. call'[p].task = t /\ call'[p].op = "retry" /\ call[p].op = "requeue"
    BY <1>5, <2>1 DEF InCall
  <2>6. Pending(p)' = Pending(p)
    BY <1>2, <1>3, <2>4, <2>5 DEF Pending
  <2> QED BY <1>1, <1>2, <1>3, <1>5, <2>1, <2>4, <2>5, <2>6
<1>6. ASSUME NEW o \in {"enqueue", "push"}, call' = [call EXCEPT ![p] = [op |-> o, task |-> t]]
      PROVE  /\ call'[p] # None /\ call'[p].task = t /\ Pending(p)' = {}
             /\ \A q \in Procs : q # p => call'[q] = call[q]
  <2>1. call'[p] = [op |-> o, task |-> t]
        /\ \A q \in Procs : q # p => call'[q] = call[q]
    BY <1>6 DEF AppTypeOK
  <2>2. [op |-> o, task |-> t] \in Calls
    BY DEF Calls, Queueing
  <2>3. call'[p] # None
    BY <2>1, <2>2, NoneAssumption
  <2>4. call'[p].task = t /\ call'[p].op \notin {"requeue", "retry"}
    BY <2>1
  <2>5. Pending(p)' = {}
    BY <2>4 DEF Pending
  <2> QED BY <2>1, <2>3, <2>4, <2>5
<1>7. CASE WriteRetries(p)
  <2>1. running_tasks' = [running_tasks EXCEPT ![t] = None]
        /\ call' = [call EXCEPT ![p] = [op |-> "enqueue", task |-> t]]
    BY <1>3, <1>7 DEF WriteRetries
  <2> QED BY <1>1, <1>2, <1>3, <1>6, <2>1
<1>8. CASE Reenqueue(p)
  <2>1. UNCHANGED running_tasks
        /\ call' = [call EXCEPT ![p] = [op |-> "push", task |-> t]]
    BY <1>3, <1>8 DEF Reenqueue, Enqueue
  <2>2. Pending(p) = {}
    BY <1>8 DEF Reenqueue, InCall, Pending
  <2>3. Pending(p)' = {}
    BY <1>6, <2>1
  <2> QED BY <1>1, <1>2, <1>3, <1>6, <2>1, <2>2, <2>3
<1>9. CASE EndTask(p)
  <2>1. running_tasks' = [running_tasks EXCEPT ![t] = None]
        /\ call' = [call EXCEPT ![p].op = "done"] /\ call[p].op = "complete"
    BY <1>3, <1>9 DEF EndTask, InCall
  <2>2. call[p] \in Finishing
    BY <1>2, <2>1, CallFields
  <2>3. call'[p] = [call[p] EXCEPT !.op = "done"]
        /\ \A q \in Procs : q # p => call'[q] = call[q]
    BY <2>1 DEF AppTypeOK
  <2>4. call'[p] \in Finishing /\ call'[p].task = t /\ call'[p].op = "done"
    BY <1>3, <2>2, <2>3 DEF Finishing
  <2>5. call'[p] # None
    BY <2>4, NoneAssumption DEF Calls
  <2>6. Pending(p)' = {}
    BY <2>4 DEF Pending
  <2> QED BY <1>1, <1>2, <1>3, <2>1, <2>3, <2>4, <2>5, <2>6
<1>10. CASE ReadRetries(p)
  BY <1>3, <1>4, <1>5, <1>10 DEF ReadRetries
<1> QED BY <1>7, <1>8, <1>9, <1>10 DEF GoesOn

-----------------------------------------------------------------------------
(* A process takes a task into its hands: the others stay where they are.  *)
LEMMA TakenKeeps ==
  ASSUME AppTypeOK, NEW p \in Procs, NEW t \in Tasks,
         UNCHANGED <<completed_tasks, gone>>,
         running_tasks' = [running_tasks EXCEPT ![t] = None], Holds(p, t)',
         \A q \in Procs, u \in Tasks : (q # p \/ u # t) => (Holds(q, u) => Holds(q, u)')
  PROVE  \A u \in Tasks : Elsewhere(u) => Elsewhere(u)'
<1>1. Elsewhere(t)'
  BY DEF Elsewhere, Held
<1>2. ASSUME NEW u \in Tasks, u # t, Elsewhere(u) PROVE Elsewhere(u)'
  <2>1. running_tasks'[u] = running_tasks[u]
    BY <1>2 DEF AppTypeOK
  <2>2. Completed(u)' <=> Completed(u)
    BY DEF Completed
  <2>3. Held(u) => Held(u)'
    BY <1>2 DEF Held
  <2> QED BY <1>2, <2>1, <2>2, <2>3 DEF Elsewhere
<1> QED BY <1>1, <1>2

(* What is neither requeued nor completed stays where it is. *)
LEMMA NothingMoves ==
  ASSUME UNCHANGED <<completed_tasks, gone>>,
         \A u \in Tasks : running_tasks[u] # None => running_tasks'[u] # None,
         \A q \in Procs, u \in Tasks : Holds(q, u) => Holds(q, u)'
  PROVE  \A u \in Tasks : Elsewhere(u) => Elsewhere(u)'
<1>1. \A u \in Tasks : Completed(u) => Completed(u)'
  BY DEF Completed
<1>2. \A u \in Tasks : Held(u) => Held(u)'
  BY DEF Held
<1> QED BY <1>1, <1>2 DEF Elsewhere

-----------------------------------------------------------------------------
(* A step of the dispatcher: it records a task before it marks its         *)
(* position, and removes marked positions only, the last one first.        *)
LEMMA SchedKeepsTasks ==
  ASSUME AppTypeOK, SchedTypeOK, ScanInv, LossInv, SchedNext, UNCHANGED session
  PROVE  LossInv'
<1> USE DEF nodeVars, taskVars, historyVars, wireVars, stateVars
<1>1. /\ sched \in SchedState /\ sched.idx \in Nat
      /\ pending_tasks \in Seq(Tasks) /\ Len(pending_tasks) \in Nat
  BY DEF SchedTypeOK, SchedState, AppTypeOK
<1>2. UNCHANGED <<call, completed_tasks, gone, submitted_at>>
  BY DEF SchedNext, Lock, Skip, Send, SendTask, Record, Recruit, RecruitNodes,
         SendSlot, RecordMpi, RegisterJob, AbortDispatch, Sweep, Unlock
<1>9. \A q \in Procs, u \in Tasks : Holds(q, u) => Holds(q, u)'
  BY <1>2, HoldsSame
<1>3. CASE \/ Lock \/ Skip \/ Send \/ Recruit \/ SendSlot \/ RegisterJob
           \/ AbortDispatch \/ Unlock
  <2>1. UNCHANGED <<running_tasks, pending_tasks>>
    BY <1>3 DEF Lock, Skip, Send, SendTask, Recruit, RecruitNodes, SendSlot,
                RegisterJob, AbortDispatch, Unlock
  <2>2. Leaving' \subseteq Leaving
    <3>1. CASE Lock \/ Unlock
      <4>1. sched' = Scan(1, {}) \/ sched' = SchedIdle
        BY <3>1 DEF Lock, Unlock
      <4> QED BY <4>1 DEF Leaving, Scan, SchedIdle
    <3>2. CASE Skip \/ AbortDispatch
      <4>1. sched' = NextTask
        BY <3>2 DEF Skip, AbortDispatch
      <4> QED BY <4>1 DEF Leaving, NextTask, Scan
    <3>3. CASE Send
      <4>1. sched' = NextTask \/ \E n \in Nodes : sched' = Chosen("record", <<n>>)
        BY <3>3, IdsAssumption DEF Send, SendTask, Eligible
      <4> QED BY <4>1 DEF Leaving, NextTask, Scan, Chosen
    <3>4. CASE Recruit
      <4>1. \E f : sched' = Chosen("mpi", f)
        BY <3>4 DEF Recruit, RecruitNodes
      <4> QED BY <4>1 DEF Leaving, Chosen
    <3>5. CASE SendSlot
      <4>1. sched' = SlotSent(TRUE) \/ sched' = SlotSent(FALSE)
        BY <3>5 DEF SendSlot
      <4> QED BY <4>1 DEF Leaving, SlotSent
    <3>6. CASE RegisterJob
      <4>1. sched.pc = "job" /\ sched' = DispatchedTask
        BY <3>6 DEF RegisterJob
      <4> QED BY <4>1 DEF Leaving, DispatchedTask, Scan
    <3> QED BY <1>3, <3>1, <3>2, <3>3, <3>4, <3>5, <3>6
  <2>3. \A u \in Tasks : Elsewhere(u) => Elsewhere(u)'
    BY <1>2, <1>9, <2>1, NothingMoves
  <2> QED BY <1>2, <2>1, <2>2, <2>3, LossKept
<1>4. CASE Record \/ RecordMpi
  <2>1. /\ sched.pc \in {"record", "mpi"} /\ Current \in Tasks
        /\ Current = pending_tasks[sched.idx] /\ UNCHANGED pending_tasks
    BY <1>4, CurrentType DEF Record, RecordMpi, Current
  <2>2. \E e \in LiveTask : running_tasks' = [running_tasks EXCEPT ![Current] = e]
    <3>1. CASE Record
      <4>1. sched.targets[1] \in Nodes
        BY <1>1, <3>1 DEF Record, ScanInv, SchedState
      <4>2. [status |-> "Dispatched", nodes |-> {sched.targets[1]}] \in LiveTask
        BY <4>1 DEF LiveTask, LiveStatus
      <4> QED BY <3>1, <4>2 DEF Record
    <3>2. CASE RecordMpi
      <4>1. [status |-> "MpiDispatched",
             nodes |-> {sched.targets[i] : i \in 1 .. Len(sched.targets)}] \in LiveTask
        BY <1>1 DEF LiveTask, LiveStatus, SchedState
      <4> QED BY <3>2, <4>1 DEF RecordMpi
    <3> QED BY <1>4, <3>1, <3>2
  <2>3. running_tasks'[Current] # None
        /\ \A u \in Tasks : running_tasks[u] # None => running_tasks'[u] # None
    BY <2>1, <2>2, NoneAssumption DEF AppTypeOK
  <2>4. \A u \in Tasks : Elsewhere(u) => Elsewhere(u)'
    BY <1>2, <1>9, <2>3, NothingMoves
  <2>5. Leaving' \subseteq Leaving \cup {sched.idx}
    <3>1. CASE Record
      <4>1. sched' = DispatchedTask
        BY <3>1 DEF Record
      <4> QED BY <4>1 DEF Leaving, DispatchedTask, Scan
    <3>2. CASE RecordMpi
      <4>1. sched' = [sched EXCEPT !.pc = "job"]
        BY <3>2 DEF RecordMpi
      <4>2. sched'.idx = sched.idx /\ sched'.dispatched = sched.dispatched
        BY <1>1, <4>1 DEF SchedState
      <4> QED BY <4>2 DEF Leaving
    <3> QED BY <1>4, <3>1, <3>2
  <2>6. ASSUME NEW i \in Leaving', NEW t \in Tasks, pending_tasks'[i] = t
        PROVE  Elsewhere(t)'
    <3>1. CASE i = sched.idx
      <4>1. running_tasks'[t] # None
        BY <2>1, <2>3, <2>6, <3>1
      <4> QED BY <4>1 DEF Elsewhere
    <3>2. CASE i \in Leaving
      BY <2>1, <2>4, <2>6, <3>2 DEF LossInv
    <3> QED BY <2>5, <3>1, <3>2
  <2>7. \A t \in Tasks : submitted_at'[t] # 0 =>
          Elsewhere(t)' \/ \E i \in 1 .. Len(pending_tasks') : pending_tasks'[i] = t
    BY <1>2, <2>1, <2>4 DEF LossInv
  <2> QED BY <2>6, <2>7 DEF LossInv
<1>5. CASE Sweep
  <2> PICK k \in sched.dispatched :
        /\ \A i \in sched.dispatched : i <= k
        /\ pending_tasks' = RemoveAt(pending_tasks, k)
        /\ sched' = [sched EXCEPT !.dispatched = @ \ {k}]
    BY <1>5 DEF Sweep
  <2>1. UNCHANGED running_tasks
    BY <1>5 DEF Sweep
  <2>2. k \in 1 .. Len(pending_tasks) /\ k \in Leaving
    BY DEF ScanInv, Leaving
  <2>3. \A i \in 1 .. (k - 1) : RemoveAt(pending_tasks, k)[i] = pending_tasks[i]
    BY <1>1, <2>2, RemovePrefix
  <2>4. /\ sched.pc = "scan" /\ sched'.pc = "scan"
        /\ sched'.dispatched = sched.dispatched \ {k}
    BY <1>1, <1>5 DEF Sweep, Scanned, SchedState
  <2>5. \A u \in Tasks : Elsewhere(u) => Elsewhere(u)'
    BY <1>2, <1>9, <2>1, NothingMoves
  <2>6. ASSUME NEW i \in Leaving', NEW t \in Tasks, pending_tasks'[i] = t
        PROVE  Elsewhere(t)'
    <3>1. i \in sched.dispatched /\ i # k /\ i \in Leaving
      BY <2>4 DEF Leaving
    <3>2. i \in 1 .. Len(pending_tasks)
      BY <3>1, LeavingType
    <3>3. i \in 1 .. (k - 1)
      BY <2>2, <3>1, <3>2
    <3>4. pending_tasks[i] = t
      BY <2>3, <2>6, <3>3
    <3> QED BY <2>5, <3>1, <3>4 DEF LossInv
  <2>7. ASSUME NEW t \in Tasks, submitted_at'[t] # 0, ~Elsewhere(t)'
        PROVE  \E i \in 1 .. Len(pending_tasks') : pending_tasks'[i] = t
    <3>1. PICK i \in 1 .. Len(pending_tasks) : pending_tasks[i] = t
      BY <1>2, <2>5, <2>7 DEF LossInv
    <3>2. i # k
      BY <2>2, <2>5, <2>7, <3>1 DEF LossInv
    <3>3. \E m \in 1 .. Len(RemoveAt(pending_tasks, k)) :
            RemoveAt(pending_tasks, k)[m] = pending_tasks[i]
      BY <1>1, <2>2, <3>2, RemoveKeeps
    <3> QED BY <3>1, <3>3
  <2> QED BY <2>6, <2>7 DEF LossInv
<1> QED BY <1>3, <1>4, <1>5 DEF SchedNext

(* A step of a handler: an answer or the cleanup moves a task into a call  *)
(* of the handler, which is in no other.                                   *)
LEMMA WsKeepsTasks ==
  ASSUME AppTypeOK, SchedTypeOK, ScanInv, HandlerInv, WsTypeOK, WireTypeOK, LossInv,
         NEW s \in Sessions, WsNext(s), UNCHANGED sched
  PROVE  LossInv'
<1>1. /\ call[s] = None /\ s \in Procs
      /\ UNCHANGED <<pending_tasks, submitted_at, completed_tasks, gone>>
      /\ \A q \in Sessions : q # s => session'[q] = session[q]
      /\ \/ UNCHANGED <<running_tasks, call>>
         \/ \E t \in Tasks : Takes(s, t) \/ Begins(s, t)
  BY WsEffect DEF Procs
<1>2. Leaving' = Leaving
  BY DEF Leaving
<1>3. \A u : ~Holds(s, u)
  BY <1>1, NoCallHoldsNone
<1>4. ASSUME \A q \in Procs : q # s => call'[q] = call[q]
      PROVE  \A q \in Procs, u \in Tasks : Holds(q, u) => Holds(q, u)'
  <2>1. \A q \in Procs : q # s => \A u : Holds(q, u)' <=> Holds(q, u)
    BY <1>1, <1>4, OthersHold
  <2> QED BY <1>3, <2>1
<1>5. \A u \in Tasks : Elsewhere(u) => Elsewhere(u)'
  <2>1. CASE UNCHANGED <<running_tasks, call>>
    BY <1>1, <1>4, <2>1, NothingMoves
  <2>2. ASSUME NEW t \in Tasks, Takes(s, t) PROVE \A u \in Tasks : Elsewhere(u) => Elsewhere(u)'
    <3>1. \A q \in Procs : q # s => call'[q] = call[q]
      BY <1>1, <2>2, CallIs DEF Takes
    <3>2. running_tasks' = [running_tasks EXCEPT ![t] = None] /\ Holds(s, t)'
      BY <2>2 DEF Takes
    <3> QED BY <1>1, <1>4, <3>1, <3>2, TakenKeeps
  <2>3. ASSUME NEW t \in Tasks, Begins(s, t) PROVE \A u \in Tasks : Elsewhere(u) => Elsewhere(u)'
    <3>1. \A q \in Procs : q # s => call'[q] = call[q]
      BY <1>1, <2>3, CallIs DEF Begins
    <3>2. UNCHANGED running_tasks
      BY <2>3 DEF Begins
    <3> QED BY <1>1, <1>4, <3>1, <3>2, NothingMoves
  <2> QED BY <1>1, <2>1, <2>2, <2>3
<1> QED BY <1>1, <1>2, <1>5, LossKept

(* A step of the monitor begins to requeue a task at most. *)
LEMMA MonitorKeepsTasks ==
  ASSUME AppTypeOK, SchedTypeOK, ScanInv, MonitorTypeOK, LossInv, MonitorNext,
         UNCHANGED <<sched, session>>
  PROVE  LossInv'
<1>1. UNCHANGED <<running_tasks, pending_tasks, submitted_at, completed_tasks, gone>>
  BY MonitorEffect
<1>2. Leaving' = Leaving /\ Monitor \in Procs
  BY DEF Leaving, Procs
<1>3. \A q \in Procs, u \in Tasks : Holds(q, u) => Holds(q, u)'
  <2>1. CASE UNCHANGED call
    BY <2>1, HoldsSame
  <2>2. CASE call[Monitor] = None /\ \E t \in Tasks : Begins(Monitor, t)
    <3>1. \A q \in Procs : q # Monitor => call'[q] = call[q]
      BY <1>2, <2>2, CallIs DEF Begins
    <3>2. \A q \in Procs : q # Monitor => \A u : Holds(q, u)' <=> Holds(q, u)
      BY <1>2, <3>1, OthersHold
    <3> QED BY <2>2, <3>2, NoCallHoldsNone
  <2> QED BY <2>1, <2>2, MonitorEffect
<1>5. \A u \in Tasks : Elsewhere(u) => Elsewhere(u)'
  BY <1>1, <1>3, NothingMoves
<1> QED BY <1>1, <1>2, <1>5, LossKept

(* A call that goes on keeps its task, in the running map or in its hands. *)
LEMMA CallKeepsTasks ==
  ASSUME AppTypeOK, SchedTypeOK, ScanInv, LossInv, NEW p \in Procs, GoesOn(p),
         UNCHANGED <<sched, session>>
  PROVE  LossInv'
<1>1. /\ UNCHANGED <<pending_tasks, submitted_at, completed_tasks, gone>>
      /\ \A q \in Procs : q # p => call'[q] = call[q]
      /\ call[p] # None /\ call'[p] # None
  BY CallGoesOn
<1>2. PICK t \in Tasks :
        /\ call[p].task = t /\ call'[p].task = t
        /\ \/ UNCHANGED running_tasks /\ Pending(p)' = Pending(p)
           \/ running_tasks' = [running_tasks EXCEPT ![t] = None] /\ Pending(p)' = {}
  BY CallGoesOn
<1>3. \A q \in Procs : q # p => \A u : Holds(q, u)' <=> Holds(q, u)
  BY <1>1, OthersHold
<1>4. \A u : u # t => ~Holds(p, u)
  BY <1>2 DEF Holds
<1>5. \A u \in Tasks : Elsewhere(u) => Elsewhere(u)'
  <2>1. CASE UNCHANGED running_tasks /\ Pending(p)' = Pending(p)
    <3>1. Holds(p, t) => Holds(p, t)'
      BY <1>1, <1>2, <2>1 DEF Holds
    <3>2. \A q \in Procs, u \in Tasks : Holds(q, u) => Holds(q, u)'
      BY <1>3, <1>4, <3>1
    <3> QED BY <1>1, <2>1, <3>2, NothingMoves
  <2>2. CASE running_tasks' = [running_tasks EXCEPT ![t] = None] /\ Pending(p)' = {}
    <3>1. Holds(p, t)'
      BY <1>1, <1>2, <2>2 DEF Holds
    <3>2. \A q \in Procs, u \in Tasks : (q # p \/ u # t) => (Holds(q, u) => Holds(q, u)')
      BY <1>3, <1>4
    <3> QED BY <1>1, <2>2, <3>1, <3>2, TakenKeeps
  <2> QED BY <1>2, <2>1, <2>2
<1>6. Leaving' = Leaving
  BY DEF Leaving
<1> QED BY <1>1, <1>5, <1>6, LossKept

(* A push adds its task and keeps the others. *)
LEMMA TaskInserted ==
  ASSUME NEW q \in Seq(Tasks), NEW k \in 1 .. Len(q) + 1, NEW t \in Tasks
  PROVE  /\ \E m \in 1 .. Len(InsertAt(q, k, t)) : InsertAt(q, k, t)[m] = t
         /\ \A i \in 1 .. Len(q) :
              \E m \in 1 .. Len(InsertAt(q, k, t)) : InsertAt(q, k, t)[m] = q[i]
BY InsertKeeps

(* The push puts the task of the call in the queue, while the dispatcher   *)
(* has no position in mind.                                                *)
LEMMA PushKeepsTasks ==
  ASSUME AppTypeOK, SchedTypeOK, ScanInv, LossInv, NEW p \in Procs, Push(p),
         UNCHANGED <<sched, session>>
  PROVE  LossInv'
<1> USE DEF nodeVars, historyVars
<1> DEFINE t == call[p].task
           k == Position(t)
<1>1. t \in Tasks
  BY CallFields DEF Push, InCall
<1>2. pending_tasks \in Seq(Tasks) /\ Len(pending_tasks) \in Nat
  BY DEF AppTypeOK
<1>3. k \in 1 .. Len(pending_tasks) + 1
  BY <1>1, <1>2, PositionType
<1>4. pending_tasks' = InsertAt(pending_tasks, k, t)
  BY DEF Push
<1> HIDE DEF k, t
<1>5. \E m \in 1 .. Len(InsertAt(pending_tasks, k, t)) : InsertAt(pending_tasks, k, t)[m] = t
  BY <1>1, <1>2, <1>3, TaskInserted
<1>6. \A i \in 1 .. Len(pending_tasks) :
        \E m \in 1 .. Len(InsertAt(pending_tasks, k, t)) :
          InsertAt(pending_tasks, k, t)[m] = pending_tasks[i]
  BY <1>1, <1>2, <1>3, TaskInserted
<1>7. Leaving' = {}
  <2>1. ~queue_locked
    BY DEF Push
  <2> QED BY <2>1, LeavingType DEF Leaving
<1>8. ASSUME NEW u \in Tasks, u # t, Elsewhere(u) PROVE Elsewhere(u)'
  <2>1. UNCHANGED <<running_tasks, completed_tasks, gone>>
        /\ \A q \in Procs : q # p => call'[q] = call[q]
    BY DEF Push, AppTypeOK
  <2>2. \A q \in Procs : q # p => (Holds(q, u)' <=> Holds(q, u))
    BY <2>1, OthersHold
  <2>4. ~Holds(p, u)
    BY <1>8 DEF Holds, t
  <2>3. Held(u) => Held(u)'
    BY <2>2, <2>4 DEF Held
  <2> QED BY <1>8, <2>1, <2>3 DEF Elsewhere, Completed
<1>9. ASSUME NEW u \in Tasks, submitted_at'[u] # 0, ~Elsewhere(u)'
      PROVE  \E i \in 1 .. Len(pending_tasks') : pending_tasks'[i] = u
  <2>1. CASE u = t
    BY <1>4, <1>5, <2>1
  <2>2. CASE u # t
    <3>1. PICK i \in 1 .. Len(pending_tasks) : pending_tasks[i] = u
      BY <1>8, <1>9, <2>2 DEF LossInv, Push
    <3> QED BY <1>4, <1>6, <3>1
  <2> QED BY <2>1, <2>2
<1> QED BY <1>7, <1>9 DEF LossInv

(* The append puts the task of the call in the completed list; those it    *)
(* drains are gone.                                                        *)
LEMMA DoneKeepsTasks ==
  ASSUME AppTypeOK, SchedTypeOK, ScanInv, LossInv, NEW p \in Procs, Done(p),
         UNCHANGED <<sched, session>>
  PROVE  LossInv'
<1> USE DEF nodeVars, historyVars
<1> DEFINE e == [task |-> call[p].task, status |-> call[p].status, job |-> call[p].job]
           done == Append(completed_tasks, e)
           drain == IF Len(done) > CompletedCap THEN CompletedDrain ELSE 0
<1>1. call[p] \in Finishing
  BY CallFields DEF Done, InCall
<1>2. e \in DoneTask /\ e.task = call[p].task
  BY <1>1 DEF Finishing, DoneTask
<1>3. /\ done \in Seq(DoneTask) /\ Len(done) = Len(completed_tasks) + 1
      /\ Len(completed_tasks) \in Nat /\ done[Len(done)] = e
      /\ \A i \in 1 .. Len(completed_tasks) : done[i] = completed_tasks[i]
  BY <1>2 DEF AppTypeOK
<1>4. drain \in Nat /\ drain <= Len(done)
  BY <1>3, LimitsAssumption
<1>5. completed_tasks' = SubSeq(done, drain + 1, Len(done))
      /\ gone' = gone \cup {done[i].task : i \in 1 .. drain}
  BY DEF Done
<1> HIDE DEF done, drain, e
<1>6. /\ Len(completed_tasks') = Len(done) - drain
      /\ \A i \in 1 .. Len(done) - drain : completed_tasks'[i] = done[drain + i]
  BY <1>3, <1>4, <1>5, SubSeqProperties
<1>7. ASSUME NEW u, NEW i \in 1 .. Len(done), done[i].task = u
      PROVE  Completed(u)' \/ u \in gone'
  <2>1. CASE i <= drain
    BY <1>4, <1>5, <1>7, <2>1
  <2>2. CASE i > drain
    <3>1. i - drain \in 1 .. Len(done) - drain /\ drain + (i - drain) = i
      BY <1>3, <1>4, <2>2
    <3>2. completed_tasks'[i - drain] = done[i]
      BY <1>6, <3>1
    <3>3. i - drain \in 1 .. Len(completed_tasks')
      BY <1>6, <3>1
    <3> QED BY <1>7, <3>2, <3>3 DEF Completed
  <2> QED BY <1>3, <1>4, <2>1, <2>2
<1>8. ASSUME NEW u \in Tasks, Elsewhere(u) PROVE Elsewhere(u)'
  <2>1. CASE Completed(u)
    <3>1. PICK i \in 1 .. Len(completed_tasks) : completed_tasks[i].task = u
      BY <2>1 DEF Completed
    <3>2. i \in 1 .. Len(done) /\ done[i].task = u
      BY <1>3, <3>1
    <3> QED BY <1>7, <3>2 DEF Elsewhere
  <2>2. CASE Held(u)
    <3>1. PICK q \in Procs : Holds(q, u)
      BY <2>2 DEF Held
    <3>2. CASE q = p
      <4>1. Len(done) \in 1 .. Len(done) /\ done[Len(done)].task = u
        BY <1>2, <1>3, <3>1, <3>2 DEF Holds
      <4> QED BY <1>7, <4>1 DEF Elsewhere
    <3>3. CASE q # p
      <4>1. \A r \in Procs : r # p => call'[r] = call[r]
        BY DEF Done, AppTypeOK
      <4>2. Holds(q, u)'
        BY <3>1, <3>3, <4>1, OthersHold
      <4> QED BY <4>2 DEF Elsewhere, Held
    <3> QED BY <3>2, <3>3
  <2>3. CASE running_tasks[u] # None \/ u \in gone
    BY <1>5, <2>3 DEF Elsewhere, Done
  <2> QED BY <1>8, <2>1, <2>2, <2>3 DEF Elsewhere
<1>9. UNCHANGED <<pending_tasks, submitted_at>> /\ Leaving' = Leaving
  BY DEF Done, Leaving
<1> QED BY <1>8, <1>9, LossKept

(* A submission is a call of its own; a cancellation removes one position, *)
(* while the dispatcher has none in mind.                                  *)
LEMMA ClientKeepsTasks ==
  ASSUME AppTypeOK, SchedTypeOK, ScanInv, HandlerInv, LossInv, NEW t \in Tasks,
         SubmitTask(t) \/ CancelTask(t), UNCHANGED <<sched, session>>
  PROVE  LossInv'
<1> USE DEF nodeVars, taskVars, historyVars, wireVars
<1>1. CASE SubmitTask(t)
  <2>1. UNCHANGED <<running_tasks, completed_tasks, gone, pending_tasks>>
        /\ Leaving' = Leaving
    BY <1>1 DEF SubmitTask, Leaving
  <2>2. t \in Procs /\ call[t] = None
    BY <1>1 DEF Procs, SubmitTask, HandlerInv
  <2>3. call' = [call EXCEPT ![t] = [op |-> "push", task |-> t]]
    BY <1>1 DEF SubmitTask, Enqueue
  <2>4. call'[t] # None /\ call'[t].task = t
    <3>1. [op |-> "push", task |-> t] \in Calls
      BY DEF Calls, Queueing
    <3>2. call'[t] = [op |-> "push", task |-> t]
      BY <2>2, <2>3 DEF AppTypeOK
    <3> QED BY <3>1, <3>2, NoneAssumption
  <2>10. \A q \in Procs : q # t => call'[q] = call[q]
    BY <2>2, <2>3 DEF AppTypeOK
  <2>5. \A q \in Procs, u \in Tasks : Holds(q, u) => Holds(q, u)'
    BY <2>2, <2>10, OthersHold, NoCallHoldsNone
  <2>6. \A u \in Tasks : Elsewhere(u) => Elsewhere(u)'
    BY <2>1, <2>5, NothingMoves
  <2>11. call'[t].op = "push"
    BY <2>2, <2>3 DEF AppTypeOK
  <2>12. Holds(t, t)'
    BY <2>4, <2>11 DEF Holds, Pending
  <2>7. Elsewhere(t)'
    BY <2>2, <2>12 DEF Elsewhere, Held
  <2>8. \A u \in Tasks : u # t => submitted_at'[u] = submitted_at[u]
    BY <1>1 DEF SubmitTask, AppTypeOK
  <2>9. \A i \in Leaving', u \in Tasks : pending_tasks'[i] = u => Elsewhere(u)'
    BY <2>1, <2>6 DEF LossInv
  <2> QED BY <2>1, <2>6, <2>7, <2>8, <2>9 DEF LossInv
<1>2. CASE CancelTask(t)
  <2>1. UNCHANGED <<running_tasks, completed_tasks, call, submitted_at>>
        /\ gone' = gone \cup {t}
    BY <1>2 DEF CancelTask
  <2>2. PICK k \in 1 .. Len(pending_tasks) :
          pending_tasks[k] = t /\ pending_tasks' = RemoveAt(pending_tasks, k)
    BY <1>2 DEF CancelTask
  <2>3. Len(pending_tasks) \in Nat /\ pending_tasks \in Seq(Tasks)
    BY DEF AppTypeOK
  <2>4. Leaving' = {}
    <3>1. ~queue_locked
      BY <1>2 DEF CancelTask
    <3> QED BY <3>1, LeavingType DEF Leaving
  <2>8. \A q \in Procs, u \in Tasks : Holds(q, u) => Holds(q, u)'
    BY <2>1, HoldsSame
  <2>9. \A u \in Tasks : Held(u) => Held(u)'
    BY <2>8 DEF Held
  <2>5. \A u \in Tasks : Elsewhere(u) => Elsewhere(u)'
    BY <2>1, <2>9 DEF Elsewhere, Completed
  <2>6. Elsewhere(t)'
    BY <2>1 DEF Elsewhere
  <2>7. ASSUME NEW u \in Tasks, submitted_at'[u] # 0, ~Elsewhere(u)'
        PROVE  \E i \in 1 .. Len(pending_tasks') : pending_tasks'[i] = u
    <3>1. PICK i \in 1 .. Len(pending_tasks) : pending_tasks[i] = u
      BY <2>1, <2>5, <2>7 DEF LossInv
    <3>2. i # k
      BY <2>2, <2>6, <2>7, <3>1
    <3>3. \E m \in 1 .. Len(RemoveAt(pending_tasks, k)) :
            RemoveAt(pending_tasks, k)[m] = pending_tasks[i]
      BY <2>3, <3>2, RemoveKeeps
    <3> QED BY <2>2, <3>1, <3>3
  <2> QED BY <2>4, <2>7 DEF LossInv
<1> QED BY <1>1, <1>2

-----------------------------------------------------------------------------
(* Each step of the system; the workers and the network touch none of this. *)
LEMMA NextKeepsTasks ==
  ASSUME IInv, LossInv, [Next]_vars
  PROVE  LossInv'
<1> USE DEF IInv, TypeOK
<1>1. CASE ServerStep
  <2>1. CASE SchedNext /\ UNCHANGED <<session, monitor>>
    BY <2>1, SchedKeepsTasks
  <2>2. CASE \E s \in Sessions : WsNext(s) /\ UNCHANGED <<sched, monitor>>
    BY <2>2, WsKeepsTasks
  <2>3. CASE MonitorNext /\ UNCHANGED <<sched, session>>
    BY <2>3, MonitorKeepsTasks
  <2>4. CASE /\ \E p \in Procs : ReturnFromCall(p)
             /\ UNCHANGED <<wireVars, sched, session, monitor>>
    BY <2>4, PushKeepsTasks, DoneKeepsTasks, CallKeepsTasks DEF ReturnFromCall, GoesOn
  <2> QED BY <1>1, <2>1, <2>2, <2>3, <2>4 DEF ServerStep
<1>2. CASE ClientStep
  BY <1>2, ClientKeepsTasks DEF ClientStep
<1>3. CASE \/ WorkerStep \/ NetworkStep \/ UNCHANGED vars
  <2>1. UNCHANGED <<sched, session, pending_tasks, submitted_at, running_tasks, call,
                    completed_tasks, gone>>
    BY <1>3 DEF WorkerStep, NetworkStep, Silence, vars, stateVars, taskVars, historyVars
  <2>2. Leaving' = Leaving
    BY <2>1 DEF Leaving
  <2>3. \A q \in Procs, u \in Tasks : Holds(q, u) => Holds(q, u)'
    BY <2>1, HoldsSame
  <2>4. \A u \in Tasks : Elsewhere(u) => Elsewhere(u)'
    BY <2>1, <2>3, NothingMoves
  <2> QED BY <2>1, <2>2, <2>4, LossKept
<1> QED BY <1>1, <1>2, <1>3 DEF Next

(* A position that holds a task and is not to be removed is its place in   *)
(* the queue.                                                              *)
LEMMA LossInvImplies ==
  ASSUME LossInv
  PROVE  NoTaskLost
<1> SUFFICES ASSUME NEW t \in Tasks, submitted_at[t] # 0, ~Elsewhere(t)
             PROVE  Queued(t)
  BY DEF NoTaskLost, Accounted, Elsewhere
<1>1. PICK i \in 1 .. Len(pending_tasks) : pending_tasks[i] = t
  BY DEF LossInv
<1>2. i \notin Leaving
  BY <1>1 DEF LossInv
<1> QED BY <1>1, <1>2 DEF Queued, Positions

(* No task is lost: however the dispatcher, the handlers, the monitor, the *)
(* clients and the workers interleave, and whatever breaks or crashes, a   *)
(* task that was submitted is queued, running, completed, in the hands of  *)
(* a handler, or was cancelled or evicted.                                 *)
THEOREM NothingLost == Spec => []NoTaskLost
<1>1. Init => LossInv
  <2> SUFFICES ASSUME Init PROVE LossInv
    OBVIOUS
  <2>1. \A t \in Tasks : submitted_at[t] = 0
    BY DEF Init, AppInit
  <2>2. Leaving = {}
    BY DEF Init, SchedInit, SchedIdle, Leaving
  <2> QED BY <2>1, <2>2 DEF LossInv
<1>2. IInv /\ LossInv /\ [Next]_vars => LossInv'
  BY NextKeepsTasks
<1>3. LossInv => NoTaskLost
  BY LossInvImplies
<1> QED BY <1>1, <1>2, <1>3, InvariantHolds, PTL DEF Spec

-----------------------------------------------------------------------------
(* The order of the queue *)

(* A set of positions that contains every position before one of its own   *)
(* is an initial segment of the queue.                                     *)
LEMMA InitialSegment ==
  ASSUME NEW n \in Nat, NEW A \in SUBSET (1 .. n),
         \A i \in A : \A j \in 1 .. i : j \in A
  PROVE  A = 1 .. Cardinality(A)
<1> DEFINE c == Cardinality(A)
<1>1. IsFiniteSet(A) /\ c \in Nat
  <2>1. IsFiniteSet(1 .. n)
    BY FS_Interval
  <2>2. IsFiniteSet(A)
    BY <2>1, FS_Subset
  <2> QED BY <2>2, FS_CardinalityType
<1>2. ASSUME NEW i \in A PROVE i \in 1 .. c
  <2>1. (1 .. i) \in SUBSET A /\ i \in Nat /\ i >= 1
    OBVIOUS
  <2>2. Cardinality(1 .. i) <= c
    BY <1>1, <2>1, FS_Subset
  <2>3. Cardinality(1 .. i) = i
    BY <2>1, FS_Interval
  <2> QED BY <1>1, <2>1, <2>2, <2>3
<1>3. IsFiniteSet(1 .. c) /\ Cardinality(1 .. c) = c
  BY <1>1, FS_Interval
<1>4. A \in SUBSET (1 .. c)
  BY <1>2
<1> HIDE DEF c
<1>5. 1 .. c = A
  BY <1>3, <1>4, FS_Subset DEF c
<1> QED BY <1>5 DEF c

(* Before is a strict order in which incomparable tasks are equals. *)
LEMMA BeforeOrder ==
  ASSUME AppTypeOK, NEW t \in Tasks, NEW u \in Tasks, NEW v \in Tasks
  PROVE  /\ Before(t, u) => ~Before(u, t)
         /\ Before(t, u) /\ ~Before(v, u) => Before(t, v)
<1>1. /\ Priority[t] \in Nat /\ Priority[u] \in Nat /\ Priority[v] \in Nat
      /\ submitted_at[t] \in Nat /\ submitted_at[u] \in Nat /\ submitted_at[v] \in Nat
  BY IdsAssumption DEF AppTypeOK
<1> QED BY <1>1 DEF Before

(* The position of t separates the tasks that t does not precede from      *)
(* those it precedes.                                                      *)
LEMMA PositionSplits ==
  ASSUME AppTypeOK, QueueOrdered, NEW t \in Tasks, NEW i \in 1 .. Len(pending_tasks)
  PROVE  i < Position(t) <=> ~Before(t, pending_tasks[i])
<1> DEFINE A == {k \in 1 .. Len(pending_tasks) : ~Before(t, pending_tasks[k])}
<1>1. pending_tasks \in Seq(Tasks) /\ Len(pending_tasks) \in Nat
  BY DEF AppTypeOK
<1>2. ASSUME NEW k \in A, NEW j \in 1 .. k PROVE j \in A
  <2>1. j \in 1 .. Len(pending_tasks) /\ k \in 1 .. Len(pending_tasks) /\ j <= k
    BY <1>1, <1>2
  <2>2. pending_tasks[j] \in Tasks /\ pending_tasks[k] \in Tasks
    BY <1>1, <2>1
  <2>3. CASE j = k
    BY <1>2, <2>3
  <2>4. CASE j < k
    <3>1. ~Before(pending_tasks[k], pending_tasks[j])
      BY <2>1, <2>4 DEF QueueOrdered
    <3>2. ~Before(t, pending_tasks[k])
      BY <1>2
    <3>3. ~Before(t, pending_tasks[j])
      BY <2>2, <3>1, <3>2, BeforeOrder
    <3> QED BY <2>1, <3>3
  <2> QED BY <2>1, <2>3, <2>4
<1>3. A \in SUBSET (1 .. Len(pending_tasks))
  OBVIOUS
<1>4. i \in A <=> ~Before(t, pending_tasks[i])
  OBVIOUS
<1>5. Position(t) = 1 + Cardinality(A)
  BY DEF Position
<1> HIDE DEF A
<1>6. A = 1 .. Cardinality(A)
  BY <1>1, <1>2, <1>3, InitialSegment
<1>7. Cardinality(A) \in Nat
  <2>1. IsFiniteSet(1 .. Len(pending_tasks))
    BY <1>1, FS_Interval
  <2>2. IsFiniteSet(A)
    BY <1>3, <2>1, FS_Subset
  <2> QED BY <2>2, FS_CardinalityType
<1>8. i \in 1 .. Cardinality(A) <=> i < 1 + Cardinality(A)
  BY <1>7
<1> QED BY <1>4, <1>5, <1>6, <1>8

(* Ordered queues, by the ranks of the present state. *)
Ordered(q) == \A i, j \in 1 .. Len(q) : i < j => ~Before(q[j], q[i])

(* A push keeps the queue ordered, whatever was pushed since its task was  *)
(* last in it.                                                             *)
LEMMA InsertOrdered ==
  ASSUME AppTypeOK, NEW q \in Seq(Tasks), Ordered(q), NEW t \in Tasks,
         NEW k \in 1 .. Len(q) + 1,
         \A m \in 1 .. Len(q) : m < k <=> ~Before(t, q[m])
  PROVE  Ordered(InsertAt(q, k, t))
<1> DEFINE r == InsertAt(q, k, t)
<1>1. Len(q) \in Nat
  OBVIOUS
<1>2. k \in 1 .. Len(q) + 1
  OBVIOUS
<1>3. \A m \in 1 .. Len(q) : m < k <=> ~Before(t, q[m])
  OBVIOUS
<1>4. \A i, j \in 1 .. Len(q) : i < j => ~Before(q[j], q[i])
  BY DEF Ordered
<1>5. \A m \in 1 .. Len(q) : q[m] \in Tasks
  OBVIOUS
<1>6. /\ Len(r) = Len(q) + 1 /\ r[k] = t
      /\ \A m \in 1 .. (k - 1) : r[m] = q[m]
      /\ \A m \in k .. Len(q) : r[m + 1] = q[m]
  BY InsertType
<1> HIDE DEF r
<1>7. ASSUME NEW m \in 1 .. Len(r)
      PROVE  \/ m < k /\ m \in 1 .. Len(q) /\ r[m] = q[m]
             \/ m = k /\ r[m] = t
             \/ m > k /\ m - 1 \in 1 .. Len(q) /\ r[m] = q[m - 1]
  <2>1. CASE m < k
    <3>1. m \in 1 .. (k - 1) /\ m \in 1 .. Len(q)
      BY <1>1, <1>2, <2>1
    <3> QED BY <1>6, <2>1, <3>1
  <2>2. CASE m = k
    BY <1>6, <2>2
  <2>3. CASE m > k
    <3>1. m - 1 \in k .. Len(q) /\ m - 1 \in 1 .. Len(q) /\ (m - 1) + 1 = m
      BY <1>1, <1>2, <1>6, <2>3
    <3>2. r[(m - 1) + 1] = q[m - 1]
      BY <1>6, <3>1
    <3> QED BY <2>3, <3>1, <3>2
  <2> QED BY <1>1, <1>2, <1>6, <2>1, <2>2, <2>3
<1>8. ASSUME NEW i \in 1 .. Len(r), NEW j \in 1 .. Len(r), i < j
      PROVE  ~Before(r[j], r[i])
  <2>1. i \in Nat /\ j \in Nat /\ k \in Nat
    BY <1>1, <1>2, <1>6
  <2>2. CASE j < k
    BY <1>4, <1>7, <1>8, <2>1, <2>2
  <2>3. CASE j = k
    <3>1. r[j] = t /\ i < k /\ i \in 1 .. Len(q) /\ r[i] = q[i]
      BY <1>7, <1>8, <2>1, <2>3
    <3> QED BY <1>3, <3>1
  <2>4. CASE j > k /\ i = k
    <3>1. r[i] = t /\ j - 1 \in 1 .. Len(q) /\ r[j] = q[j - 1] /\ ~(j - 1 < k)
      <4>1. r[i] = t
        BY <1>6, <2>4
      <4>2. j - 1 \in 1 .. Len(q) /\ r[j] = q[j - 1]
        BY <1>7, <2>1, <2>4
      <4>3. ~(j - 1 < k)
        BY <2>1, <2>4
      <4> QED BY <4>1, <4>2, <4>3
    <3>2. Before(t, q[j - 1])
      BY <1>3, <3>1
    <3> QED BY <1>5, <3>1, <3>2, BeforeOrder
  <2>5. CASE j > k /\ i < k
    <3>1. /\ i \in 1 .. Len(q) /\ r[i] = q[i]
          /\ j - 1 \in 1 .. Len(q) /\ r[j] = q[j - 1] /\ i < j - 1
      BY <1>7, <2>1, <2>5
    <3> QED BY <1>4, <3>1
  <2>6. CASE j > k /\ i > k
    <3>1. /\ i - 1 \in 1 .. Len(q) /\ r[i] = q[i - 1]
          /\ j - 1 \in 1 .. Len(q) /\ r[j] = q[j - 1] /\ i - 1 < j - 1
      BY <1>7, <1>8, <2>1, <2>6
    <3> QED BY <1>4, <3>1
  <2> QED BY <2>1, <2>2, <2>3, <2>4, <2>5, <2>6
<1> QED BY <1>8 DEF Ordered, r

(* An insertion adds its task and no other. *)
LEMMA InsertAdds ==
  ASSUME NEW q \in Seq(Tasks), NEW k \in 1 .. Len(q) + 1, NEW t \in Tasks
  PROVE  \A m \in 1 .. Len(InsertAt(q, k, t)) :
           \/ InsertAt(q, k, t)[m] = t
           \/ \E i \in 1 .. Len(q) : InsertAt(q, k, t)[m] = q[i]
<1> DEFINE r == InsertAt(q, k, t)
<1>1. /\ Len(r) = Len(q) + 1 /\ r[k] = t
      /\ \A m \in 1 .. (k - 1) : r[m] = q[m]
      /\ \A m \in k .. Len(q) : r[m + 1] = q[m]
  BY InsertType
<1> HIDE DEF r
<1>2. ASSUME NEW m \in 1 .. Len(r), m # k PROVE \E i \in 1 .. Len(q) : r[m] = q[i]
  <2>1. CASE m < k
    <3>1. m \in 1 .. (k - 1) /\ m \in 1 .. Len(q)
      BY <1>1, <2>1
    <3> QED BY <1>1, <3>1
  <2>2. CASE m > k
    <3>1. m - 1 \in k .. Len(q) /\ m - 1 \in 1 .. Len(q) /\ (m - 1) + 1 = m
      BY <1>1, <2>2
    <3>2. r[(m - 1) + 1] = q[m - 1]
      BY <1>1, <3>1
    <3> QED BY <3>1, <3>2
  <2> QED BY <1>1, <1>2, <2>1, <2>2
<1> QED BY <1>1, <1>2 DEF r

(* A removal moves tasks together and swaps none. *)
LEMMA RemoveOrdered ==
  ASSUME NEW q \in Seq(Tasks), Ordered(q), NEW k \in 1 .. Len(q)
  PROVE  /\ Ordered(RemoveAt(q, k))
         /\ \A m \in 1 .. Len(RemoveAt(q, k)) :
              \E i \in 1 .. Len(q) : RemoveAt(q, k)[m] = q[i]
<1> DEFINE r == RemoveAt(q, k)
<1>1. Len(q) \in Nat
  OBVIOUS
<1>2. \A i, j \in 1 .. Len(q) : i < j => ~Before(q[j], q[i])
  BY DEF Ordered
<1>3. /\ Len(r) = Len(q) - 1
      /\ \A m \in 1 .. (k - 1) : r[m] = q[m]
      /\ \A m \in k .. (Len(q) - 1) : r[m] = q[m + 1]
  BY RemoveType
<1>4. k \in 1 .. Len(q)
  OBVIOUS
<1> HIDE DEF r
<1>5. ASSUME NEW m \in 1 .. Len(r)
      PROVE  \/ m < k /\ m \in 1 .. Len(q) /\ r[m] = q[m]
             \/ m >= k /\ m + 1 \in 1 .. Len(q) /\ r[m] = q[m + 1]
  BY <1>1, <1>3, <1>4
<1>6. ASSUME NEW i \in 1 .. Len(r), NEW j \in 1 .. Len(r), i < j
      PROVE  ~Before(r[j], r[i])
  <2>1. CASE j < k
    BY <1>2, <1>4, <1>5, <1>6, <2>1
  <2>2. CASE j >= k /\ i < k
    <3>1. /\ i \in 1 .. Len(q) /\ r[i] = q[i]
          /\ j + 1 \in 1 .. Len(q) /\ r[j] = q[j + 1] /\ i < j + 1
      BY <1>4, <1>5, <1>6, <2>2
    <3> QED BY <1>2, <3>1
  <2>3. CASE j >= k /\ i >= k
    <3>1. /\ i + 1 \in 1 .. Len(q) /\ r[i] = q[i + 1]
          /\ j + 1 \in 1 .. Len(q) /\ r[j] = q[j + 1] /\ i + 1 < j + 1
      BY <1>4, <1>5, <1>6, <2>3
    <3> QED BY <1>2, <3>1
  <2> QED BY <1>4, <2>1, <2>2, <2>3
<1> QED BY <1>5, <1>6 DEF Ordered, r

-----------------------------------------------------------------------------
(* What a step does to the order is what it does to the queue. *)
LEMMA OrderedNext ==
  ASSUME UNCHANGED submitted_at, Ordered(pending_tasks')
  PROVE  QueueOrdered'
BY DEF QueueOrdered, Ordered, Before

(* A step that leaves the queue alone and queues no task. *)
LEMMA OrderKept ==
  ASSUME QueueOrdered, SubmittedInv,
         UNCHANGED <<pending_tasks, submitted_at, retry_counts, call>>
  PROVE  QueueOrdered' /\ SubmittedInv'
<1>1. QueueOrdered'
  BY DEF QueueOrdered, Before
<1>2. SubmittedInv'
  BY DEF SubmittedInv
<1> QED BY <1>1, <1>2

(* A call that begins has not read the retries of its task yet. *)
LEMMA CallOrders ==
  ASSUME AppTypeOK, QueueOrdered, SubmittedInv, NEW p \in Procs, NEW t \in Tasks,
         UNCHANGED <<pending_tasks, submitted_at, retry_counts>>,
         \/ Requeue(p, t)
         \/ \E st \in FinalStatus, job \in Jobs \cup {None} : CompleteTask(p, t, st, job)
  PROVE  QueueOrdered' /\ SubmittedInv'
<1>1. QueueOrdered'
  BY DEF QueueOrdered, Before
<1>2. call'[p].op \in {"requeue", "complete"}
      /\ \A q \in Procs : q # p => call'[q] = call[q]
  BY CallIs
<1>3. SubmittedInv'
  BY <1>2 DEF SubmittedInv
<1> QED BY <1>1, <1>3

(* The dispatcher removes tasks from the queue and writes no other of      *)
(* these variables.                                                        *)
LEMMA SchedOrders ==
  ASSUME AppTypeOK, ScanInv, QueueOrdered, SubmittedInv, SchedNext
  PROVE  QueueOrdered' /\ SubmittedInv'
<1> USE DEF nodeVars, taskVars, historyVars, wireVars, stateVars
<1>1. UNCHANGED <<submitted_at, retry_counts, call>>
  BY DEF SchedNext, Lock, Skip, Send, SendTask, Record, Recruit, RecruitNodes,
         SendSlot, RecordMpi, RegisterJob, AbortDispatch, Sweep, Unlock
<1>2. CASE ~Sweep
  <2>1. UNCHANGED pending_tasks
    BY <1>2 DEF SchedNext, Lock, Skip, Send, SendTask, Record, Recruit, RecruitNodes,
                SendSlot, RecordMpi, RegisterJob, AbortDispatch, Unlock
  <2> QED BY <1>1, <2>1, OrderKept
<1>3. CASE Sweep
  <2>1. PICK k \in sched.dispatched : pending_tasks' = RemoveAt(pending_tasks, k)
    BY <1>3 DEF Sweep
  <2>2. k \in 1 .. Len(pending_tasks) /\ pending_tasks \in Seq(Tasks)
    BY DEF ScanInv, AppTypeOK
  <2>3. Ordered(pending_tasks)
    BY DEF QueueOrdered, Ordered
  <2>4. /\ Ordered(pending_tasks')
        /\ \A m \in 1 .. Len(pending_tasks') :
             \E i \in 1 .. Len(pending_tasks) : pending_tasks'[m] = pending_tasks[i]
    BY <2>1, <2>2, <2>3, RemoveOrdered
  <2>5. SubmittedInv'
    BY <1>1, <2>4 DEF SubmittedInv
  <2> QED BY <1>1, <2>4, <2>5, OrderedNext
<1> QED BY <1>2, <1>3

(* A handler writes these variables by requeue and complete_task only. *)
LEMMA WsOrders ==
  ASSUME AppTypeOK, WireTypeOK, HandlerInv, WsTypeOK, QueueOrdered, SubmittedInv,
         NEW s \in Sessions, WsNext(s)
  PROVE  QueueOrdered' /\ SubmittedInv'
<1>1. UNCHANGED <<pending_tasks, submitted_at, retry_counts>> /\ s \in Procs
  BY WsEffect DEF Procs
<1>2. \/ UNCHANGED call
      \/ \E t \in Tasks : Takes(s, t) \/ Begins(s, t)
  BY WsEffect
<1> QED BY <1>1, <1>2, CallOrders, OrderKept DEF Takes, Begins

(* The monitor, the same. *)
LEMMA MonitorOrders ==
  ASSUME AppTypeOK, MonitorTypeOK, QueueOrdered, SubmittedInv, MonitorNext
  PROVE  QueueOrdered' /\ SubmittedInv'
<1>1. UNCHANGED <<pending_tasks, submitted_at, retry_counts>> /\ Monitor \in Procs
  BY MonitorEffect DEF Procs
<1>2. UNCHANGED call \/ \E t \in Tasks : Begins(Monitor, t)
  BY MonitorEffect
<1> QED BY <1>1, <1>2, CallOrders, OrderKept DEF Begins

(* A call that goes on: requeue reads the retries of a task that has some, *)
(* and so was submitted, before it writes them again.                      *)
LEMMA GoesOnOrders ==
  ASSUME AppTypeOK, QueueOrdered, SubmittedInv, NEW p \in Procs, GoesOn(p)
  PROVE  QueueOrdered' /\ SubmittedInv'
<1> USE DEF nodeVars, historyVars
<1>1. UNCHANGED <<pending_tasks, submitted_at>>
  BY DEF GoesOn, ReadRetries, WriteRetries, Reenqueue, EndTask, Enqueue
<1>2. QueueOrdered'
  BY <1>1 DEF QueueOrdered, Before
<1>3. PICK t \in Tasks : t = call[p].task
  BY CallFields DEF GoesOn, ReadRetries, WriteRetries, Reenqueue, EndTask, InCall
<1>4. ASSUME \A q \in Procs : q # p => call'[q] = call[q],
             \/ call'[p].op \notin {"retry", "enqueue", "push"}
             \/ call'[p].task = t /\ submitted_at[t] # 0,
             \A u \in Tasks : retry_counts'[u] # None
                                => retry_counts[u] # None \/ submitted_at[u] # 0
      PROVE  SubmittedInv'
  <2>1. \A i \in 1 .. Len(pending_tasks') : submitted_at'[pending_tasks'[i]] # 0
    BY <1>1 DEF SubmittedInv
  <2>2. ASSUME NEW q \in Procs, call'[q] # None, call'[q].op \in {"retry", "enqueue", "push"}
        PROVE  submitted_at'[call'[q].task] # 0
    BY <1>1, <1>4, <2>2 DEF SubmittedInv
  <2>3. \A u \in Tasks : retry_counts'[u] # None => submitted_at'[u] # 0
    BY <1>1, <1>4 DEF SubmittedInv
  <2> QED BY <2>1, <2>2, <2>3 DEF SubmittedInv
<1>5. CASE ReadRetries(p)
  <2>1. UNCHANGED retry_counts
    BY <1>5 DEF ReadRetries
  <2>2. CASE CompleteTask(p, t, "Failed", None)
    <3>1. call'[p].op = "complete" /\ \A q \in Procs : q # p => call'[q] = call[q]
      BY <2>2, CallIs DEF FinalStatus
    <3> QED BY <1>2, <1>4, <2>1, <3>1
  <2>3. CASE /\ retry_counts[t] \notin {None, 0}
             /\ call' = [call EXCEPT ![p] =
                           [op |-> "retry", task |-> t, left |-> retry_counts[t] - 1]]
    <3>1. call'[p].task = t /\ \A q \in Procs : q # p => call'[q] = call[q]
      BY <2>3 DEF AppTypeOK
    <3>2. submitted_at[t] # 0
      BY <2>3 DEF SubmittedInv
    <3> QED BY <1>2, <1>4, <2>1, <3>1, <3>2
  <2> QED BY <1>3, <1>5, <2>2, <2>3 DEF ReadRetries
<1>6. CASE WriteRetries(p) \/ Reenqueue(p)
  <2>1. submitted_at[t] # 0
    BY <1>3, <1>6 DEF WriteRetries, Reenqueue, InCall, SubmittedInv
  <2>2. \E o \in {"enqueue", "push"} : call' = [call EXCEPT ![p] = [op |-> o, task |-> t]]
    BY <1>3, <1>6 DEF WriteRetries, Reenqueue, Enqueue
  <2>3. call'[p].task = t /\ \A q \in Procs : q # p => call'[q] = call[q]
    BY <2>2 DEF AppTypeOK
  <2>4. \E k : retry_counts' = [retry_counts EXCEPT ![t] = k]
    BY <1>3, <1>6 DEF WriteRetries, Reenqueue, Enqueue
  <2>5. \A u \in Tasks : u # t => retry_counts'[u] = retry_counts[u]
    BY <2>4 DEF AppTypeOK
  <2> QED BY <1>2, <1>4, <2>1, <2>3, <2>5
<1>7. CASE EndTask(p)
  <2>1. call' = [call EXCEPT ![p] = [call[p] EXCEPT !.op = "done"]]
        /\ retry_counts' = [retry_counts EXCEPT ![t] = None]
        /\ call[p] # None /\ call[p].op = "complete"
    BY <1>3, <1>7 DEF EndTask, InCall
  <2>2. call[p] \in Finishing
    BY <2>1, CallFields
  <2>3. call'[p].op = "done" /\ \A q \in Procs : q # p => call'[q] = call[q]
    BY <2>1, <2>2 DEF AppTypeOK, Finishing
  <2>4. \A u \in Tasks : retry_counts'[u] # None => retry_counts[u] # None
    BY <2>1 DEF AppTypeOK
  <2> QED BY <1>2, <1>4, <2>3, <2>4
<1> QED BY <1>5, <1>6, <1>7 DEF GoesOn

(* A call that returns: a push sorts its task in, an append touches none   *)
(* of it.                                                                  *)
LEMMA ReturnOrders ==
  ASSUME AppTypeOK, QueueOrdered, SubmittedInv, NEW p \in Procs, ReturnFromCall(p)
  PROVE  QueueOrdered' /\ SubmittedInv'
<1> USE DEF nodeVars, historyVars
<1>4. CASE Done(p)
  <2>1. UNCHANGED <<pending_tasks, submitted_at, retry_counts>>
    BY <1>4 DEF Done
  <2>2. QueueOrdered'
    BY <2>1 DEF QueueOrdered, Before
  <2>3. \A q \in Procs : call'[q] # None => call'[q] = call[q]
    BY <1>4 DEF Done, AppTypeOK
  <2>4. SubmittedInv'
    BY <2>1, <2>3 DEF SubmittedInv
  <2> QED BY <2>2, <2>4
<1>5. CASE Push(p)
  <2>1. call[p] # None /\ call[p].op = "push" /\ call[p].task \in Tasks
    BY <1>5, CallFields DEF Push, InCall
  <2>2. PICK t \in Tasks : t = call[p].task /\ submitted_at[t] # 0
    BY <2>1 DEF SubmittedInv
  <2>3. pending_tasks' = InsertAt(pending_tasks, Position(t), t)
    BY <1>5, <2>2 DEF Push
  <2>4. pending_tasks \in Seq(Tasks) /\ Ordered(pending_tasks)
    BY DEF AppTypeOK, QueueOrdered, Ordered
  <2>5. Position(t) \in 1 .. Len(pending_tasks) + 1
    BY <2>4, PositionType
  <2>6. \A m \in 1 .. Len(pending_tasks) : m < Position(t) <=> ~Before(t, pending_tasks[m])
    BY PositionSplits
  <2>7. Ordered(pending_tasks')
    BY <2>3, <2>4, <2>5, <2>6, InsertOrdered
  <2>8. \A m \in 1 .. Len(pending_tasks') :
          \/ pending_tasks'[m] = t
          \/ \E i \in 1 .. Len(pending_tasks) : pending_tasks'[m] = pending_tasks[i]
    BY <2>3, <2>4, <2>5, InsertAdds
  <2>10. UNCHANGED <<submitted_at, retry_counts>>
    BY <1>5 DEF Push
  <2>11. \A q \in Procs : call'[q] # None => call'[q] = call[q]
    BY <1>5 DEF Push, AppTypeOK
  <2>9. SubmittedInv'
    BY <2>10, <2>11, <2>2, <2>8 DEF SubmittedInv
  <2> QED BY <2>10, <2>7, <2>9, OrderedNext
<1> QED BY <1>4, <1>5, GoesOnOrders DEF ReturnFromCall, GoesOn

(* A submission ranks a task that is nowhere in the queue; a cancellation  *)
(* removes one.                                                            *)
LEMMA ClientOrders ==
  ASSUME AppTypeOK, HandlerInv, QueueOrdered, SubmittedInv, NEW t \in Tasks,
         SubmitTask(t) \/ CancelTask(t)
  PROVE  QueueOrdered' /\ SubmittedInv'
<1> USE DEF nodeVars, taskVars, historyVars, wireVars
<1>1. CASE SubmitTask(t)
  <2> DEFINE rank == 1 + Cardinality({u \in Tasks : submitted_at[u] # 0})
  <2>1. rank # 0
    BY FS_CardinalityType DEF HandlerInv
  <2> HIDE DEF rank
  <2>2. /\ submitted_at[t] = 0 /\ UNCHANGED pending_tasks
        /\ submitted_at' = [submitted_at EXCEPT ![t] = rank]
    BY <1>1 DEF SubmitTask, rank
  <2>3. submitted_at'[t] # 0 /\ \A u \in Tasks : u # t => submitted_at'[u] = submitted_at[u]
    BY <2>1, <2>2 DEF AppTypeOK
  <2>4. \A i \in 1 .. Len(pending_tasks) : pending_tasks[i] \in Tasks /\ pending_tasks[i] # t
    BY <2>2 DEF AppTypeOK, SubmittedInv
  <2>5. QueueOrdered'
    BY <2>2, <2>3, <2>4 DEF QueueOrdered, Before
  <2>6. t \in Procs
        /\ call' = [call EXCEPT ![t] = [op |-> "push", task |-> t]]
        /\ retry_counts' = [retry_counts EXCEPT ![t] = MaxRetries]
    BY <1>1 DEF SubmitTask, Enqueue, Procs
  <2>7. \A q \in Procs : call'[q] = call[q] \/ call'[q].task = t
    BY <2>6 DEF AppTypeOK
  <2>8. \A q \in Procs : call[q] # None => call[q].task \in Tasks
    BY CallFields
  <2>9. \A u \in Tasks : submitted_at[u] # 0 => submitted_at'[u] # 0
    BY <2>3
  <2>10. \A u \in Tasks : retry_counts'[u] = retry_counts[u] \/ u = t
    BY <2>6 DEF AppTypeOK
  <2>11. SubmittedInv'
    BY <2>2, <2>3, <2>4, <2>7, <2>8, <2>9, <2>10 DEF SubmittedInv
  <2> QED BY <2>5, <2>11
<1>2. CASE CancelTask(t)
  <2>1. UNCHANGED <<submitted_at, retry_counts, call>>
    BY <1>2 DEF CancelTask
  <2>2. PICK k \in 1 .. Len(pending_tasks) : pending_tasks' = RemoveAt(pending_tasks, k)
    BY <1>2 DEF CancelTask
  <2>3. pending_tasks \in Seq(Tasks) /\ Ordered(pending_tasks)
    BY DEF AppTypeOK, QueueOrdered, Ordered
  <2>4. /\ Ordered(pending_tasks')
        /\ \A m \in 1 .. Len(pending_tasks') :
             \E i \in 1 .. Len(pending_tasks) : pending_tasks'[m] = pending_tasks[i]
    BY <2>2, <2>3, RemoveOrdered
  <2>5. SubmittedInv'
    BY <2>1, <2>4 DEF SubmittedInv
  <2> QED BY <2>1, <2>4, <2>5, OrderedNext
<1> QED BY <1>1, <1>2

(* Each step of the system; workers and network touch none of this. *)
LEMMA NextOrders ==
  ASSUME IInv, QueueOrdered, SubmittedInv, [Next]_vars
  PROVE  QueueOrdered' /\ SubmittedInv'
<1> USE DEF IInv, TypeOK
<1>1. CASE ServerStep
  <2>1. CASE SchedNext
    BY <2>1, SchedOrders
  <2>2. CASE \E s \in Sessions : WsNext(s)
    BY <2>2, WsOrders
  <2>3. CASE MonitorNext
    BY <2>3, MonitorOrders
  <2>4. CASE \E p \in Procs : ReturnFromCall(p)
    BY <2>4, ReturnOrders
  <2> QED BY <1>1, <2>1, <2>2, <2>3, <2>4 DEF ServerStep
<1>2. CASE ClientStep
  BY <1>2, ClientOrders DEF ClientStep
<1>3. CASE \/ WorkerStep \/ NetworkStep \/ UNCHANGED vars
  <2>1. UNCHANGED <<pending_tasks, submitted_at, retry_counts, call>>
    BY <1>3 DEF WorkerStep, NetworkStep, Silence, vars, stateVars, taskVars, historyVars
  <2> QED BY <2>1, OrderKept
<1> QED BY <1>1, <1>2, <1>3 DEF Next

(* The queue is ordered by priority, then by the time of submission, in    *)
(* every reachable state: tasks that several handlers push between two     *)
(* scans, in any order, go where a single sort of them all would put them. *)
THEOREM OrderKeptForEver == Spec => []QueueOrdered
<1>1. Init => QueueOrdered /\ SubmittedInv
  BY DEF Init, AppInit, QueueOrdered, SubmittedInv
<1>2. IInv /\ (QueueOrdered /\ SubmittedInv) /\ [Next]_vars
        => (QueueOrdered /\ SubmittedInv)'
  BY NextOrders
<1> QED BY <1>1, <1>2, InvariantHolds, PTL DEF Spec
=============================================================================
