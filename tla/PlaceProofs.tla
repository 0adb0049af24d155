---------------------------- MODULE PlaceProofs -----------------------------
(***************************************************************************)
(* A task is in one place only while the lists of tasks to requeue are     *)
(* fresh.  What the steps of the system do to the places of the tasks      *)
(* comes in five kinds; the other steps leave every task where it is.      *)
(***************************************************************************)
EXTENDS QueueProofs

(* The queue holds the tasks it held, positions that will be removed       *)
(* aside.                                                                  *)
QueueSame ==
  /\ \A t \in Tasks : Queued(t)' <=> Queued(t)
  /\ (\A i, k \in 1 .. Len(pending_tasks) : pending_tasks[i] = pending_tasks[k] => i = k)
       => \A i, k \in 1 .. Len(pending_tasks') : pending_tasks'[i] = pending_tasks'[k] => i = k

(* Every process holds what it held, and the holders are where they were. *)
HeldSame ==
  \A p \in Procs, t \in Tasks :
    /\ Holds(p, t)' <=> Holds(p, t)
    /\ Holds(p, t) => call'[p] = call[p]

(* The others do; p changes its call. *)
OthersSame(p) ==
  \A q \in Procs : q # p => /\ call'[q] = call[q]
                            /\ \A u : Holds(q, u)' <=> Holds(q, u)

Still ==
  /\ QueueSame
  /\ HeldSame
  /\ UNCHANGED <<running_tasks, completed_tasks, gone, submitted_at, retry_counts>>

(* The dispatcher records the task at a position and marks the position. *)
TaskRecorded(t) ==
  /\ \E i \in 1 .. Len(pending_tasks) \ Leaving :
       pending_tasks[i] = t /\ Leaving' = Leaving \cup {i}
  /\ \E e \in LiveTask : running_tasks' = [running_tasks EXCEPT ![t] = e]
  /\ HeldSame
  /\ UNCHANGED <<pending_tasks, call, completed_tasks, gone, submitted_at, retry_counts>>

(* A handler takes a task it found in the running map. *)
Taken(p, t) ==
  /\ call[p] = None
  /\ Takes(p, t)
  /\ OthersSame(p)
  /\ QueueSame
  /\ UNCHANGED <<completed_tasks, gone, submitted_at, retry_counts>>

(* A step that touches neither the queue nor what the dispatcher marks. *)
LEMMA QueueAlone ==
  ASSUME UNCHANGED pending_tasks, Leaving' = Leaving
  PROVE  QueueSame
BY DEF QueueSame, Queued, Positions

(* A step that touches no call, and no handler's state. *)
LEMMA HeldAlone ==
  ASSUME UNCHANGED <<call, session>>
  PROVE  HeldSame
BY HoldsSame DEF HeldSame

(* A process that is in no call begins one and holds nothing yet. *)
LEMMA HeldBegins ==
  ASSUME NEW p \in Procs, call[p] = None, \A u : ~Holds(p, u)',
         \A q \in Procs : q # p => call'[q] = call[q],
         \A q \in Sessions : q # p => session'[q] = session[q]
  PROVE  HeldSame
<1>1. \A u : ~Holds(p, u)
  BY NoCallHoldsNone
<1>2. \A q \in Procs : q # p => \A u : Holds(q, u)' <=> Holds(q, u)
  BY OthersHold
<1> QED BY <1>1, <1>2 DEF HeldSame

-----------------------------------------------------------------------------
(* A removal of the last marked position. *)
LEMMA SweepStill ==
  ASSUME AppTypeOK, SchedTypeOK, ScanInv, Sweep, UNCHANGED session
  PROVE  Still
<1> USE DEF taskVars, historyVars
<1>1. PICK k \in sched.dispatched :
        /\ \A i \in sched.dispatched : i <= k
        /\ pending_tasks' = RemoveAt(pending_tasks, k)
        /\ sched' = [sched EXCEPT !.dispatched = @ \ {k}]
  BY DEF Sweep
<1>2. pending_tasks \in Seq(Tasks) /\ Len(pending_tasks) \in Nat
      /\ k \in 1 .. Len(pending_tasks)
  BY DEF AppTypeOK, ScanInv
<1>3. /\ Leaving = sched.dispatched
      /\ Leaving' = sched.dispatched \ {k}
  <2>1. sched.pc = "scan" /\ sched'.pc = "scan" /\ sched'.dispatched = sched.dispatched \ {k}
    BY <1>1 DEF Sweep, Scanned, SchedTypeOK, SchedState
  <2> QED BY <2>1 DEF Leaving
<1>4. \A i \in Leaving : i \in Nat /\ i <= k
  BY <1>1, <1>2, <1>3 DEF ScanInv
<1>5. /\ Len(pending_tasks') = Len(pending_tasks) - 1
      /\ \A i \in 1 .. (Len(pending_tasks) - 1) :
           pending_tasks'[i] = pending_tasks[IF i < k THEN i ELSE i + 1]
      /\ \A i \in 1 .. Len(pending_tasks) : i # k =>
           pending_tasks'[IF i < k THEN i ELSE i - 1] = pending_tasks[i]
  BY <1>1, <1>2, RemoveSource
<1>6. ASSUME NEW t \in Tasks, Queued(t) PROVE Queued(t)'
  <2>1. PICK i \in 1 .. Len(pending_tasks) : pending_tasks[i] = t /\ i \notin Leaving
    BY <1>6 DEF Queued, Positions
  <2> DEFINE m == IF i < k THEN i ELSE i - 1
  <2>2. i # k
    BY <1>1, <1>3, <2>1
  <2>3. pending_tasks'[m] = t
    BY <1>5, <2>1, <2>2
  <2>4. m \in 1 .. Len(pending_tasks')
    BY <1>2, <1>5, <2>2
  <2>5. m \notin Leaving'
    <3>1. CASE i < k
      BY <1>3, <2>1, <3>1
    <3>2. CASE ~(i < k)
      <4>1. m >= k
        BY <1>2, <2>2, <3>2
      <4>2. \A x \in Leaving' : x \in Nat /\ x < k
        BY <1>2, <1>3, <1>4
      <4>3. m \in Leaving' => m \in Nat /\ m < k
        BY <4>2
      <4> QED BY <1>2, <4>1, <4>3
    <3> QED BY <3>1, <3>2
  <2> HIDE DEF m
  <2> QED BY <2>3, <2>4, <2>5 DEF Queued, Positions
<1>7. ASSUME NEW t \in Tasks, Queued(t)' PROVE Queued(t)
  <2>1. PICK m \in 1 .. Len(pending_tasks') : pending_tasks'[m] = t /\ m \notin Leaving'
    BY <1>7 DEF Queued, Positions
  <2> DEFINE i == IF m < k THEN m ELSE m + 1
  <2>2. pending_tasks[i] = t
    BY <1>5, <2>1
  <2>3. i \in 1 .. Len(pending_tasks)
    BY <1>2, <1>5
  <2>4. i \notin Leaving
    <3>1. CASE m < k
      BY <1>2, <1>3, <2>1, <3>1
    <3>2. CASE ~(m < k)
      <4>1. i > k /\ i \in Nat
        BY <1>2, <1>5, <3>2
      <4>2. i \in Leaving => i <= k
        BY <1>4
      <4> QED BY <1>2, <4>1, <4>2
    <3> QED BY <3>1, <3>2
  <2> HIDE DEF i
  <2> QED BY <2>2, <2>3, <2>4 DEF Queued, Positions
<1>8. (\A i, m \in 1 .. Len(pending_tasks) : pending_tasks[i] = pending_tasks[m] => i = m)
        => \A i, m \in 1 .. Len(pending_tasks') : pending_tasks'[i] = pending_tasks'[m] => i = m
  BY <1>1, <1>2, RemoveDistinct
<1>9. UNCHANGED <<running_tasks, call, completed_tasks, gone, submitted_at, retry_counts>>
  BY DEF Sweep
<1> QED BY <1>6, <1>7, <1>8, <1>9, HeldAlone DEF Still, QueueSame

(* The lines that record a task. *)
LEMMA RecordTaken ==
  ASSUME AppTypeOK, SchedTypeOK, ScanInv, Record \/ RecordMpi, UNCHANGED session
  PROVE  \E t \in Tasks : TaskRecorded(t)
<1> USE DEF nodeVars, taskVars, historyVars, wireVars, stateVars
<1>1. /\ sched \in SchedState /\ sched.idx \in Nat
      /\ pending_tasks \in Seq(Tasks) /\ Len(pending_tasks) \in Nat
  BY DEF SchedTypeOK, SchedState, AppTypeOK
<1>2. /\ sched.pc \in {"record", "mpi"} /\ Current \in Tasks
      /\ Current = pending_tasks[sched.idx]
  BY CurrentType DEF Record, RecordMpi, Current
<1>3. sched.idx \in 1 .. Len(pending_tasks) /\ sched.idx \notin Leaving
  BY <1>1, <1>2 DEF ScanInv, Leaving
<1>4. UNCHANGED <<pending_tasks, call, completed_tasks, gone, submitted_at, retry_counts>>
  BY DEF Record, RecordMpi
<1>7. HeldSame
  BY <1>4, HeldAlone
<1>5. CASE Record
  <2>1. sched.targets[1] \in Nodes
    BY <1>1, <1>5 DEF Record, ScanInv, SchedState
  <2>2. [status |-> "Dispatched", nodes |-> {sched.targets[1]}] \in LiveTask
    BY <2>1 DEF LiveTask, LiveStatus
  <2>3. Leaving' = Leaving \cup {sched.idx}
    <3>1. sched' = DispatchedTask /\ sched.pc = "record"
      BY <1>5 DEF Record
    <3> QED BY <3>1 DEF Leaving, DispatchedTask, Scan
  <2>4. running_tasks' = [running_tasks EXCEPT ![Current] =
                            [status |-> "Dispatched", nodes |-> {sched.targets[1]}]]
    BY <1>5 DEF Record
  <2> QED BY <1>2, <1>3, <1>4, <1>7, <2>2, <2>3, <2>4 DEF TaskRecorded
<1>6. CASE RecordMpi
  <2> DEFINE e == [status |-> "MpiDispatched",
                   nodes |-> {sched.targets[i] : i \in 1 .. Len(sched.targets)}]
  <2>1. e \in LiveTask
    BY <1>1 DEF LiveTask, LiveStatus, SchedState
  <2>2. running_tasks' = [running_tasks EXCEPT ![Current] = e]
    BY <1>6 DEF RecordMpi
  <2> HIDE DEF e
  <2>3. Leaving' = Leaving \cup {sched.idx}
    <3>1. sched.pc = "mpi" /\ sched' = [sched EXCEPT !.pc = "job"]
      BY <1>6 DEF RecordMpi
    <3>2. /\ sched'.idx = sched.idx /\ sched'.dispatched = sched.dispatched
          /\ sched'.pc = "job"
      BY <1>1, <3>1 DEF SchedState
    <3> QED BY <3>1, <3>2 DEF Leaving
  <2> QED BY <1>2, <1>3, <1>4, <1>7, <2>1, <2>2, <2>3 DEF TaskRecorded
<1> QED BY <1>5, <1>6

(* The other steps of the dispatcher. *)
LEMMA SchedKinds ==
  ASSUME AppTypeOK, SchedTypeOK, ScanInv, SchedNext, UNCHANGED session
  PROVE  Still \/ \E t \in Tasks : TaskRecorded(t)
<1> USE DEF nodeVars, taskVars, historyVars, wireVars, stateVars
<1>1. CASE \/ Lock \/ Skip \/ Send \/ Recruit \/ SendSlot \/ RegisterJob
           \/ AbortDispatch \/ Unlock
  <2>1. UNCHANGED <<running_tasks, pending_tasks, call, completed_tasks, gone,
                    submitted_at, retry_counts>>
    BY <1>1 DEF Lock, Skip, Send, SendTask, Recruit, RecruitNodes, SendSlot,
                RegisterJob, AbortDispatch, Unlock
  <2>2. Leaving' = Leaving
    <3>1. CASE Lock \/ Unlock
      <4>1. sched' = Scan(1, {}) \/ sched' = SchedIdle
        BY <3>1 DEF Lock, Unlock
      <4>2. Leaving = {}
        BY <3>1 DEF Lock, Unlock, Scanned, Leaving, ScanInv
      <4> QED BY <4>1, <4>2 DEF Leaving, Scan, SchedIdle
    <3>2. CASE Skip \/ AbortDispatch
      <4>1. sched' = NextTask /\ sched.pc # "job"
        BY <3>2 DEF Skip, AbortDispatch, Scanning
      <4> QED BY <4>1 DEF Leaving, NextTask, Scan
    <3>3. CASE Send
      <4>1. sched.pc # "job"
            /\ (sched' = NextTask \/ \E n \in Nodes : sched' = Chosen("record", <<n>>))
        BY <3>3, IdsAssumption DEF Send, SendTask, Eligible, Scanning
      <4> QED BY <4>1 DEF Leaving, NextTask, Scan, Chosen
    <3>4. CASE Recruit
      <4>1. sched.pc # "job" /\ \E f : sched' = Chosen("mpi", f)
        BY <3>4 DEF Recruit, RecruitNodes, Scanning
      <4> QED BY <4>1 DEF Leaving, Chosen
    <3>5. CASE SendSlot
      <4>1. sched.pc # "job" /\ (sched' = SlotSent(TRUE) \/ sched' = SlotSent(FALSE))
        BY <3>5 DEF SendSlot
      <4> QED BY <4>1 DEF Leaving, SlotSent
    <3>6. CASE RegisterJob
      <4>1. sched.pc = "job" /\ sched' = DispatchedTask
        BY <3>6 DEF RegisterJob
      <4> QED BY <4>1 DEF Leaving, DispatchedTask, Scan
    <3> QED BY <1>1, <3>1, <3>2, <3>3, <3>4, <3>5, <3>6
  <2> QED BY <2>1, <2>2, QueueAlone, HeldAlone DEF Still
<1>2. CASE Record \/ RecordMpi
  BY <1>2, RecordTaken
<1>3. CASE Sweep
  BY <1>3, SweepStill
<1> QED BY <1>1, <1>2, <1>3 DEF SchedNext

(* A step of a handler. *)
LEMMA WsKinds ==
  ASSUME AppTypeOK, WireTypeOK, HandlerInv, WsTypeOK,
         NEW s \in Sessions, WsNext(s), UNCHANGED sched
  PROVE  Still \/ \E t \in Tasks : Taken(s, t)
<1>1. /\ call[s] = None /\ s \in Procs
      /\ UNCHANGED <<pending_tasks, submitted_at, retry_counts, completed_tasks, gone>>
      /\ \A q \in Sessions : q # s => session'[q] = session[q]
      /\ \/ UNCHANGED <<running_tasks, call>>
         \/ \E t \in Tasks : Takes(s, t) \/ Begins(s, t)
  BY WsEffect DEF Procs
<1>2. QueueSame
  <2>1. Leaving' = Leaving
    BY DEF Leaving
  <2> QED BY <1>1, <2>1, QueueAlone
<1>3. CASE UNCHANGED <<running_tasks, call>>
  <2>1. \A u : ~Holds(s, u)'
    BY <1>1, <1>3, NoCallHoldsNoneNext
  <2>2. HeldSame
    BY <1>1, <1>3, <2>1, HeldBegins
  <2> QED BY <1>1, <1>2, <1>3, <2>2 DEF Still
<1>4. ASSUME NEW t \in Tasks, Takes(s, t) PROVE Taken(s, t)
  <2>1. \A q \in Procs : q # s => call'[q] = call[q]
    BY <1>1, <1>4, CallIs DEF Takes
  <2>2. OthersSame(s)
    BY <1>1, <2>1, OthersHold DEF OthersSame
  <2> QED BY <1>1, <1>2, <1>4, <2>2 DEF Taken
<1>5. ASSUME NEW t \in Tasks, Begins(s, t) PROVE Still
  <2>1. call'[s].task = t /\ \A q \in Procs : q # s => call'[q] = call[q]
    BY <1>1, <1>5, CallIs DEF Begins
  <2>2. \A u : ~Holds(s, u)'
    BY <1>5, <2>1 DEF Begins, Holds
  <2>3. HeldSame
    BY <1>1, <2>1, <2>2, HeldBegins
  <2> QED BY <1>1, <1>2, <1>5, <2>3 DEF Still, Begins
<1> QED BY <1>1, <1>3, <1>4, <1>5

(* A step of the monitor leaves every task where it is. *)
LEMMA MonitorKinds ==
  ASSUME AppTypeOK, MonitorTypeOK, MonitorNext, UNCHANGED <<sched, session>>
  PROVE  Still
<1>1. UNCHANGED <<running_tasks, pending_tasks, submitted_at, retry_counts,
                  completed_tasks, gone>> /\ Monitor \in Procs
  BY MonitorEffect DEF Procs
<1>2. QueueSame
  <2>1. Leaving' = Leaving
    BY DEF Leaving
  <2> QED BY <1>1, <2>1, QueueAlone
<1>3. CASE UNCHANGED call
  BY <1>1, <1>2, <1>3, HeldAlone DEF Still
<1>4. ASSUME call[Monitor] = None, NEW t \in Tasks, Begins(Monitor, t) PROVE Still
  <2>1. call'[Monitor].task = t /\ \A q \in Procs : q # Monitor => call'[q] = call[q]
    BY <1>1, <1>4, CallIs DEF Begins
  <2>2. \A u : ~Holds(Monitor, u)'
    BY <1>4, <2>1 DEF Begins, Holds
  <2>3. HeldSame
    BY <1>1, <1>4, <2>1, <2>2, HeldBegins
  <2> QED BY <1>1, <1>2, <2>3 DEF Still
<1> QED BY <1>3, <1>4, MonitorEffect

(* Each step of the system is of one of these kinds. *)
LEMMA NextKinds ==
  ASSUME IInv, [Next]_vars
  PROVE  \/ Still
         \/ \E t \in Tasks : TaskRecorded(t)
         \/ \E p \in Procs, t \in Tasks : Taken(p, t)
         \/ \E p \in Procs : /\ GoesOn(p) \/ Push(p) \/ Done(p)
                             /\ UNCHANGED <<sched, session, monitor>>
         \/ \E t \in Tasks : /\ SubmitTask(t) \/ CancelTask(t)
                             /\ UNCHANGED <<sched, session, monitor>>
<1> USE DEF IInv, TypeOK
<1>1. CASE ServerStep
  <2>1. CASE SchedNext /\ UNCHANGED <<session, monitor>>
    BY <2>1, SchedKinds
  <2>2. CASE \E s \in Sessions : WsNext(s) /\ UNCHANGED <<sched, monitor>>
    <3>1. PICK s \in Sessions : WsNext(s) /\ UNCHANGED sched
      BY <2>2
    <3>2. s \in Procs
      BY DEF Procs
    <3>3. Still \/ \E t \in Tasks : Taken(s, t)
      BY <3>1, WsKinds
    <3> QED BY <3>2, <3>3
  <2>3. CASE MonitorNext /\ UNCHANGED <<sched, session>>
    BY <2>3, MonitorKinds
  <2>4. CASE /\ \E p \in Procs : ReturnFromCall(p)
             /\ UNCHANGED <<wireVars, sched, session, monitor>>
    BY <2>4 DEF ReturnFromCall, GoesOn
  <2> QED BY <1>1, <2>1, <2>2, <2>3, <2>4 DEF ServerStep
<1>2. CASE ClientStep
  BY <1>2 DEF ClientStep
<1>3. CASE \/ WorkerStep \/ NetworkStep \/ UNCHANGED vars
  <2>1. UNCHANGED <<sched, session, pending_tasks, submitted_at, running_tasks,
                    retry_counts, call, completed_tasks, gone>>
    BY <1>3 DEF WorkerStep, NetworkStep, Silence, vars, stateVars, taskVars, historyVars
  <2>2. Leaving' = Leaving
    BY <2>1 DEF Leaving
  <2> QED BY <2>1, <2>2, QueueAlone, HeldAlone DEF Still
<1> QED BY <1>1, <1>2, <1>3 DEF Next

-----------------------------------------------------------------------------
(* A list is a snapshot of the running map, of which tasks are taken.  *)
LEMMA WsLists ==
  ASSUME WsTypeOK, NEW s \in Sessions, WsNext(s)
  PROVE  /\ \A t \in session'[s].todo : t \in session[s].todo \/ running_tasks[t] # None
         /\ \A r \in Sessions : r # s => session'[r] = session[r]
<1> USE DEF stateVars
<1>1. session \in [Sessions -> WsState]
  BY DEF WsTypeOK
<1>2. ASSUME UNCHANGED session \/ \E st : Goto(s, st)
      PROVE  \A r \in Sessions : r # s => session'[r] = session[r]
  BY <1>1, <1>2 DEF Goto
<1>3. ASSUME NEW st, Goto(s, st) PROVE session'[s] = st
  BY <1>1, <1>3 DEF Goto
<1>4. CASE OnHeartbeat(s) \/ OnDraining(s)
  BY <1>4 DEF OnHeartbeat, OnDraining
<1>5. CASE OnRegister(s) \/ OnTaskResult(s) \/ OnTaskError(s) \/ Answered(s) \/ Finalized(s)
  <2>1. UNCHANGED session \/ Goto(s, At("loop")) \/ Goto(s, At("answered"))
    BY <1>5 DEF OnRegister, OnTaskResult, OnTaskError, Answered, Finalized
  <2> QED BY <1>2, <1>3, <2>1 DEF At
<1>6. CASE OnMpiRankResult(s) \/ OnMpiRankError(s) \/ Finalize(s)
  <2>1. \/ UNCHANGED session
        \/ Goto(s, At("loop"))
        \/ \E pc, t, job : Goto(s, Finalizing(pc, t, job))
    BY <1>6 DEF OnMpiRankResult, OnMpiRankError, Finalize
  <2>2. CASE UNCHANGED session
    BY <2>2
  <2>3. ASSUME NEW pc, NEW t, NEW job, Goto(s, Finalizing(pc, t, job))
        PROVE  session'[s].todo = {}
    BY <1>3, <2>3 DEF Finalizing
  <2>4. ASSUME Goto(s, At("loop")) PROVE session'[s].todo = {}
    BY <1>3, <2>4 DEF At
  <2>5. UNCHANGED session \/ session'[s].todo = {}
    BY <2>1, <2>3, <2>4
  <2>6. \A r \in Sessions : r # s => session'[r] = session[r]
    BY <1>2, <2>1
  <2> QED BY <2>5, <2>6
<1>7. CASE OnClose(s) \/ LostRequeued(s)
  <2>1. \/ Goto(s, At("closed"))
        \/ Goto(s, Requeueing("lost", RunningOn(NodeOf[s])))
        \/ Goto(s, Requeueing("mpi_lost", MpiRunningOn(NodeOf[s])))
    BY <1>7 DEF OnClose, LostRequeued
  <2>2. session'[s].todo \in {{}, RunningOn(NodeOf[s]), MpiRunningOn(NodeOf[s])}
    BY <1>3, <2>1 DEF At, Requeueing
  <2> QED BY <1>2, <2>1, <2>2 DEF RunningOn, MpiRunningOn
<1>8. CASE RequeueLost(s)
  <2>1. PICK t : Goto(s, Requeueing(session[s].pc, session[s].todo \ {t}))
    BY <1>8 DEF RequeueLost
  <2>2. session'[s].todo = session[s].todo \ {t}
    BY <1>3, <2>1 DEF Requeueing
  <2> QED BY <1>2, <2>1, <2>2
<1> QED BY <1>4, <1>5, <1>6, <1>7, <1>8 DEF WsNext

(* What is pending after a step was pending before it, or listed. *)
LEMMA PendingWas ==
  ASSUME IInv, [Next]_vars, NEW p \in Procs
  PROVE  \A t \in Pending(p)' : t \in Listed
<1> USE DEF IInv, TypeOK
<1>0. Pending(p) \subseteq Listed
  BY DEF Listed
<1>1. CASE \E s \in Sessions : WsNext(s) /\ UNCHANGED <<sched, monitor>>
  <2>1. PICK s \in Sessions : WsNext(s)
    BY <1>1
  <2>2. /\ call[s] = None /\ s \in Procs
        /\ \A q \in Sessions : q # s => session'[q] = session[q]
    BY <2>1, WsEffect DEF Procs
  <2>3. CASE UNCHANGED call
    <3>1. CASE p = s
      BY <2>2, <2>3, <3>1, NoCallHoldsNoneNext
    <3>2. CASE p # s
      BY <1>0, <2>2, <2>3, <3>2, HoldsSame
    <3> QED BY <3>1, <3>2
  <2>4. ASSUME NEW t \in Tasks, Takes(s, t) PROVE \A u \in Pending(p)' : u \in Listed
    <3>1. call'[s].task = t /\ \A q \in Procs : q # s => call'[q] = call[q]
      BY <2>2, <2>4, CallIs DEF Takes
    <3>2. CASE p = s
      BY <2>4, <3>1, <3>2 DEF Takes, Holds, Pending
    <3>3. CASE p # s
      BY <1>0, <2>2, <3>1, <3>3, HoldsSame
    <3> QED BY <3>2, <3>3
  <2>5. ASSUME NEW t \in session[s].todo, t \in Tasks, Begins(s, t)
        PROVE  \A u \in Pending(p)' : u \in Listed
    <3>1. \A q \in Procs : q # s => call'[q] = call[q]
      BY <2>2, <2>5, CallIs DEF Begins
    <3>2. CASE p = s
      BY <2>5, <3>2 DEF Begins, Listed
    <3>3. CASE p # s
      BY <1>0, <2>2, <3>1, <3>3, HoldsSame
    <3> QED BY <3>2, <3>3
  <2> QED BY <2>1, <2>3, <2>4, <2>5, WsEffect
<1>2. CASE MonitorNext /\ UNCHANGED <<sched, session>>
  <2>1. CASE UNCHANGED call
    BY <1>0, <1>2, <2>1, HoldsSame
  <2>2. ASSUME NEW t \in monitor.todo, t \in Tasks, Begins(Monitor, t)
        PROVE  \A u \in Pending(p)' : u \in Listed
    <3>1. \A q \in Procs : q # Monitor => call'[q] = call[q]
      BY <2>2, CallIs DEF Begins, Procs
    <3>2. CASE p = Monitor
      BY <2>2, <3>2 DEF Begins, Listed
    <3>3. CASE p # Monitor
      BY <1>0, <1>2, <3>1, <3>3, HoldsSame
    <3> QED BY <3>2, <3>3
  <2> QED BY <1>2, <2>1, <2>2, MonitorEffect
<1>3. CASE \E q \in Procs : ReturnFromCall(q) /\ UNCHANGED <<sched, session, monitor>>
  <2>1. PICK q \in Procs : ReturnFromCall(q) /\ UNCHANGED session
    BY <1>3
  <2>2. CASE GoesOn(q)
    <3>1. /\ \A r \in Procs : r # q => call'[r] = call[r]
          /\ Pending(q)' \subseteq Pending(q)
      BY <2>1, <2>2, CallGoesOn
    <3> QED BY <1>0, <2>1, <3>1, HoldsSame
  <2>3. CASE Push(q) \/ Done(q)
    <3>1. call'[q] = None /\ \A r \in Procs : r # q => call'[r] = call[r]
      BY <2>3 DEF Push, Done, AppTypeOK
    <3>2. Pending(q)' = {}
      BY <3>1, NoCallHoldsNoneNext
    <3> QED BY <1>0, <2>1, <3>1, <3>2, HoldsSame
  <2> QED BY <2>1, <2>2, <2>3 DEF ReturnFromCall, GoesOn
<1>4. CASE \E t \in Tasks : SubmitTask(t) /\ UNCHANGED <<sched, session, monitor>>
  <2>1. PICK t \in Tasks : SubmitTask(t) /\ UNCHANGED session
    BY <1>4
  <2>2. call' = [call EXCEPT ![t] = [op |-> "push", task |-> t]]
    BY <2>1 DEF SubmitTask, Enqueue
  <2>3. t \in Procs /\ call'[t].op = "push"
        /\ \A r \in Procs : r # t => call'[r] = call[r]
    BY <2>2 DEF Procs, AppTypeOK
  <2>4. Pending(t)' = {}
    BY <2>3 DEF Pending
  <2> QED BY <1>0, <2>1, <2>3, <2>4, HoldsSame
<1>5. CASE UNCHANGED <<call, session>>
  BY <1>0, <1>5, HoldsSame
<1>6. \/ \E s \in Sessions : WsNext(s) /\ UNCHANGED <<sched, monitor>>
      \/ MonitorNext /\ UNCHANGED <<sched, session>>
      \/ \E q \in Procs : ReturnFromCall(q) /\ UNCHANGED <<sched, session, monitor>>
      \/ \E t \in Tasks : SubmitTask(t) /\ UNCHANGED <<sched, session, monitor>>
      \/ UNCHANGED <<call, session>>
  <2>1. CASE ServerStep
    <3>1. CASE SchedNext /\ UNCHANGED <<session, monitor>>
      BY <3>1 DEF SchedNext, Lock, Skip, Send, SendTask, Record, Recruit, RecruitNodes,
                  SendSlot, RecordMpi, RegisterJob, AbortDispatch, Sweep, Unlock,
                  taskVars, stateVars
    <3> QED BY <2>1, <3>1 DEF ServerStep
  <2>2. CASE ClientStep
    BY <2>2 DEF ClientStep, CancelTask, taskVars
  <2>3. CASE WorkerStep \/ UNCHANGED vars
    BY <2>3 DEF WorkerStep, vars, stateVars, taskVars
  <2>4. CASE NetworkStep
    BY <2>4 DEF NetworkStep, Silence, stateVars, taskVars
  <2> QED BY <2>1, <2>2, <2>3, <2>4 DEF Next
<1> QED BY <1>1, <1>2, <1>3, <1>4, <1>5, <1>6

(* What is listed after a step was listed before it, or running. *)
LEMMA ListedWereRunning ==
  ASSUME IInv, [Next]_vars
  PROVE  \A t \in Tasks : t \in Listed' => t \in Listed \/ running_tasks[t] # None
<1> USE DEF IInv, TypeOK
<1>0. \A p \in Procs : \A t \in Pending(p)' : t \in Listed
  BY PendingWas
<1>4. ASSUME \A t \in monitor'.todo : t \in Listed \/ running_tasks[t] # None,
             \A s \in Sessions : \A t \in session'[s].todo :
               t \in Listed \/ running_tasks[t] # None
      PROVE  \A t \in Tasks : t \in Listed' => t \in Listed \/ running_tasks[t] # None
  <2> SUFFICES ASSUME NEW t \in Listed' PROVE t \in Listed \/ running_tasks[t] # None
    OBVIOUS
  <2>1. \/ t \in monitor'.todo
        \/ \E s \in Sessions : t \in session'[s].todo
        \/ \E p \in Procs : t \in Pending(p)'
    BY DEF Listed
  <2> QED BY <1>0, <1>4, <2>1
<1>5. monitor.todo \subseteq Listed /\ \A s \in Sessions : session[s].todo \subseteq Listed
  BY DEF Listed
<1>1. CASE \E s \in Sessions : WsNext(s) /\ UNCHANGED <<sched, monitor>>
  <2>1. PICK s \in Sessions : WsNext(s) /\ UNCHANGED monitor
    BY <1>1
  <2>2. /\ \A t \in session'[s].todo : t \in session[s].todo \/ running_tasks[t] # None
        /\ \A r \in Sessions : r # s => session'[r] = session[r]
    BY <2>1, WsLists
  <2> QED BY <1>4, <1>5, <2>1, <2>2
<1>2. CASE MonitorNext /\ UNCHANGED <<sched, session>>
  <2>1. \/ monitor'.todo \in {{}, TimedOut, MpiRunningOn(monitor.node)}
        \/ \E n : monitor'.todo = RunningOn(n)
        \/ monitor'.todo \subseteq monitor.todo
    <3>1. CASE Tick \/ NextPhase
      BY <3>1 DEF Tick, NextPhase, Round
    <3>2. CASE NextDead
      BY <3>2 DEF NextDead, Round
    <3>3. CASE RequeueOne
      BY <3>3 DEF RequeueOne, Round
    <3> QED BY <1>2, <3>1, <3>2, <3>3 DEF MonitorNext
  <2>2. \A t \in monitor'.todo : t \in monitor.todo \/ running_tasks[t] # None
    BY <2>1 DEF RunningOn, MpiRunningOn, TimedOut
  <2> QED BY <1>2, <1>4, <1>5, <2>2
<1>3. CASE UNCHANGED <<session, monitor>>
  BY <1>3, <1>4, <1>5
<1> QED BY <1>1, <1>2, <1>3
        DEF Next, ServerStep, ClientStep, WorkerStep, NetworkStep, vars, stateVars

-----------------------------------------------------------------------------
(* What the kinds of steps do to the places *)

DistinctQueue ==
  \A i, k \in 1 .. Len(pending_tasks) : pending_tasks[i] = pending_tasks[k] => i = k

DistinctCompleted ==
  \A i, k \in 1 .. Len(completed_tasks) :
    completed_tasks[i].task = completed_tasks[k].task => i = k

(* The completed list says that t has ended, with one of these statuses. *)
Entry(t, status) ==
  \E i \in 1 .. Len(completed_tasks) : /\ completed_tasks[i].task = t
                                       /\ completed_tasks[i].status \in status

(* While the dispatcher does not hold the queue, all of it is queued. *)
LEMMA FreeQueue ==
  ASSUME SchedTypeOK, AppTypeOK, ScanInv, ~queue_locked
  PROVE  /\ Leaving = {}
         /\ \A t : Queued(t) <=> \E i \in 1 .. Len(pending_tasks) : pending_tasks[i] = t
<1>1. Leaving = {}
  BY LeavingType
<1> QED BY <1>1 DEF Queued, Positions

(* Only p changes its call. *)
LEMMA OnlyOne ==
  ASSUME NEW p \in Procs, \A q \in Procs : q # p => call'[q] = call[q], UNCHANGED session
  PROVE  OthersSame(p)
BY HoldsSame DEF OthersSame

LEMMA PushEffect ==
  ASSUME AppTypeOK, SchedTypeOK, ScanInv, NEW p \in Procs, Push(p),
         UNCHANGED <<sched, session>>, NEW t, t = call[p].task
  PROVE  /\ call[p] # None /\ t \in Tasks /\ Holds(p, t)
         /\ call'[p] = None /\ OthersSame(p)
         /\ Queued(t)'
         /\ \A u \in Tasks : u # t => (Queued(u)' <=> Queued(u))
         /\ DistinctQueue /\ ~Queued(t) => DistinctQueue'
         /\ UNCHANGED <<running_tasks, completed_tasks, gone, submitted_at, retry_counts>>
<1> USE DEF historyVars
<1> DEFINE k == Position(t)
<1>1. /\ call[p] # None /\ call[p].op = "push" /\ t \in Tasks
      /\ UNCHANGED <<running_tasks, completed_tasks, gone, submitted_at, retry_counts>>
  BY CallFields DEF Push, InCall
<1>2. pending_tasks \in Seq(Tasks) /\ Len(pending_tasks) \in Nat
  BY DEF AppTypeOK
<1>3. k \in 1 .. Len(pending_tasks) + 1
  BY <1>1, <1>2, PositionType
<1>4. pending_tasks' = InsertAt(pending_tasks, k, t)
  BY DEF Push
<1>5. call'[p] = None /\ OthersSame(p)
  <2>1. call'[p] = None /\ \A q \in Procs : q # p => call'[q] = call[q]
    BY DEF Push, AppTypeOK
  <2> QED BY <2>1, OnlyOne
<1>13. Holds(p, t)
  BY <1>1 DEF Holds, Pending
<1> HIDE DEF k
<1>6. Leaving = {} /\ Leaving' = {}
  <2>1. ~queue_locked
    BY DEF Push
  <2> QED BY <2>1, LeavingType DEF Leaving
<1>7. \A u : /\ Queued(u) <=> \E i \in 1 .. Len(pending_tasks) : pending_tasks[i] = u
             /\ Queued(u)' <=> \E i \in 1 .. Len(pending_tasks') : pending_tasks'[i] = u
  BY <1>6 DEF Queued, Positions
<1>8. /\ \E m \in 1 .. Len(pending_tasks') : pending_tasks'[m] = t
      /\ \A i \in 1 .. Len(pending_tasks) :
           \E m \in 1 .. Len(pending_tasks') : pending_tasks'[m] = pending_tasks[i]
  <2>1. \E m \in 1 .. Len(InsertAt(pending_tasks, k, t)) : InsertAt(pending_tasks, k, t)[m] = t
    BY <1>1, <1>2, <1>3, TaskInserted
  <2>2. \A i \in 1 .. Len(pending_tasks) :
          \E m \in 1 .. Len(InsertAt(pending_tasks, k, t)) :
            InsertAt(pending_tasks, k, t)[m] = pending_tasks[i]
    BY <1>1, <1>2, <1>3, TaskInserted
  <2> QED BY <1>4, <2>1, <2>2
<1>9. \A m \in 1 .. Len(pending_tasks') :
        \/ pending_tasks'[m] = t
        \/ \E i \in 1 .. Len(pending_tasks) : pending_tasks'[m] = pending_tasks[i]
  BY <1>1, <1>2, <1>3, <1>4, InsertAdds
<1>10. Queued(t)'
  BY <1>7, <1>8
<1>11. ASSUME NEW u \in Tasks, u # t PROVE Queued(u)' <=> Queued(u)
  BY <1>7, <1>8, <1>9, <1>11
<1>12. ASSUME DistinctQueue, ~Queued(t) PROVE DistinctQueue'
  <2>1. \A i \in 1 .. Len(pending_tasks) : pending_tasks[i] # t
    BY <1>7, <1>12
  <2> QED BY <1>1, <1>2, <1>3, <1>4, <1>12, <2>1, InsertDistinct DEF DistinctQueue
<1> QED BY <1>1, <1>5, <1>10, <1>11, <1>12, <1>13

LEMMA DoneEffect ==
  ASSUME AppTypeOK, NEW p \in Procs, Done(p), UNCHANGED <<sched, session>>
  PROVE  /\ call[p] \in Finishing /\ Holds(p, call[p].task)
         /\ call'[p] = None /\ OthersSame(p)
         /\ QueueSame
         /\ gone \subseteq gone'
         /\ \A u \in gone' \ gone : Completed(u) \/ u = call[p].task
         /\ \A u : Completed(u)' => Completed(u) \/ u = call[p].task
         /\ \A u, S : Entry(u, S)' => Entry(u, S) \/ (u = call[p].task /\ call[p].status \in S)
         /\ \A u, S : Entry(u, S) \/ (u = call[p].task /\ call[p].status \in S)
                        => Entry(u, S)' \/ u \in gone'
         /\ DistinctCompleted /\ ~Completed(call[p].task) =>
              /\ DistinctCompleted'
              /\ \A u \in gone' \ gone : ~Completed(u)'
         /\ UNCHANGED <<running_tasks, pending_tasks, submitted_at, retry_counts>>
<1> USE DEF nodeVars, historyVars
<1> DEFINE e == [task |-> call[p].task, status |-> call[p].status, job |-> call[p].job]
           done == Append(completed_tasks, e)
           drain == IF Len(done) > CompletedCap THEN CompletedDrain ELSE 0
<1>1. call[p] \in Finishing
  BY CallFields DEF Done, InCall
<1>2. e \in DoneTask /\ e.task = call[p].task /\ e.status = call[p].status
  BY <1>1 DEF Finishing, DoneTask
<1>3. /\ done \in Seq(DoneTask) /\ Len(done) = Len(completed_tasks) + 1
      /\ Len(completed_tasks) \in Nat /\ done[Len(done)] = e
      /\ \A i \in 1 .. Len(completed_tasks) : done[i] = completed_tasks[i]
  BY <1>2 DEF AppTypeOK
<1>4. drain \in Nat /\ drain <= Len(done)
  BY <1>3, LimitsAssumption
<1>5. completed_tasks' = SubSeq(done, drain + 1, Len(done))
      /\ gone' = gone \cup {done[i].task : i \in 1 .. drain}
  BY DEF Done
<1>6. call'[p] = None /\ OthersSame(p)
  <2>1. call'[p] = None /\ \A q \in Procs : q # p => call'[q] = call[q]
    BY DEF Done, AppTypeOK
  <2> QED BY <2>1, OnlyOne
<1>18. Holds(p, call[p].task)
  BY DEF Done, InCall, Holds, Pending
<1>7. UNCHANGED <<running_tasks, pending_tasks, submitted_at, retry_counts>>
  BY DEF Done
<1>8. QueueSame
  <2>1. Leaving' = Leaving
    BY DEF Leaving
  <2> QED BY <1>7, <2>1, QueueAlone
<1> HIDE DEF done, drain, e
<1>9. /\ Len(completed_tasks') = Len(done) - drain
      /\ \A i \in 1 .. Len(done) - drain : completed_tasks'[i] = done[drain + i]
  BY <1>3, <1>4, <1>5, SubSeqProperties
<1>10. ASSUME NEW i \in 1 .. Len(done)
       PROVE  \/ i = Len(done) /\ done[i] = e
              \/ i \in 1 .. Len(completed_tasks) /\ done[i] = completed_tasks[i]
  BY <1>3
<1>11. ASSUME NEW i \in 1 .. Len(completed_tasks')
       PROVE  drain + i \in 1 .. Len(done) /\ completed_tasks'[i] = done[drain + i]
  BY <1>3, <1>4, <1>9
<1>12. ASSUME NEW i \in 1 .. Len(done)
       PROVE  \/ done[i].task \in gone'
              \/ \E k \in 1 .. Len(completed_tasks') : completed_tasks'[k] = done[i]
  <2>1. CASE i <= drain
    BY <1>4, <1>5, <2>1
  <2>2. CASE i > drain
    <3>1. i - drain \in 1 .. Len(done) - drain /\ drain + (i - drain) = i
      BY <1>3, <1>4, <2>2
    <3>2. completed_tasks'[i - drain] = done[i] /\ i - drain \in 1 .. Len(completed_tasks')
      BY <1>9, <3>1
    <3> QED BY <3>2
  <2> QED BY <1>3, <1>4, <2>1, <2>2
<1>13. \A u \in gone' \ gone : Completed(u) \/ u = call[p].task
  <2> SUFFICES ASSUME NEW u \in gone' \ gone PROVE Completed(u) \/ u = call[p].task
    OBVIOUS
  <2>1. PICK i \in 1 .. drain : done[i].task = u
    BY <1>5
  <2>2. i \in 1 .. Len(done)
    BY <1>3, <1>4
  <2> QED BY <1>2, <1>10, <2>1, <2>2 DEF Completed
<1>14. ASSUME NEW u, NEW S, Entry(u, S)'
       PROVE  Entry(u, S) \/ (u = call[p].task /\ call[p].status \in S)
  <2>1. PICK i \in 1 .. Len(completed_tasks') : /\ completed_tasks'[i].task = u
                                                /\ completed_tasks'[i].status \in S
    BY <1>14 DEF Entry
  <2>2. drain + i \in 1 .. Len(done) /\ completed_tasks'[i] = done[drain + i]
    BY <1>11
  <2> QED BY <1>2, <1>10, <2>1, <2>2 DEF Entry
<1>15. ASSUME NEW u, NEW S, Entry(u, S) \/ (u = call[p].task /\ call[p].status \in S)
       PROVE  Entry(u, S)' \/ u \in gone'
  <2>1. PICK i \in 1 .. Len(done) : done[i].task = u /\ done[i].status \in S
    <3>1. CASE Entry(u, S)
      <4>1. PICK i \in 1 .. Len(completed_tasks) : /\ completed_tasks[i].task = u
                                                   /\ completed_tasks[i].status \in S
        BY <3>1 DEF Entry
      <4>2. i \in 1 .. Len(done) /\ done[i] = completed_tasks[i]
        BY <1>3
      <4> QED BY <4>1, <4>2
    <3>2. CASE u = call[p].task /\ call[p].status \in S
      <4>1. Len(done) \in 1 .. Len(done) /\ done[Len(done)] = e
        BY <1>3
      <4> QED BY <1>2, <3>2, <4>1
    <3> QED BY <1>15, <3>1, <3>2
  <2> QED BY <1>12, <2>1 DEF Entry
<1>16. ASSUME DistinctCompleted, ~Completed(call[p].task)
       PROVE  DistinctCompleted' /\ \A u \in gone' \ gone : ~Completed(u)'
  <2>1. ASSUME NEW i \in 1 .. Len(done), NEW k \in 1 .. Len(done), done[i].task = done[k].task
        PROVE  i = k
    <3>1. CASE i = Len(done) /\ done[i] = e
      <4>1. ~(k \in 1 .. Len(completed_tasks) /\ done[k] = completed_tasks[k])
        BY <1>2, <1>16, <2>1, <3>1 DEF Completed
      <4> QED BY <1>10, <3>1, <4>1
    <3>2. CASE k = Len(done) /\ done[k] = e
      <4>1. ~(i \in 1 .. Len(completed_tasks) /\ done[i] = completed_tasks[i])
        BY <1>2, <1>16, <2>1, <3>2 DEF Completed
      <4> QED BY <1>10, <3>2, <4>1
    <3>3. CASE /\ i \in 1 .. Len(completed_tasks) /\ done[i] = completed_tasks[i]
               /\ k \in 1 .. Len(completed_tasks) /\ done[k] = completed_tasks[k]
      BY <1>16, <2>1, <3>3 DEF DistinctCompleted
    <3> QED BY <1>10, <3>1, <3>2, <3>3
  <2>2. DistinctCompleted'
    <3> SUFFICES ASSUME NEW i \in 1 .. Len(completed_tasks'), NEW k \in 1 .. Len(completed_tasks'),
                        completed_tasks'[i].task = completed_tasks'[k].task
                 PROVE  i = k
      BY DEF DistinctCompleted
    <3>1. drain + i = drain + k
      BY <1>11, <2>1
    <3> QED BY <1>4, <1>3, <1>9, <3>1
  <2>3. ASSUME NEW u \in gone' \ gone, Completed(u)' PROVE FALSE
    <3>1. PICK i \in 1 .. drain : done[i].task = u
      BY <1>5, <2>3
    <3>2. PICK k \in 1 .. Len(completed_tasks') : completed_tasks'[k].task = u
      BY <2>3 DEF Completed
    <3>3. i \in 1 .. Len(done)
      BY <1>3, <1>4
    <3>4. i = drain + k
      BY <1>11, <2>1, <3>1, <3>2, <3>3
    <3> QED BY <1>4, <1>3, <1>9, <3>4
  <2> QED BY <2>2, <2>3
<1>17. ASSUME NEW u, Completed(u)' PROVE Completed(u) \/ u = call[p].task
  <2>1. PICK i \in 1 .. Len(completed_tasks') : completed_tasks'[i].task = u
    BY <1>17 DEF Completed
  <2>2. drain + i \in 1 .. Len(done) /\ completed_tasks'[i] = done[drain + i]
    BY <1>11
  <2> QED BY <1>2, <1>10, <2>1, <2>2 DEF Completed
<1> QED BY <1>1, <1>5, <1>6, <1>7, <1>8, <1>13, <1>14, <1>15, <1>16, <1>17, <1>18

(* A cancellation takes a task out of the queue. *)
LEMMA CancelEffect ==
  ASSUME AppTypeOK, SchedTypeOK, ScanInv, NEW t \in Tasks, CancelTask(t),
         UNCHANGED <<sched, session>>
  PROVE  /\ Queued(t)
         /\ \A u \in Tasks : u # t => (Queued(u)' <=> Queued(u))
         /\ DistinctQueue => DistinctQueue' /\ ~Queued(t)'
         /\ gone' = gone \cup {t}
         /\ HeldSame
         /\ UNCHANGED <<running_tasks, completed_tasks, submitted_at, retry_counts>>
<1> USE DEF nodeVars, taskVars, historyVars, wireVars
<1>1. PICK k \in 1 .. Len(pending_tasks) :
        pending_tasks[k] = t /\ pending_tasks' = RemoveAt(pending_tasks, k)
  BY DEF CancelTask
<1>2. pending_tasks \in Seq(Tasks) /\ Len(pending_tasks) \in Nat
  BY DEF AppTypeOK
<1>3. Leaving = {} /\ Leaving' = {}
  <2>1. ~queue_locked
    BY DEF CancelTask
  <2> QED BY <2>1, LeavingType DEF Leaving
<1>4. \A u : /\ Queued(u) <=> \E i \in 1 .. Len(pending_tasks) : pending_tasks[i] = u
             /\ Queued(u)' <=> \E i \in 1 .. Len(pending_tasks') : pending_tasks'[i] = u
  BY <1>3 DEF Queued, Positions
<1>5. ASSUME NEW i \in 1 .. Len(pending_tasks), i # k
      PROVE  \E m \in 1 .. Len(pending_tasks') : pending_tasks'[m] = pending_tasks[i]
  <2>1. \E m \in 1 .. Len(RemoveAt(pending_tasks, k)) :
          RemoveAt(pending_tasks, k)[m] = pending_tasks[i]
    BY <1>2, <1>5, RemoveKeeps
  <2> QED BY <1>1, <2>1
<1>6. ASSUME NEW m \in 1 .. Len(pending_tasks')
      PROVE  \E i \in 1 .. Len(pending_tasks) : pending_tasks'[m] = pending_tasks[i]
  <2>1. /\ Len(pending_tasks') = Len(pending_tasks) - 1
        /\ \A i \in 1 .. (Len(pending_tasks) - 1) :
             pending_tasks'[i] = pending_tasks[IF i < k THEN i ELSE i + 1]
    BY <1>1, <1>2, RemoveSource
  <2>2. m \in 1 .. (Len(pending_tasks) - 1)
    BY <2>1
  <2>3. (IF m < k THEN m ELSE m + 1) \in 1 .. Len(pending_tasks)
    BY <1>2, <2>2
  <2> QED BY <2>1, <2>2, <2>3
<1>7. ASSUME NEW u \in Tasks, u # t PROVE Queued(u)' <=> Queued(u)
  BY <1>1, <1>4, <1>5, <1>6, <1>7
<1>8. ASSUME DistinctQueue PROVE DistinctQueue' /\ ~Queued(t)'
  <2>1. /\ \A i, m \in 1 .. Len(RemoveAt(pending_tasks, k)) :
             RemoveAt(pending_tasks, k)[i] = RemoveAt(pending_tasks, k)[m] => i = m
        /\ \A i \in 1 .. Len(RemoveAt(pending_tasks, k)) :
             RemoveAt(pending_tasks, k)[i] # pending_tasks[k]
    BY <1>2, <1>8, RemoveDistinct DEF DistinctQueue
  <2> QED BY <1>1, <1>4, <2>1 DEF DistinctQueue
<1>9. /\ gone' = gone \cup {t}
      /\ UNCHANGED <<running_tasks, call, completed_tasks, submitted_at, retry_counts>>
  BY DEF CancelTask
<1> QED BY <1>1, <1>4, <1>7, <1>8, <1>9, HeldAlone

(* A submission is a call that will queue the task. *)
LEMMA SubmitEffect ==
  ASSUME AppTypeOK, HandlerInv, NEW t \in Tasks, SubmitTask(t), UNCHANGED <<sched, session>>
  PROVE  /\ t \in Procs /\ submitted_at[t] = 0 /\ \A u : ~Holds(t, u)
         /\ submitted_at'[t] # 0
         /\ \A u \in Tasks : u # t => /\ submitted_at'[u] = submitted_at[u]
                                      /\ retry_counts'[u] = retry_counts[u]
         /\ retry_counts'[t] = MaxRetries
         /\ call'[t].op = "push" /\ \A u : Holds(t, u)' <=> u = t
         /\ OthersSame(t)
         /\ QueueSame
         /\ UNCHANGED <<pending_tasks, running_tasks, completed_tasks, gone>>
<1> USE DEF nodeVars, taskVars, historyVars, wireVars
<1> DEFINE rank == 1 + Cardinality({u \in Tasks : submitted_at[u] # 0})
           c == [op |-> "push", task |-> t]
<1>1. rank # 0
  BY FS_CardinalityType DEF HandlerInv
<1>2. c \in Calls
  BY DEF Calls, Queueing
<1>3. c # None /\ c.op = "push" /\ c.task = t
  BY <1>2, NoneAssumption
<1>4. /\ submitted_at[t] = 0
      /\ submitted_at' = [submitted_at EXCEPT ![t] = rank]
      /\ call' = [call EXCEPT ![t] = c]
      /\ retry_counts' = [retry_counts EXCEPT ![t] = MaxRetries]
      /\ UNCHANGED <<pending_tasks, running_tasks, completed_tasks, gone>>
  BY DEF SubmitTask, Enqueue
<1> HIDE DEF rank, c
<1>5. t \in Procs /\ call[t] = None /\ \A u : ~Holds(t, u)
  BY <1>4, NoCallHoldsNone DEF Procs, HandlerInv
<1>6. submitted_at'[t] # 0 /\ \A u \in Tasks : u # t => submitted_at'[u] = submitted_at[u]
  BY <1>1, <1>4 DEF AppTypeOK
<1>7. call'[t] = c /\ OthersSame(t)
  <2>1. call'[t] = c /\ \A q \in Procs : q # t => call'[q] = call[q]
    BY <1>4, <1>5 DEF AppTypeOK
  <2> QED BY <1>5, <2>1, OnlyOne
<1>10. \A u : Holds(t, u)' <=> u = t
  BY <1>3, <1>7 DEF Holds, Pending
<1>8. retry_counts'[t] = MaxRetries
      /\ \A u \in Tasks : u # t => retry_counts'[u] = retry_counts[u]
  BY <1>4 DEF AppTypeOK
<1>9. QueueSame
  <2>1. Leaving' = Leaving
    BY DEF Leaving
  <2> QED BY <1>4, <2>1, QueueAlone
<1> QED BY <1>3, <1>4, <1>5, <1>6, <1>7, <1>8, <1>9, <1>10

(* The queue after a task has been recorded. *)
LEMMA RecordEffect ==
  ASSUME AppTypeOK, NEW t \in Tasks, TaskRecorded(t)
  PROVE  /\ Queued(t)
         /\ \A u \in Tasks : u # t => (Queued(u)' <=> Queued(u))
         /\ DistinctQueue => ~Queued(t)'
         /\ running_tasks'[t] # None
         /\ \A u \in Tasks : u # t => running_tasks'[u] = running_tasks[u]
         /\ HeldSame
         /\ UNCHANGED <<pending_tasks, call, completed_tasks, gone, submitted_at, retry_counts>>
<1>1. PICK i \in 1 .. Len(pending_tasks) \ Leaving :
        pending_tasks[i] = t /\ Leaving' = Leaving \cup {i}
  BY DEF TaskRecorded
<1>2. /\ UNCHANGED <<pending_tasks, call, completed_tasks, gone, submitted_at, retry_counts>>
      /\ HeldSame
  BY DEF TaskRecorded
<1>3. PICK e \in LiveTask : running_tasks' = [running_tasks EXCEPT ![t] = e]
  BY DEF TaskRecorded
<1>4. running_tasks'[t] # None
      /\ \A u \in Tasks : u # t => running_tasks'[u] = running_tasks[u]
  BY <1>3, NoneAssumption DEF AppTypeOK
<1>5. Queued(t) /\ \A u \in Tasks : u # t => (Queued(u)' <=> Queued(u))
  BY <1>1, <1>2 DEF Queued, Positions
<1>6. DistinctQueue => ~Queued(t)'
  BY <1>1, <1>2 DEF DistinctQueue, Queued, Positions
<1> QED BY <1>2, <1>4, <1>5, <1>6

-----------------------------------------------------------------------------
(* A call that goes on keeps its task where it is, takes it from the       *)
(* running map, or writes over the map what is not in it.                  *)
LEMMA GoesOnMoves ==
  ASSUME AppTypeOK, NEW p \in Procs, GoesOn(p), UNCHANGED <<sched, session>>
  PROVE  /\ OthersSame(p) /\ QueueSame
         /\ UNCHANGED <<completed_tasks, gone, submitted_at>>
         /\ \E t \in Tasks :
              /\ \A u : u # t => ~Holds(p, u) /\ ~Holds(p, u)'
              /\ Holds(p, t) \/ t \in Pending(p)
              /\ Holds(p, t) => Holds(p, t)'
              /\ \/ UNCHANGED running_tasks /\ (Holds(p, t)' <=> Holds(p, t))
                 \/ running_tasks' = [running_tasks EXCEPT ![t] = None] /\ Holds(p, t)'
<1>1. /\ UNCHANGED <<pending_tasks, submitted_at, completed_tasks, gone>>
      /\ \A q \in Procs : q # p => call'[q] = call[q]
      /\ call[p] # None /\ call'[p] # None
  BY CallGoesOn
<1>2. PICK t \in Tasks :
        /\ call[p].task = t /\ call'[p].task = t
        /\ \/ UNCHANGED running_tasks /\ Pending(p)' = Pending(p)
           \/ running_tasks' = [running_tasks EXCEPT ![t] = None] /\ Pending(p)' = {}
  BY CallGoesOn
<1>3. OthersSame(p)
  BY <1>1, OnlyOne
<1>4. QueueSame
  <2>1. Leaving' = Leaving
    BY DEF Leaving
  <2> QED BY <1>1, <2>1, QueueAlone
<1>5. \A u : u # t => ~Holds(p, u) /\ ~Holds(p, u)'
  BY <1>2 DEF Holds
<1>6. (Holds(p, t) <=> t \notin Pending(p)) /\ (Holds(p, t)' <=> t \notin Pending(p)')
  BY <1>1, <1>2 DEF Holds
<1> QED BY <1>1, <1>2, <1>3, <1>4, <1>5, <1>6

(* A task comes to be somewhere, or on a list, by its submission only. *)
LEMMA UntouchedNext ==
  ASSUME IInv, SubmittedInv, UntouchedInv, [Next]_vars
  PROVE  UntouchedInv'
<1> USE DEF IInv, TypeOK
<1> DEFINE Fine == \A u \in Tasks : submitted_at'[u] = 0 =>
                     ~Elsewhere(u)' /\ submitted_at[u] = 0
<1>1. ASSUME NEW t \in Tasks,
             \/ Queued(t) \/ running_tasks[t] # None \/ t \in Listed \/ Held(t)
      PROVE  submitted_at[t] # 0
  BY <1>1 DEF SubmittedInv, UntouchedInv, Queued, Positions, Elsewhere
<1>2. ASSUME UNCHANGED submitted_at,
             \A u \in Tasks : Elsewhere(u)' => Elsewhere(u) \/ submitted_at[u] # 0
      PROVE  Fine
  BY <1>2 DEF UntouchedInv
<1>6. ASSUME HeldSame PROVE \A u \in Tasks : Held(u)' <=> Held(u)
  BY <1>6 DEF HeldSame, Held
<1>7. ASSUME NEW p \in Procs, NEW t \in Tasks, OthersSame(p),
             \A u : Holds(p, u)' => u = t
      PROVE  \A u \in Tasks : u # t => (Held(u)' => Held(u))
  BY <1>7 DEF OthersSame, Held
<1>3. Fine
  <2>1. CASE Still
    BY <1>6, <2>1 DEF Still, UntouchedInv, Elsewhere, Completed
  <2>2. ASSUME NEW t \in Tasks, TaskRecorded(t) PROVE Fine
    <3>1. submitted_at[t] # 0
      BY <1>1, <2>2, RecordEffect
    <3>2. HeldSame /\ UNCHANGED <<completed_tasks, gone, submitted_at>>
          /\ \A u \in Tasks : u # t => running_tasks'[u] = running_tasks[u]
      BY <2>2, RecordEffect
    <3> QED BY <1>2, <1>6, <3>1, <3>2 DEF Elsewhere, Completed
  <2>3. ASSUME NEW p \in Procs, NEW t \in Tasks, Taken(p, t) PROVE Fine
    <3>1. submitted_at[t] # 0
      BY <1>1, <2>3 DEF Taken, Takes
    <3>2. \A u \in Tasks : u # t => running_tasks'[u] = running_tasks[u]
      BY <2>3 DEF Taken, Takes, AppTypeOK
    <3>3. call'[p].task = t
      BY <2>3, CallIs DEF Taken, Takes
    <3>4. \A u \in Tasks : u # t => (Held(u)' => Held(u))
      <4>1. \A u : Holds(p, u)' => u = t
        BY <3>3 DEF Holds
      <4>2. OthersSame(p)
        BY <2>3 DEF Taken
      <4> QED BY <1>7, <4>1, <4>2
    <3>5. UNCHANGED <<completed_tasks, gone, submitted_at>>
      BY <2>3 DEF Taken
    <3> QED BY <1>2, <3>1, <3>2, <3>4, <3>5 DEF Elsewhere, Completed
  <2>8. ASSUME NEW p \in Procs, GoesOn(p), UNCHANGED <<sched, session>> PROVE Fine
    <3>1. OthersSame(p) /\ UNCHANGED <<completed_tasks, gone, submitted_at>>
      BY <2>8, GoesOnMoves
    <3>2. PICK t \in Tasks :
            /\ \A u : u # t => ~Holds(p, u) /\ ~Holds(p, u)'
            /\ Holds(p, t) \/ t \in Pending(p)
            /\ \/ UNCHANGED running_tasks
               \/ running_tasks' = [running_tasks EXCEPT ![t] = None]
      BY <2>8, GoesOnMoves
    <3>3. submitted_at[t] # 0
      <4>1. Held(t) \/ t \in Listed
        BY <3>2 DEF Held, Listed
      <4> QED BY <1>1, <4>1
    <3>4. \A u \in Tasks : u # t => (Held(u)' => Held(u))
      BY <1>7, <3>1, <3>2
    <3>5. \A u \in Tasks : u # t => running_tasks'[u] = running_tasks[u]
      BY <3>2 DEF AppTypeOK
    <3> QED BY <1>2, <3>1, <3>3, <3>4, <3>5 DEF Elsewhere, Completed
  <2>4. ASSUME NEW p \in Procs, Push(p), UNCHANGED <<sched, session>> PROVE Fine
    <3>1. /\ UNCHANGED <<running_tasks, completed_tasks, gone, submitted_at>>
          /\ call'[p] = None /\ OthersSame(p)
      BY <2>4, PushEffect
    <3>2. \A u \in Tasks : Held(u)' => Held(u)
      BY <3>1, NoCallHoldsNoneNext DEF Held, OthersSame
    <3> QED BY <3>1, <3>2 DEF UntouchedInv, Elsewhere, Completed
  <2>5. ASSUME NEW p \in Procs, Done(p), UNCHANGED <<sched, session>> PROVE Fine
    <3>1. /\ UNCHANGED <<running_tasks, submitted_at>>
          /\ call'[p] = None /\ OthersSame(p)
          /\ Holds(p, call[p].task)
      BY <2>5, DoneEffect
    <3>2. \A u \in gone' \ gone : Completed(u) \/ u = call[p].task
      BY <2>5, DoneEffect
    <3>3. \A u : Completed(u)' => Completed(u) \/ u = call[p].task
      BY <2>5, DoneEffect
    <3>4. Held(call[p].task) /\ \A u \in Tasks : Held(u)' => Held(u)
      BY <3>1, NoCallHoldsNoneNext DEF Held, OthersSame
    <3> QED BY <3>1, <3>2, <3>3, <3>4 DEF UntouchedInv, Elsewhere
  <2>6. ASSUME NEW t \in Tasks, SubmitTask(t), UNCHANGED <<sched, session>> PROVE Fine
    <3>1. /\ submitted_at'[t] # 0
          /\ \A u \in Tasks : u # t => submitted_at'[u] = submitted_at[u]
          /\ UNCHANGED <<running_tasks, completed_tasks, gone>>
      BY <2>6, SubmitEffect
    <3>2. \A u \in Tasks : u # t => (Held(u)' => Held(u))
      <4>1. OthersSame(t) /\ (\A u : Holds(t, u)' => u = t) /\ t \in Procs
        BY <2>6, SubmitEffect
      <4> QED BY <1>7, <4>1
    <3> QED BY <3>1, <3>2 DEF UntouchedInv, Elsewhere, Completed
  <2>7. ASSUME NEW t \in Tasks, CancelTask(t), UNCHANGED <<sched, session>> PROVE Fine
    <3>1. submitted_at[t] # 0
      BY <1>1, <2>7, CancelEffect
    <3>2. /\ gone' = gone \cup {t} /\ HeldSame
          /\ UNCHANGED <<running_tasks, completed_tasks, submitted_at>>
      BY <2>7, CancelEffect
    <3> QED BY <1>2, <1>6, <3>1, <3>2 DEF Elsewhere, Completed
  <2> HIDE DEF Fine
  <2> QED BY <2>1, <2>2, <2>3, <2>4, <2>5, <2>6, <2>7, <2>8, NextKinds
<1>4. \A u \in Tasks : submitted_at'[u] = 0 => u \notin Listed'
  BY <1>1, <1>3, ListedWereRunning
<1> QED BY <1>3, <1>4 DEF UntouchedInv

-----------------------------------------------------------------------------
(* One place at a time *)

DistinctCalls ==
  \A p, q \in Procs, t \in Tasks : Holds(p, t) /\ Holds(q, t) => p = q

Apart(t) ==
  /\ Queued(t) => ~Elsewhere(t)
  /\ running_tasks[t] # None => ~Completed(t) /\ ~Held(t) /\ t \notin gone
  /\ Completed(t) => ~Held(t) /\ t \notin gone
  /\ Held(t) => t \notin gone

LEMMA PlaceParts ==
  PlaceInv <=> DistinctQueue /\ DistinctCompleted /\ DistinctCalls /\ \A t \in Tasks : Apart(t)
BY DEF PlaceInv, DistinctQueue, DistinctCompleted, DistinctCalls, Apart

(* The dispatcher takes a task from the queue to the running map. *)
LEMMA RecordedApart ==
  ASSUME AppTypeOK, PlaceInv, NEW t \in Tasks, TaskRecorded(t)
  PROVE  PlaceInv'
<1>1. DistinctQueue /\ DistinctCompleted /\ DistinctCalls /\ \A u \in Tasks : Apart(u)
  BY PlaceParts
<1>2. UNCHANGED <<pending_tasks, completed_tasks, gone>> /\ HeldSame
  BY RecordEffect
<1>3. DistinctQueue' /\ DistinctCompleted' /\ DistinctCalls'
  BY <1>1, <1>2 DEF DistinctQueue, DistinctCompleted, DistinctCalls, HeldSame
<1>6. \A u \in Tasks : (Held(u)' <=> Held(u)) /\ (Completed(u)' <=> Completed(u))
  BY <1>2 DEF HeldSame, Held, Completed
<1>4. Queued(t) /\ ~Queued(t)'
  BY <1>1, RecordEffect
<1>5. ASSUME NEW u \in Tasks PROVE Apart(u)'
  <2>1. CASE u = t
    BY <1>1, <1>2, <1>4, <1>6, <2>1 DEF Apart, Elsewhere
  <2>2. CASE u # t
    <3>1. (Queued(u)' <=> Queued(u)) /\ running_tasks'[u] = running_tasks[u]
      BY <2>2, RecordEffect
    <3>2. Apart(u)
      BY <1>1
    <3> QED BY <1>2, <1>6, <3>1, <3>2 DEF Apart, Elsewhere
  <2> QED BY <2>1, <2>2
<1> QED BY <1>3, <1>5 DEF PlaceInv, DistinctQueue, DistinctCompleted, DistinctCalls, Apart

(* A step that moves no task. *)
LEMMA Stays ==
  ASSUME PlaceInv, QueueSame, UNCHANGED <<running_tasks, completed_tasks, gone>>,
         \A p \in Procs, t \in Tasks : Holds(p, t)' <=> Holds(p, t)
  PROVE  PlaceInv'
<1>1. DistinctQueue /\ DistinctCompleted /\ DistinctCalls /\ \A u \in Tasks : Apart(u)
  BY PlaceParts
<1>2. DistinctQueue' /\ DistinctCompleted' /\ DistinctCalls'
  BY <1>1 DEF QueueSame, DistinctQueue, DistinctCompleted, DistinctCalls
<1>3. ASSUME NEW u \in Tasks PROVE Apart(u)'
  <2>1. (Queued(u)' <=> Queued(u)) /\ (Held(u)' <=> Held(u)) /\ (Completed(u)' <=> Completed(u))
    BY DEF QueueSame, Held, Completed
  <2>2. Apart(u)
    BY <1>1
  <2> QED BY <2>1, <2>2 DEF Apart, Elsewhere
<1> QED BY <1>2, <1>3 DEF PlaceInv, DistinctQueue, DistinctCompleted, DistinctCalls, Apart

(* A process takes a running task in hand. *)
LEMMA InHand ==
  ASSUME AppTypeOK, PlaceInv, QueueSame, UNCHANGED <<completed_tasks, gone>>,
         NEW p \in Procs, NEW t \in Tasks, OthersSame(p),
         running_tasks[t] # None, running_tasks' = [running_tasks EXCEPT ![t] = None],
         \A u : u # t => ~Holds(p, u)'
  PROVE  PlaceInv'
<1>1. DistinctQueue /\ DistinctCompleted /\ DistinctCalls /\ \A u \in Tasks : Apart(u)
  BY PlaceParts
<1>2. running_tasks'[t] = None
      /\ \A u \in Tasks : u # t => running_tasks'[u] = running_tasks[u]
  BY DEF AppTypeOK
<1>3. ~Completed(t) /\ ~Held(t) /\ t \notin gone /\ ~Queued(t)
  BY <1>1 DEF Apart, Elsewhere
<1>4. DistinctQueue' /\ DistinctCompleted'
  BY <1>1 DEF QueueSame, DistinctQueue, DistinctCompleted
<1>5. \A q \in Procs : q # p => ~Holds(q, t)'
  BY <1>3 DEF Held, OthersSame
<1>6. DistinctCalls'
  <2> SUFFICES ASSUME NEW q \in Procs, NEW r \in Procs, NEW u \in Tasks,
                      Holds(q, u)', Holds(r, u)'
               PROVE  q = r
    BY DEF DistinctCalls
  <2>1. CASE u = t
    BY <1>5, <2>1
  <2>2. CASE u # t
    <3>1. Holds(q, u) /\ Holds(r, u)
      BY <2>2 DEF OthersSame
    <3> QED BY <1>1, <3>1 DEF DistinctCalls
  <2> QED BY <2>1, <2>2
<1>7. ASSUME NEW u \in Tasks PROVE Apart(u)'
  <2>1. (Queued(u)' <=> Queued(u)) /\ (Completed(u)' <=> Completed(u)) /\ gone' = gone
    BY DEF QueueSame, Completed
  <2>2. CASE u = t
    BY <1>2, <1>3, <2>1, <2>2 DEF Apart, Elsewhere
  <2>3. CASE u # t
    <3>1. Held(u)' => Held(u)
      BY <2>3 DEF Held, OthersSame
    <3>2. Apart(u) /\ running_tasks'[u] = running_tasks[u]
      BY <1>1, <1>2, <2>3
    <3> QED BY <2>1, <3>1, <3>2 DEF Apart, Elsewhere
  <2> QED BY <2>2, <2>3
<1> QED BY <1>4, <1>6, <1>7 DEF PlaceInv, DistinctQueue, DistinctCompleted, DistinctCalls, Apart

LEMMA TakenApart ==
  ASSUME AppTypeOK, PlaceInv, NEW p \in Procs, NEW t \in Tasks, Taken(p, t)
  PROVE  PlaceInv'
<1>1. /\ OthersSame(p) /\ QueueSame /\ UNCHANGED <<completed_tasks, gone>>
      /\ running_tasks[t] # None /\ running_tasks' = [running_tasks EXCEPT ![t] = None]
  BY DEF Taken, Takes
<1>2. call'[p].task = t
  BY CallIs DEF Taken, Takes
<1>3. \A u : u # t => ~Holds(p, u)'
  BY <1>2 DEF Holds
<1> QED BY <1>1, <1>3, InHand

(* What a fresh list is about is running, and what a process holds is not. *)
LEMMA GoesOnApart ==
  ASSUME AppTypeOK, PlaceInv, SnapshotsFresh, NEW p \in Procs, GoesOn(p),
         UNCHANGED <<sched, session>>
  PROVE  PlaceInv'
<1>1. OthersSame(p) /\ QueueSame /\ UNCHANGED <<completed_tasks, gone>>
  BY GoesOnMoves
<1>2. PICK t \in Tasks :
        /\ \A u : u # t => ~Holds(p, u) /\ ~Holds(p, u)'
        /\ Holds(p, t) \/ t \in Pending(p)
        /\ Holds(p, t) => Holds(p, t)'
        /\ \/ UNCHANGED running_tasks /\ (Holds(p, t)' <=> Holds(p, t))
           \/ running_tasks' = [running_tasks EXCEPT ![t] = None] /\ Holds(p, t)'
  BY GoesOnMoves
<1>3. CASE UNCHANGED running_tasks /\ (Holds(p, t)' <=> Holds(p, t))
  <2>1. \A q \in Procs, u \in Tasks : Holds(q, u)' <=> Holds(q, u)
    BY <1>1, <1>2, <1>3 DEF OthersSame
  <2> QED BY <1>1, <1>3, <2>1, Stays
<1>4. CASE running_tasks' = [running_tasks EXCEPT ![t] = None] /\ Holds(p, t)
  <2>1. running_tasks[t] = None
    BY <1>4 DEF PlaceInv, Held
  <2>2. UNCHANGED running_tasks
    BY <1>4, <2>1 DEF AppTypeOK
  <2> QED BY <1>2, <1>3, <1>4, <2>2
<1>5. CASE running_tasks' = [running_tasks EXCEPT ![t] = None] /\ t \in Pending(p)
  <2>1. running_tasks[t] # None
    BY <1>5 DEF SnapshotsFresh, Listed
  <2> QED BY <1>1, <1>2, <1>5, <2>1, InHand
<1> QED BY <1>2, <1>3, <1>4, <1>5

(* A call ends: no other process has its task in hand. *)
LEMMA CallEnds ==
  ASSUME DistinctCalls, NEW p \in Procs, NEW t \in Tasks, Holds(p, t), call'[p] = None,
         OthersSame(p)
  PROVE  /\ DistinctCalls'
         /\ Held(t)
         /\ \A u \in Tasks : Held(u)' => Held(u) /\ u # t
<1>1. \A u : ~Holds(p, u)'
  BY NoCallHoldsNoneNext
<1>2. \A q \in Procs, u \in Tasks : Holds(q, u)' => Holds(q, u) /\ q # p
  BY <1>1 DEF OthersSame
<1> QED BY <1>2 DEF DistinctCalls, Held

LEMMA PushApart ==
  ASSUME AppTypeOK, SchedTypeOK, ScanInv, PlaceInv, NEW p \in Procs, Push(p),
         UNCHANGED <<sched, session>>
  PROVE  PlaceInv'
<1>1. DistinctQueue /\ DistinctCompleted /\ DistinctCalls /\ \A u \in Tasks : Apart(u)
  BY PlaceParts
<1>2. PICK t \in Tasks : t = call[p].task
  BY PushEffect
<1>3. /\ Holds(p, t) /\ call'[p] = None /\ OthersSame(p)
      /\ \A u \in Tasks : u # t => (Queued(u)' <=> Queued(u))
      /\ DistinctQueue /\ ~Queued(t) => DistinctQueue'
      /\ UNCHANGED <<running_tasks, completed_tasks, gone>>
  BY <1>2, PushEffect
<1>4. DistinctCalls' /\ Held(t) /\ \A u \in Tasks : Held(u)' => Held(u) /\ u # t
  BY <1>1, <1>3, CallEnds
<1>5. ~Queued(t) /\ running_tasks[t] = None /\ ~Completed(t) /\ t \notin gone
  BY <1>1, <1>4 DEF Apart, Elsewhere
<1>6. DistinctQueue' /\ DistinctCompleted'
  BY <1>1, <1>3, <1>5 DEF DistinctCompleted
<1>7. ASSUME NEW u \in Tasks PROVE Apart(u)'
  <2>1. (Completed(u)' <=> Completed(u)) /\ gone' = gone /\ running_tasks'[u] = running_tasks[u]
    BY <1>3 DEF Completed
  <2>2. CASE u = t
    BY <1>4, <1>5, <2>1, <2>2 DEF Apart, Elsewhere
  <2>3. CASE u # t
    <3>1. Apart(u) /\ (Queued(u)' <=> Queued(u)) /\ (Held(u)' => Held(u))
      BY <1>1, <1>3, <1>4, <2>3
    <3> QED BY <2>1, <3>1 DEF Apart, Elsewhere
  <2> QED BY <2>2, <2>3
<1> QED BY <1>4, <1>6, <1>7 DEF PlaceInv, DistinctQueue, DistinctCompleted, DistinctCalls, Apart

LEMMA DoneApart ==
  ASSUME AppTypeOK, PlaceInv, NEW p \in Procs, Done(p), UNCHANGED <<sched, session>>
  PROVE  PlaceInv'
<1> DEFINE t == call[p].task
<1>1. DistinctQueue /\ DistinctCompleted /\ DistinctCalls /\ \A u \in Tasks : Apart(u)
  BY PlaceParts
<1>2. /\ Holds(p, t) /\ t \in Tasks
      /\ call'[p] = None /\ OthersSame(p)
  BY DoneEffect DEF Finishing
<1>3. DistinctCalls' /\ Held(t) /\ \A u \in Tasks : Held(u)' => Held(u) /\ u # t
  BY <1>1, <1>2, CallEnds
<1>4. ~Queued(t) /\ running_tasks[t] = None /\ ~Completed(t) /\ t \notin gone
  BY <1>1, <1>2, <1>3 DEF Apart, Elsewhere
<1>5. DistinctCompleted' /\ \A u \in gone' \ gone : ~Completed(u)'
  BY <1>1, <1>4, DoneEffect
<1>6. DistinctQueue' /\ \A u \in Tasks : Queued(u)' <=> Queued(u)
  BY <1>1, DoneEffect DEF QueueSame, DistinctQueue
<1>7. /\ \A u : Completed(u)' => Completed(u) \/ u = t
      /\ \A u \in gone' \ gone : Completed(u) \/ u = t
      /\ UNCHANGED running_tasks
  BY DoneEffect
<1>8. ASSUME NEW u \in Tasks PROVE Apart(u)'
  <2>1. CASE u = t
    <3>1. ~Queued(u)' /\ running_tasks'[u] = None /\ ~Held(u)'
      BY <1>3, <1>4, <1>6, <1>7, <2>1
    <3>2. Completed(u)' => u \notin gone'
      BY <1>4, <1>5, <2>1
    <3> QED BY <3>1, <3>2 DEF Apart
  <2>2. CASE u # t
    <3>1. Apart(u) /\ (Queued(u)' <=> Queued(u)) /\ (Held(u)' => Held(u))
          /\ running_tasks'[u] = running_tasks[u]
      BY <1>1, <1>3, <1>6, <1>7, <2>2
    <3>2. (Completed(u)' => Completed(u)) /\ (u \in gone' \ gone => Completed(u))
      BY <1>7, <2>2
    <3>3. Completed(u)' => u \notin gone' \ gone
      BY <1>5
    <3> QED BY <3>1, <3>2, <3>3 DEF Apart, Elsewhere
  <2> QED BY <2>1, <2>2
<1> QED BY <1>3, <1>5, <1>6, <1>8
        DEF PlaceInv, DistinctQueue, DistinctCompleted, DistinctCalls, Apart

LEMMA SubmitApart ==
  ASSUME AppTypeOK, HandlerInv, SubmittedInv, UntouchedInv, PlaceInv,
         NEW t \in Tasks, SubmitTask(t), UNCHANGED <<sched, session>>
  PROVE  PlaceInv'
<1>1. DistinctQueue /\ DistinctCompleted /\ DistinctCalls /\ \A u \in Tasks : Apart(u)
  BY PlaceParts
<1>2. /\ t \in Procs /\ submitted_at[t] = 0
      /\ (\A u : Holds(t, u)' <=> u = t) /\ OthersSame(t)
      /\ UNCHANGED <<pending_tasks, running_tasks, completed_tasks, gone>>
  BY SubmitEffect
<1>3. ~Queued(t) /\ ~Elsewhere(t)
  BY <1>2 DEF UntouchedInv, SubmittedInv, Queued, Positions
<1>4. \A u \in Tasks : Queued(u)' <=> Queued(u)
  BY SubmitEffect DEF QueueSame
<1>5. DistinctQueue' /\ DistinctCompleted'
  BY <1>1, <1>2 DEF DistinctQueue, DistinctCompleted
<1>6. DistinctCalls'
  <2>1. \A q \in Procs : q # t => ~Holds(q, t)'
    BY <1>2, <1>3 DEF Held, Elsewhere, OthersSame
  <2>2. \A q \in Procs, u \in Tasks : u # t /\ Holds(q, u)' => Holds(q, u)
    BY <1>2 DEF OthersSame
  <2>3. \A q, r \in Procs, u \in Tasks : Holds(q, u)' /\ Holds(r, u)' => q = r
    BY <1>1, <2>1, <2>2 DEF DistinctCalls
  <2> QED BY <2>3 DEF DistinctCalls
<1>7. ASSUME NEW u \in Tasks PROVE Apart(u)'
  <2>1. (Queued(u)' <=> Queued(u)) /\ (Completed(u)' <=> Completed(u)) /\ gone' = gone
        /\ running_tasks'[u] = running_tasks[u]
    BY <1>2, <1>4 DEF Completed
  <2>2. CASE u = t
    BY <1>3, <2>1, <2>2 DEF Apart, Elsewhere
  <2>3. CASE u # t
    <3>1. Held(u)' => Held(u)
      BY <1>2, <2>3 DEF Held, OthersSame
    <3>2. Apart(u)
      BY <1>1
    <3> QED BY <2>1, <3>1, <3>2 DEF Apart, Elsewhere
  <2> QED BY <2>2, <2>3
<1> QED BY <1>5, <1>6, <1>7 DEF PlaceInv, DistinctQueue, DistinctCompleted, DistinctCalls, Apart

LEMMA CancelApart ==
  ASSUME AppTypeOK, SchedTypeOK, ScanInv, PlaceInv,
         NEW t \in Tasks, CancelTask(t), UNCHANGED <<sched, session>>
  PROVE  PlaceInv'
<1>1. DistinctQueue /\ DistinctCompleted /\ DistinctCalls /\ \A u \in Tasks : Apart(u)
  BY PlaceParts
<1>2. /\ Queued(t) /\ ~Queued(t)' /\ DistinctQueue'
      /\ \A u \in Tasks : u # t => (Queued(u)' <=> Queued(u))
      /\ gone' = gone \cup {t}
      /\ UNCHANGED <<running_tasks, completed_tasks>> /\ HeldSame
  BY <1>1, CancelEffect
<1>3. DistinctCompleted' /\ DistinctCalls'
  BY <1>1, <1>2 DEF DistinctCompleted, DistinctCalls, HeldSame
<1>4. ASSUME NEW u \in Tasks PROVE Apart(u)'
  <2>1. (Completed(u)' <=> Completed(u)) /\ (Held(u)' <=> Held(u))
        /\ running_tasks'[u] = running_tasks[u]
    BY <1>2 DEF Completed, Held, HeldSame
  <2>2. Apart(u)
    BY <1>1
  <2>3. CASE u = t
    BY <1>2, <2>1, <2>2, <2>3 DEF Apart, Elsewhere
  <2>4. CASE u # t
    BY <1>2, <2>1, <2>2, <2>4 DEF Apart, Elsewhere
  <2> QED BY <2>3, <2>4
<1> QED BY <1>2, <1>3, <1>4 DEF PlaceInv, DistinctQueue, DistinctCompleted, DistinctCalls, Apart

(* Each step of the system. *)
LEMMA PlaceNext ==
  ASSUME IInv, SubmittedInv, UntouchedInv, PlaceInv, SnapshotsFresh, [Next]_vars
  PROVE  PlaceInv'
<1> USE DEF IInv, TypeOK
<1>1. CASE Still
  BY <1>1, Stays DEF Still, HeldSame
<1>2. CASE \E t \in Tasks : TaskRecorded(t)
  BY <1>2, RecordedApart
<1>3. CASE \E p \in Procs, t \in Tasks : Taken(p, t)
  BY <1>3, TakenApart
<1>4. CASE \E p \in Procs : /\ GoesOn(p) \/ Push(p) \/ Done(p)
                            /\ UNCHANGED <<sched, session, monitor>>
  BY <1>4, GoesOnApart, PushApart, DoneApart
<1>5. CASE \E t \in Tasks : /\ SubmitTask(t) \/ CancelTask(t)
                            /\ UNCHANGED <<sched, session, monitor>>
  BY <1>5, SubmitApart, CancelApart
<1> QED BY <1>1, <1>2, <1>3, <1>4, <1>5, NextKinds

(* A set of at most one element counts 0 or 1. *)
LEMMA AtMostOne ==
  ASSUME NEW S, \A x, y \in S : x = y
  PROVE  Cardinality(S) = IF S = {} THEN 0 ELSE 1
<1>1. CASE S = {}
  BY <1>1, FS_EmptySet
<1>2. CASE S # {}
  <2>1. PICK x \in S : TRUE
    BY <1>2
  <2>2. S = {x}
    BY <2>1
  <2>3. Cardinality({x}) = 1
    BY FS_Singleton
  <2> QED BY <1>2, <2>2, <2>3
<1> QED BY <1>1, <1>2

(* At most one place, and at least one, make one. *)
LEMMA OnePlace ==
  ASSUME PlaceInv, NoTaskLost
  PROVE  SinglePlace
<1> SUFFICES ASSUME NEW t \in Tasks, submitted_at[t] # 0
             PROVE  Places(t) = 1
  BY DEF SinglePlace
<1>1. Apart(t)
  BY PlaceParts
<1>2. Cardinality(Positions(t)) = IF Queued(t) THEN 1 ELSE 0
  <2>1. \A x, y \in Positions(t) : x = y
    BY DEF PlaceInv, Positions
  <2>2. Cardinality(Positions(t)) = IF Positions(t) = {} THEN 0 ELSE 1
    BY <2>1, AtMostOne
  <2> QED BY <2>2 DEF Queued
<1> DEFINE C == {i \in 1 .. Len(completed_tasks) : completed_tasks[i].task = t}
           H == {p \in Procs : Holds(p, t)}
<1>3. Cardinality(C) = IF Completed(t) THEN 1 ELSE 0
  <2>1. \A x, y \in C : x = y
    BY DEF PlaceInv
  <2>2. C = {} <=> ~Completed(t)
    BY DEF Completed
  <2> HIDE DEF C
  <2>3. Cardinality(C) = IF C = {} THEN 0 ELSE 1
    BY <2>1, AtMostOne
  <2> QED BY <2>2, <2>3
<1>4. Cardinality(H) = IF Held(t) THEN 1 ELSE 0
  <2>1. \A x, y \in H : x = y
    BY DEF PlaceInv
  <2>2. H = {} <=> ~Held(t)
    BY DEF Held
  <2> HIDE DEF H
  <2>3. Cardinality(H) = IF H = {} THEN 0 ELSE 1
    BY <2>1, AtMostOne
  <2> QED BY <2>2, <2>3
<1>5. Places(t) = (IF Queued(t) THEN 1 ELSE 0) + (IF Completed(t) THEN 1 ELSE 0)
                    + (IF Held(t) THEN 1 ELSE 0)
                    + (IF running_tasks[t] # None THEN 1 ELSE 0)
                    + (IF t \in gone THEN 1 ELSE 0)
  BY <1>2, <1>3, <1>4 DEF Places
<1>6. Accounted(t)
  BY DEF NoTaskLost
<1> HIDE DEF C, H
<1> QED BY <1>1, <1>5, <1>6 DEF Apart, Elsewhere, Accounted

(* The first state: no task is anywhere. *)
LEMMA InitPlaces ==
  ASSUME Init
  PROVE  SubmittedInv /\ UntouchedInv /\ PlaceInv
<1>1. SubmittedInv
  BY DEF Init, AppInit, SubmittedInv
<1>2. /\ pending_tasks = <<>> /\ completed_tasks = <<>> /\ gone = {}
      /\ running_tasks = [t \in Tasks |-> None] /\ call = [p \in Procs |-> None]
      /\ session = [s \in Sessions |-> At("new")] /\ monitor.todo = {}
  BY DEF Init, AppInit, WsInit, MonitorInit, Round
<1>3. \A t \in Tasks : ~Elsewhere(t) /\ ~Queued(t)
  BY <1>2 DEF Elsewhere, Completed, Held, Holds, Queued, Positions
<1>4. UntouchedInv
  <2>1. \A p \in Procs : Pending(p) = {}
    BY <1>2 DEF Pending
  <2>2. \A s \in Sessions : session[s].todo = {}
    BY <1>2 DEF At
  <2>3. \A t : t \notin Listed
    BY <1>2, <2>1, <2>2 DEF Listed
  <2> QED BY <1>3, <2>3 DEF UntouchedInv
<1>5. PlaceInv
  BY <1>2, <1>3 DEF PlaceInv, Elsewhere, Holds
<1> QED BY <1>1, <1>4, <1>5

(* The tasks that are somewhere, or on a list, have been submitted. *)
LEMMA SubmittedHolds == Spec => [](SubmittedInv /\ UntouchedInv)
<1>1. Init => QueueOrdered /\ SubmittedInv /\ UntouchedInv
  <2> SUFFICES ASSUME Init PROVE QueueOrdered /\ SubmittedInv /\ UntouchedInv
    OBVIOUS
  <2>1. QueueOrdered
    BY DEF Init, AppInit, QueueOrdered
  <2> QED BY <2>1, InitPlaces
<1>2. IInv /\ (QueueOrdered /\ SubmittedInv /\ UntouchedInv) /\ [Next]_vars
        => (QueueOrdered /\ SubmittedInv /\ UntouchedInv)'
  BY NextOrders, UntouchedNext
<1> QED BY <1>1, <1>2, InvariantHolds, PTL DEF Spec

LEMMA PlacesHold == Spec /\ []SnapshotsFresh => []PlaceInv
<1>1. Init => PlaceInv
  BY InitPlaces
<1>2. IInv /\ (SubmittedInv /\ UntouchedInv) /\ PlaceInv /\ SnapshotsFresh /\ [Next]_vars
        => PlaceInv'
  BY PlaceNext
<1> QED BY <1>1, <1>2, InvariantHolds, SubmittedHolds, PTL DEF Spec

(* A task is in one place, whatever breaks, is stopped, cancelled, retried *)
(* or refused, and however the dispatcher, the handlers, the monitor and   *)
(* the clients interleave, as long as no handler requeues a task that it   *)
(* listed and another one has taken from the running map meanwhile.        *)
THEOREM PlaceHolds == Spec /\ []SnapshotsFresh => []SinglePlace
<1>1. PlaceInv /\ NoTaskLost => SinglePlace
  BY OnePlace
<1> QED BY <1>1, PlacesHold, NothingLost, PTL
=============================================================================
