---------------------------- MODULE DrainProofs ----------------------------
(***************************************************************************)
(* A node that said Draining is not Online or Busy again.  The heartbeat   *)
(* task hands Draining to the connection last of all it says, a connection *)
(* is FIFO, and the status is lost when the server stops reading it.       *)
(***************************************************************************)
EXTENDS ClusterProofs

(* No node becomes Draining, and one that is goes Offline at most. *)
StatusHeld ==
  \A n \in Nodes : /\ Draining(n)' => Draining(n)
                   /\ Draining(n) => nodes'[n].status \in {"Draining", "Offline"}

(* Neither the load nor the status Offline brings a node back. *)
LEMMA HelpersHold ==
  ASSUME AppTypeOK, NEW n \in Nodes,
         \/ UNCHANGED nodes
         \/ nodes' = WithStatus(n, "Offline")
         \/ nodes' = IncrementActive(n)
         \/ nodes' = DecrementActive(n)
  PROVE  StatusHeld
<1>1. nodes \in [Nodes -> NodeInfo \cup {None}] /\ None \notin NodeInfo
  BY NoneAssumption DEF AppTypeOK
<1>2. ASSUME NEW k \in Nat, nodes' = WithActive(n, k) PROVE StatusHeld
  BY <1>1, <1>2 DEF WithActive, NodeInfo, StatusHeld, Draining
<1>3. nodes[n] # None => nodes[n].active \in Nat
  BY <1>1 DEF NodeInfo
<1>4. CASE UNCHANGED nodes
  BY <1>4 DEF StatusHeld, Draining
<1>5. CASE nodes' = WithStatus(n, "Offline")
  BY <1>1, <1>5 DEF WithStatus, NodeInfo, StatusHeld, Draining
<1>6. CASE nodes' = IncrementActive(n)
  <2> DEFINE k == IF nodes[n] = None THEN 0 ELSE nodes[n].active + 1
  <2>1. k \in Nat
    BY <1>3
  <2> QED BY <1>2, <1>6, <2>1 DEF IncrementActive
<1>7. CASE nodes' = DecrementActive(n)
  <2> DEFINE k == IF nodes[n] = None \/ nodes[n].active = 0 THEN 0 ELSE nodes[n].active - 1
  <2>1. k \in Nat
    BY <1>3
  <2> QED BY <1>2, <1>7, <2>1 DEF DecrementActive
<1> QED BY <1>4, <1>5, <1>6, <1>7

(* The dispatcher and the monitor change the load of a node, take it       *)
(* Offline, or find it late.                                               *)
LEMMA ServerHolds ==
  ASSUME TypeOK, ScanInv,
         SchedNext \/ MonitorNext \/ (\E n \in Nodes : Silence(n)) \/ UNCHANGED nodes
  PROVE  StatusHeld
<1> USE DEF TypeOK, nodeVars, stateVars
<1>1. CASE \E n \in Nodes : \/ UNCHANGED nodes
                            \/ nodes' = WithStatus(n, "Offline")
                            \/ nodes' = IncrementActive(n)
  BY <1>1, HelpersHold
<1>2. CASE SchedNext
  <2>1. CASE \/ Lock \/ Skip \/ Recruit \/ RecordMpi \/ RegisterJob \/ AbortDispatch
             \/ Sweep \/ Unlock
    <3>1. UNCHANGED nodes
      BY <2>1 DEF Lock, Skip, Recruit, RecruitNodes, RecordMpi, RegisterJob, AbortDispatch,
                  Sweep, Unlock
    <3> QED BY <3>1 DEF StatusHeld, Draining
  <2>2. CASE Send
    <3>1. PICK t \in Tasks, n \in Nodes : SendTask(t, n)
      BY <2>2, IdsAssumption DEF Send, Eligible
    <3> QED BY <1>1, <3>1 DEF SendTask
  <2>3. CASE Record
    <3>1. sched.targets[1] \in Nodes
      BY <2>3 DEF Record, ScanInv, SchedTypeOK, SchedState
    <3> QED BY <1>1, <2>3, <3>1 DEF Record
  <2>4. CASE SendSlot
    <3>1. sched.targets[sched.rank + 1] \in Nodes
      BY <2>4 DEF SendSlot, SchedTypeOK, SchedState
    <3> QED BY <1>1, <2>4, <3>1 DEF SendSlot
  <2> QED BY <1>2, <2>1, <2>2, <2>3, <2>4 DEF SchedNext
<1>3. CASE MonitorNext
  <2>1. CASE NextDead
    <3>1. monitor.dead \subseteq Nodes
      BY DEF MonitorTypeOK, MonitorState
    <3> QED BY <1>1, <2>1, <3>1 DEF NextDead
  <2>2. CASE Tick \/ RequeueOne \/ NextPhase
    <3>1. UNCHANGED nodes
      BY <2>2 DEF Tick, RequeueOne, NextPhase
    <3> QED BY <3>1 DEF StatusHeld, Draining
  <2> QED BY <1>3, <2>1, <2>2 DEF MonitorNext
<1>4. CASE \E n \in Nodes : Silence(n)
  <2>1. PICK n \in Nodes : Silence(n)
    BY <1>4
  <2>2. nodes \in [Nodes -> NodeInfo \cup {None}] /\ None \notin NodeInfo /\ nodes[n] # None
        /\ nodes' = [nodes EXCEPT ![n].stale = TRUE]
    BY <2>1, NoneAssumption DEF Silence, AppTypeOK
  <2> QED BY <2>2 DEF NodeInfo, StatusHeld, Draining
<1>5. CASE UNCHANGED nodes
  BY <1>5 DEF StatusHeld, Draining
<1> QED BY <1>2, <1>3, <1>4, <1>5

(* A handler, but for the three messages that are about the status. *)
LEMMA HandlerHolds ==
  ASSUME TypeOK, NEW s \in Sessions, WsNext(s)
  PROVE  OnRegister(s) \/ OnHeartbeat(s) \/ OnDraining(s) \/ StatusHeld
<1> USE DEF TypeOK, nodeVars, stateVars
<1>1. NodeOf[s] \in Nodes
  BY IdsAssumption
<1>2. CASE OnTaskResult(s) \/ OnTaskError(s) \/ Answered(s)
  <2>1. UNCHANGED nodes \/ nodes' = DecrementActive(NodeOf[s])
    BY <1>2 DEF OnTaskResult, OnTaskError, Answered
  <2> QED BY <1>1, <2>1, HelpersHold
<1>3. CASE OnMpiRankResult(s) \/ OnMpiRankError(s) \/ Finalize(s) \/ Finalized(s)
  <2>1. UNCHANGED nodes \/ nodes' = DecrementActive(NodeOf[s])
    BY <1>3 DEF OnMpiRankResult, OnMpiRankError, Finalize, Finalized
  <2> QED BY <1>1, <2>1, HelpersHold
<1>4. CASE OnClose(s) \/ RequeueLost(s) \/ LostRequeued(s)
  <2>1. UNCHANGED nodes \/ nodes' = WithStatus(NodeOf[s], "Offline")
    BY <1>4 DEF OnClose, RequeueLost, LostRequeued
  <2> QED BY <1>1, <2>1, HelpersHold
<1> QED BY <1>2, <1>3, <1>4 DEF WsNext

-----------------------------------------------------------------------------
(* What a worker or the network does to connection s: nothing, an answer   *)
(* appended, a tick of the heartbeat task, a break, the first connect.     *)
Answering(s) ==
  /\ link[s] = "up"
  /\ UNCHANGED <<link, hb>>
  /\ \E m \in WorkerMessage : /\ m.type \notin {"Register", "Heartbeat", "Draining"}
                             /\ toServer'[s] = Append(toServer[s], m)

Ticking(s) ==
  /\ hb[s]
  /\ UNCHANGED link
  /\ \/ toServer'[s] = toServer[s]
     \/ /\ link[s] = "up"
        /\ \E info \in WorkerMessage :
             /\ info.type = "Heartbeat"
             /\ \/ hb' = hb /\ toServer'[s] = Append(toServer[s], info)
                \/ /\ ~hb'[s]
                   /\ toServer'[s] =
                        Append(Append(toServer[s], info), [type |-> "Draining"])

Breaking(s) ==
  /\ link'[s] = "down"
  /\ hb'[s] = hb[s]
  /\ \E n \in 0 .. Len(toServer[s]) : toServer'[s] = SubSeq(toServer[s], 1, n)

Connecting(s) ==
  /\ link[s] = "idle"
  /\ toServer'[s] = <<[type |-> "Register"]>>

Resting(s) ==
  /\ link'[s] = link[s]
  /\ toServer'[s] = toServer[s]
  /\ hb'[s] => hb[s]

OnItsWay(s) == Resting(s) \/ Answering(s) \/ Ticking(s) \/ Breaking(s) \/ Connecting(s)

(* None of these steps makes a quiet connection speak again, puts anything *)
(* but answers after Draining, or reads a message.                         *)
LEMMA WayKeeps ==
  ASSUME WireTypeOK, WorkerTypeOK, NEW s \in Sessions, OnItsWay(s),
         LastWord(s), RegisterFirst(s), session'[s] = session[s]
  PROVE  (Quiet(s) => Quiet(s)') /\ LastWord(s)' /\ RegisterFirst(s)'
<1>1. /\ toServer[s] \in Seq(WorkerMessage) /\ Len(toServer[s]) \in Nat
      /\ hb[s] \in BOOLEAN /\ link[s] \in {"idle", "up", "down"}
  BY DEF WireTypeOK, WorkerTypeOK
<1> DEFINE q == toServer[s]
<1>2. CASE Resting(s)
  BY <1>2 DEF Resting, Quiet, LastWord, RegisterFirst
<1>3. CASE Answering(s)
  <2> PICK m \in WorkerMessage : /\ m.type \notin {"Register", "Heartbeat", "Draining"}
                                 /\ toServer'[s] = Append(q, m)
    BY <1>3 DEF Answering
  <2>1. /\ Len(Append(q, m)) = Len(q) + 1 /\ Append(q, m)[Len(q) + 1] = m
        /\ \A i \in 1 .. Len(q) : Append(q, m)[i] = q[i]
    BY <1>1
  <2>2. link'[s] = link[s] /\ hb'[s] = hb[s] /\ link[s] = "up"
    BY <1>3 DEF Answering
  <2>3. Quiet(s) => Quiet(s)'
    BY <1>1, <2>1, <2>2 DEF Quiet
  <2>4. LastWord(s)'
    BY <1>1, <2>1, <2>2 DEF LastWord
  <2>5. RegisterFirst(s)'
    <3> SUFFICES ASSUME session[s].pc = "new"
                 PROVE  Append(q, m) # <<>> /\ Head(Append(q, m)).type = "Register"
      BY DEF RegisterFirst
    <3>1. q # <<>> /\ Head(q).type = "Register"
      BY <2>2 DEF RegisterFirst
    <3>2. Append(q, m) \in Seq(WorkerMessage) /\ Len(q) >= 1
      BY <1>1, <3>1
    <3> QED BY <1>1, <2>1, <3>1, <3>2, SameHead
  <2> QED BY <2>3, <2>4, <2>5
<1>4. CASE Ticking(s)
  <2>1. hb[s] /\ link'[s] = link[s]
    BY <1>4 DEF Ticking
  <2>2. ~Quiet(s) /\ \A i \in 1 .. Len(q) : q[i].type # "Draining"
    BY <2>1 DEF Quiet, LastWord
  <2>3. CASE toServer'[s] = q
    BY <2>1, <2>2, <2>3 DEF LastWord, RegisterFirst
  <2>4. ASSUME NEW info \in WorkerMessage, info.type = "Heartbeat", link[s] = "up",
               toServer'[s] = Append(q, info)
        PROVE  LastWord(s)' /\ RegisterFirst(s)'
    <3>1. /\ Len(Append(q, info)) = Len(q) + 1 /\ Append(q, info)[Len(q) + 1] = info
          /\ \A i \in 1 .. Len(q) : Append(q, info)[i] = q[i]
      BY <1>1
    <3>2. LastWord(s)'
      BY <1>1, <2>2, <2>4, <3>1 DEF LastWord
    <3>3. RegisterFirst(s)'
      <4> SUFFICES ASSUME session[s].pc = "new"
                   PROVE  Append(q, info) # <<>> /\ Head(Append(q, info)).type = "Register"
        BY <2>4 DEF RegisterFirst
      <4>1. q # <<>> /\ Head(q).type = "Register"
        BY <2>4 DEF RegisterFirst
      <4>2. Append(q, info) \in Seq(WorkerMessage) /\ Len(q) >= 1
        BY <1>1, <4>1
      <4> QED BY <1>1, <3>1, <4>1, <4>2, SameHead
    <3> QED BY <3>2, <3>3
  <2>5. ASSUME NEW info \in WorkerMessage, info.type = "Heartbeat", link[s] = "up", ~hb'[s],
               toServer'[s] = Append(Append(q, info), [type |-> "Draining"])
        PROVE  LastWord(s)' /\ RegisterFirst(s)'
    <3> DEFINE last == [type |-> "Draining"]
               r == Append(Append(q, info), last)
    <3>1. /\ Len(r) = Len(q) + 2 /\ r[Len(q) + 1] = info /\ r[Len(q) + 2] = last
          /\ \A i \in 1 .. Len(q) : r[i] = q[i]
      BY <1>1 DEF WorkerMessage
    <3>2. LastWord(s)'
      BY <1>1, <2>1, <2>2, <2>5, <3>1 DEF LastWord
    <3>3. RegisterFirst(s)'
      <4> SUFFICES ASSUME session[s].pc = "new"
                   PROVE  r # <<>> /\ Head(r).type = "Register"
        BY <2>5 DEF RegisterFirst
      <4>1. q # <<>> /\ Head(q).type = "Register"
        BY <2>5 DEF RegisterFirst
      <4>2. r \in Seq(WorkerMessage) /\ Len(q) >= 1
        BY <1>1, <4>1 DEF WorkerMessage
      <4>3. Len(r) >= 1 /\ r[1] = q[1]
        BY <1>1, <3>1, <4>2
      <4> HIDE DEF r
      <4> QED BY <1>1, <4>1, <4>2, <4>3, SameHead
    <3> QED BY <3>2, <3>3
  <2> QED BY <1>4, <2>2, <2>3, <2>4, <2>5 DEF Ticking
<1>5. CASE Breaking(s)
  <2> PICK n \in 0 .. Len(q) : toServer'[s] = SubSeq(q, 1, n)
    BY <1>5 DEF Breaking
  <2> DEFINE r == SubSeq(q, 1, n)
  <2>1. Len(r) = n /\ \A i \in 1 .. n : r[i] = q[i]
    BY <1>1
  <2>2. n \in Nat /\ n <= Len(q)
    BY <1>1
  <2>3. link'[s] = "down" /\ hb'[s] = hb[s]
    BY <1>5 DEF Breaking
  <2> HIDE DEF r
  <2>4. Quiet(s) => Quiet(s)'
    BY <1>1, <2>1, <2>2, <2>3 DEF Quiet, r
  <2>5. LastWord(s)'
    BY <1>1, <2>1, <2>2, <2>3 DEF LastWord, r
  <2>6. RegisterFirst(s)'
    <3> SUFFICES ASSUME session[s].pc = "new", r # <<>>
                 PROVE  Head(r).type = "Register"
      BY <2>3 DEF RegisterFirst, r
    <3>1. r \in Seq(WorkerMessage)
      BY <1>1, PrefixType DEF r
    <3>2. n >= 1
      BY <2>1, <2>2, <3>1
    <3>3. q # <<>> /\ Head(q).type = "Register"
      BY <1>1, <2>2, <3>2 DEF RegisterFirst
    <3>4. Len(r) >= 1 /\ r[1] = q[1]
      BY <2>1, <2>2, <3>2
    <3> QED BY <1>1, <3>1, <3>3, <3>4, SameHead
  <2> QED BY <2>4, <2>5, <2>6
<1>6. CASE Connecting(s)
  <2>1. link[s] = "idle" /\ toServer'[s] = <<[type |-> "Register"]>>
    BY <1>6 DEF Connecting
  <2> QED BY <2>1 DEF Quiet, LastWord, RegisterFirst
<1> QED BY <1>2, <1>3, <1>4, <1>5, <1>6 DEF OnItsWay
(* An answer is put after what the connection carries. *)
LEMMA AnswerSent ==
  ASSUME WireTypeOK, NEW s \in Sessions, NEW m \in WorkerMessage,
         m.type \notin {"Register", "Heartbeat", "Draining"},
         toServer' = Sent(s, <<m>>), UNCHANGED <<link, hb>>, NEW r \in Sessions
  PROVE  OnItsWay(r)
<1>1. toServer[s] \in Seq(WorkerMessage) /\ toServer \in [Sessions -> Seq(WorkerMessage)]
  BY DEF WireTypeOK
<1>2. CASE r = s /\ link[s] = "up"
  <2>1. toServer'[s] = toServer[s] \o <<m>>
    BY <1>1, <1>2 DEF Sent
  <2>2. toServer[s] \o <<m>> = Append(toServer[s], m)
    BY <1>1
  <2> QED BY <1>2, <2>1, <2>2 DEF OnItsWay, Answering
<1>3. CASE r # s \/ link[s] # "up"
  BY <1>1, <1>3 DEF Sent, OnItsWay, Resting
<1> QED BY <1>2, <1>3

(* What a worker answers is not about itself. *)
LEMMA AnswerIsNews ==
  ASSUME NEW m, NEW ok \in BOOLEAN
  PROVE  Answer(m, ok).type \notin {"Register", "Heartbeat", "Draining"}
BY DEF Answer, AnswerType

LEMMA BreakIsBreaking ==
  ASSUME WireTypeOK, NEW s \in Sessions, Break(s), UNCHANGED hb, NEW r \in Sessions
  PROVE  OnItsWay(r)
<1>1. /\ toServer \in [Sessions -> Seq(WorkerMessage)]
      /\ link \in [Sessions -> {"idle", "up", "down"}]
  BY DEF WireTypeOK
<1>2. PICK n \in 0 .. Len(toServer[s]) :
        toServer' = [toServer EXCEPT ![s] = SubSeq(toServer[s], 1, n)]
  BY DEF Break
<1>3. link' = [link EXCEPT ![s] = "down"]
  BY DEF Break
<1>4. CASE r = s
  BY <1>1, <1>2, <1>3, <1>4 DEF OnItsWay, Breaking
<1>5. CASE r # s
  BY <1>1, <1>2, <1>3, <1>5 DEF OnItsWay, Resting
<1> QED BY <1>4, <1>5

LEMMA TickIsTicking ==
  ASSUME WireTypeOK, WorkerTypeOK, NEW s \in Sessions, SendHeartbeat(s), NEW r \in Sessions
  PROVE  OnItsWay(r)
<1>1. /\ toServer \in [Sessions -> Seq(WorkerMessage)] /\ hb \in [Sessions -> BOOLEAN]
      /\ beat[s] \in Nat /\ toServer[s] \in Seq(WorkerMessage)
  BY DEF WireTypeOK, WorkerTypeOK, SendHeartbeat
<1> DEFINE info == Heartbeat(s)
           last == [type |-> "Draining"]
<1>2. info \in WorkerMessage /\ last \in WorkerMessage
  BY <1>1 DEF WorkerMessage, Heartbeat
<1>3. /\ hb[s] /\ UNCHANGED link
      /\ \/ toServer' = Sent(s, <<info>>) /\ hb' = hb
         \/ toServer' = Sent(s, <<info, last>>) /\ hb' = [hb EXCEPT ![s] = FALSE]
  BY DEF SendHeartbeat
<1>4. info.type = "Heartbeat"
  BY DEF Heartbeat
<1> HIDE DEF info
<1>5. CASE r # s
  BY <1>1, <1>3, <1>5 DEF Sent, OnItsWay, Resting
<1>6. CASE r = s /\ link[s] # "up"
  BY <1>1, <1>3, <1>6 DEF Sent, OnItsWay, Ticking
<1>7. CASE r = s /\ link[s] = "up"
  <2>1. CASE toServer' = Sent(s, <<info>>) /\ hb' = hb
    <3>1. toServer'[s] = Append(toServer[s], info)
      BY <1>1, <1>2, <1>7, <2>1 DEF Sent
    <3> QED BY <1>2, <1>3, <1>4, <1>7, <2>1, <3>1 DEF OnItsWay, Ticking
  <2>2. CASE toServer' = Sent(s, <<info, last>>) /\ hb' = [hb EXCEPT ![s] = FALSE]
    <3>1. toServer'[s] = toServer[s] \o <<info, last>>
      BY <1>1, <1>7, <2>2 DEF Sent
    <3>2. toServer[s] \o <<info, last>> = Append(Append(toServer[s], info), last)
      BY <1>1, <1>2
    <3>3. ~hb'[s]
      BY <1>1, <2>2
    <3> QED BY <1>2, <1>3, <1>4, <1>7, <3>1, <3>2, <3>3 DEF OnItsWay, Ticking
  <2> QED BY <1>3, <2>1, <2>2
<1> QED BY <1>5, <1>6, <1>7

(* Every step of a worker and of the network is one of these, for every    *)
(* connection.                                                             *)
LEMMA WaysOnly ==
  ASSUME WireTypeOK, WorkerTypeOK, WorkerStep \/ NetworkStep, NEW r \in Sessions
  PROVE  OnItsWay(r)
<1> USE DEF wireVars, workerVars
<1>1. /\ toServer \in [Sessions -> Seq(WorkerMessage)]
      /\ link \in [Sessions -> {"idle", "up", "down"}]
      /\ hb \in [Sessions -> BOOLEAN]
  BY DEF WireTypeOK, WorkerTypeOK
<1>2. ASSUME UNCHANGED <<link, toServer, hb>> PROVE OnItsWay(r)
  BY <1>2 DEF OnItsWay, Resting
<1>3. CASE WorkerStep
  <2>1. CASE \E s \in Sessions : Connect(s)
    <3>1. PICK s \in Sessions : Connect(s)
      BY <2>1
    <3>2. /\ link[s] = "idle" /\ link' = [link EXCEPT ![s] = "up"]
          /\ toServer' = [toServer EXCEPT ![s] = <<[type |-> "Register"]>>]
          /\ hb' = [hb EXCEPT ![s] = TRUE]
      BY <3>1 DEF Connect
    <3>3. CASE r = s
      BY <1>1, <3>2, <3>3 DEF OnItsWay, Connecting
    <3>4. CASE r # s
      BY <1>1, <3>2, <3>4 DEF OnItsWay, Resting
    <3> QED BY <3>3, <3>4
  <2>2. CASE \E s \in Sessions : HeartbeatTick(s)
    BY <1>2, <2>2 DEF HeartbeatTick
  <2>10. CASE \E s \in Sessions : SendHeartbeat(s)
    BY <2>10, TickIsTicking
  <2>3. CASE \E s \in Sessions : Ignore(s)
    BY <1>2, <2>3 DEF Ignore
  <2>4. CASE \E s \in Sessions : Delivery(s)
    <3> PICK s \in Sessions : Delivery(s)
      BY <2>4
    <3> DEFINE m == Head(toWorker[s])
    <3>1. /\ toWorker[s] # <<>> /\ UNCHANGED <<link, hb>>
          /\ m.type \in {"DispatchTask", "DispatchMpiSlot"}
          /\ UNCHANGED toServer \/ toServer' = Sent(s, <<Answer(m, FALSE)>>)
      BY DEF Delivery, ReceiveDispatch, Accept, Refuse
    <3>2. m \in ServerMessage
      BY <3>1, HeadTail DEF WireTypeOK
    <3>3. m.task \in Tasks /\ m.rank \in Nat /\ m.att \in Nat
      BY <3>1, <3>2 DEF ServerMessage
    <3> HIDE DEF m
    <3>4. /\ Answer(m, FALSE) \in WorkerMessage
          /\ Answer(m, FALSE).type \notin {"Register", "Heartbeat", "Draining"}
      BY <3>3, AnswerIsMessage, AnswerIsNews
    <3> QED BY <1>2, <3>1, <3>4, AnswerSent
  <2>5. CASE \E n \in Nodes : EndSession(n)
    BY <1>1, <2>5 DEF EndSession, OnItsWay, Resting
  <2>6. CASE \E n \in Nodes : Exit(n) \/ CtrlC(n)
    BY <1>2, <2>6 DEF Exit, CtrlC
  <2>7. CASE \E n \in Nodes : Crash(n)
    <3> PICK n \in Nodes : Crash(n)
      BY <2>7
    <3>1. worker[n].session \in Sessions \cup {None}
      BY DEF WorkerTypeOK
    <3>2. UNCHANGED hb
      BY DEF Crash
    <3>3. CASE worker[n].session # None /\ link[worker[n].session] = "up"
      <4>1. Break(worker[n].session)
        BY <3>3, Zenon DEF Crash
      <4> QED BY <3>1, <3>2, <3>3, <4>1, BreakIsBreaking
    <3>4. CASE ~(worker[n].session # None /\ link[worker[n].session] = "up")
      <4>1. UNCHANGED wireVars
        BY <3>4, Zenon DEF Crash
      <4> QED BY <1>2, <3>2, <4>1
    <3> QED BY <3>3, <3>4
  <2>8. CASE \E e \in execs : Finish(e, TRUE) \/ Finish(e, FALSE)
    <3> PICK e \in execs, ok \in BOOLEAN : Finish(e, ok)
      BY <2>8
    <3>1. e.session \in Sessions /\ e.task \in Tasks /\ e.rank \in Nat /\ e.att \in Nat
      BY DEF WorkerTypeOK, Exec
    <3>2. UNCHANGED <<link, hb>>
          /\ (UNCHANGED toServer \/ toServer' = Sent(e.session, <<Answer(e, ok)>>))
      BY DEF Finish
    <3>3. /\ Answer(e, ok) \in WorkerMessage
          /\ Answer(e, ok).type \notin {"Register", "Heartbeat", "Draining"}
      BY <3>1, AnswerIsMessage, AnswerIsNews
    <3> QED BY <1>2, <3>1, <3>2, <3>3, AnswerSent
  <2>9. CASE \E e \in execs : Release(e)
    BY <1>2, <2>9 DEF Release
  <2> QED BY <1>3, <2>1, <2>2, <2>3, <2>4, <2>5, <2>6, <2>7, <2>8, <2>9, <2>10
         DEF WorkerStep
<1>4. CASE NetworkStep
  <2>1. CASE \E s \in Sessions : Break(s) /\ UNCHANGED workerVars
    BY <2>1, BreakIsBreaking
  <2>2. CASE UNCHANGED <<link, toServer, hb>>
    BY <1>2, <2>2
  <2> QED BY <1>4, <2>1, <2>2 DEF NetworkStep, SendTaskEnds, Silence
<1> QED BY <1>3, <1>4
-----------------------------------------------------------------------------
(* Reading a message: what follows it was already quiet, or becomes so     *)
(* with Draining.                                                          *)
LEMMA ReadKeeps ==
  ASSUME WireTypeOK, NEW s \in Sessions, toServer[s] # <<>>, UNCHANGED <<link, hb>>,
         toServer'[s] = Tail(toServer[s]), LastWord(s)
  PROVE  /\ Quiet(s) => Quiet(s)'
         /\ LastWord(s)'
         /\ Head(toServer[s]).type = "Draining" => Quiet(s)'
<1>1. toServer[s] \in Seq(WorkerMessage) /\ Len(toServer[s]) \in Nat
  BY DEF WireTypeOK
<1>2. /\ Head(toServer[s]) = toServer[s][1]
      /\ Len(Tail(toServer[s])) = Len(toServer[s]) - 1
      /\ \A i \in 1 .. Len(toServer[s]) - 1 : Tail(toServer[s])[i] = toServer[s][i + 1]
  BY <1>1
<1>3. Quiet(s) => Quiet(s)'
  BY <1>1, <1>2 DEF Quiet
<1>4. LastWord(s)'
  <2> SUFFICES ASSUME NEW i \in 1 .. Len(toServer[s]) - 1, toServer[s][i + 1].type = "Draining"
               PROVE  /\ link[s] # "idle" /\ ~hb[s]
                      /\ \A k \in (i + 1) .. Len(toServer[s]) - 1 :
                           toServer[s][k + 1].type \notin {"Register", "Heartbeat"}
    BY <1>1, <1>2 DEF LastWord
  <2>1. i + 1 \in 1 .. Len(toServer[s])
    BY <1>1
  <2>2. \A k \in (i + 2) .. Len(toServer[s]) : toServer[s][k].type \notin {"Register", "Heartbeat"}
    BY <2>1 DEF LastWord
  <2> QED BY <1>1, <2>1, <2>2 DEF LastWord
<1>5. Head(toServer[s]).type = "Draining" => Quiet(s)'
  BY <1>1, <1>2 DEF Quiet, LastWord
<1> QED BY <1>3, <1>4, <1>5

(* What a step of the handler of s does to what it reads and to where it   *)
(* is: it stops reading at OnClose only, it starts with Register only.     *)
LEMMA HandlerReads ==
  ASSUME WsTypeOK, WireTypeOK, NEW s \in Sessions, WsNext(s), UNCHANGED workerVars
  PROVE  /\ UNCHANGED <<link, hb>>
         /\ \A r \in Sessions : r # s => UNCHANGED <<session[r], toServer[r]>>
         /\ \/ UNCHANGED toServer /\ session'[s].pc # "new"
            \/ \E type : /\ Receive(s, type)
                         /\ type = "Register" => session'[s].pc = "loop"
                         /\ session[s].pc # "new" => session'[s].pc # "new"
         /\ session[s].pc \in ReadPc => session'[s].pc \in ReadPc \/ OnClose(s)
<1> USE DEF workerVars, wireVars, stateVars
<1>1. session \in [Sessions -> WsState] /\ toServer \in [Sessions -> Seq(WorkerMessage)]
  BY DEF WsTypeOK, WireTypeOK
<1>2. UNCHANGED <<link, hb>>
  BY DEF WsNext, OnRegister, OnHeartbeat, OnTaskResult, OnTaskError, Answered,
         OnMpiRankResult, OnMpiRankError, Finalize, Finalized, OnDraining, OnClose,
         RequeueLost, LostRequeued
<1>3. CASE OnRegister(s)
  <2>1. Receive(s, "Register") /\ session' = [session EXCEPT ![s] = At("loop")]
    BY <1>3 DEF OnRegister, Goto
  <2> QED BY <1>1, <1>2, <2>1 DEF Receive, At, ReadPc
<1>4. CASE OnHeartbeat(s) \/ OnDraining(s)
  <2>1. UNCHANGED session /\ \E type \in {"Heartbeat", "Draining"} : Receive(s, type)
    BY <1>4 DEF OnHeartbeat, OnDraining
  <2> QED BY <1>1, <1>2, <2>1 DEF Receive
<1>5. CASE OnTaskResult(s) \/ OnTaskError(s)
  <2>1. /\ \E type \in {"TaskResult", "TaskError"} : Receive(s, type)
        /\ UNCHANGED session \/ session' = [session EXCEPT ![s] = At("answered")]
    BY <1>5 DEF OnTaskResult, OnTaskError, Goto
  <2> QED BY <1>1, <1>2, <2>1 DEF Receive, At, ReadPc
<1>6. CASE OnMpiRankResult(s) \/ OnMpiRankError(s)
  <2>1. /\ \E type \in {"MpiRankResult", "MpiRankError"} : Receive(s, type)
        /\ \/ UNCHANGED session
           \/ session' = [session EXCEPT ![s] = Finalizing("finalize", Head(toServer[s]).task, None)]
    BY <1>6 DEF OnMpiRankResult, OnMpiRankError, Goto
  <2> QED BY <1>1, <1>2, <2>1 DEF Receive, Finalizing, ReadPc
<1>7. CASE Answered(s) \/ Finalize(s) \/ Finalized(s)
  <2>1. UNCHANGED toServer
    BY <1>7 DEF Answered, Finalize, Finalized
  <2>2. \/ session' = [session EXCEPT ![s] = At("loop")]
        \/ \E t, job : session' = [session EXCEPT ![s] = Finalizing("finalized", t, job)]
    BY <1>7 DEF Answered, Finalize, Finalized, Goto
  <2> QED BY <1>1, <1>2, <2>1, <2>2 DEF At, Finalizing, ReadPc
<1>8. CASE OnClose(s)
  <2>1. /\ UNCHANGED toServer
        /\ \/ session' = [session EXCEPT ![s] = At("closed")]
           \/ session' = [session EXCEPT ![s] = Requeueing("lost", RunningOn(NodeOf[s]))]
    BY <1>8 DEF OnClose, Goto
  <2> QED BY <1>1, <1>2, <1>8, <2>1 DEF At, Requeueing
<1>9. CASE RequeueLost(s) \/ LostRequeued(s)
  <2>1. UNCHANGED toServer /\ session[s].pc \in {"lost", "mpi_lost"}
    BY <1>9 DEF RequeueLost, LostRequeued
  <2>2. \/ session' = [session EXCEPT ![s] = At("closed")]
        \/ \E pc \in {"lost", "mpi_lost"} : \E todo :
              session' = [session EXCEPT ![s] = Requeueing(pc, todo)]
    BY <1>9 DEF RequeueLost, LostRequeued, Goto
  <2> QED BY <1>1, <1>2, <2>1, <2>2 DEF At, Requeueing, ReadPc
<1> QED BY <1>3, <1>4, <1>5, <1>6, <1>7, <1>8, <1>9 DEF WsNext

(* A handler makes no node but its own Draining, and that one only by      *)
(* OnDraining; Register, Heartbeat and the end of the connection undo it.  *)
LEMMA OthersKept ==
  ASSUME TypeOK, NEW s \in Sessions, OnRegister(s) \/ OnHeartbeat(s) \/ OnDraining(s)
  PROVE  \A n \in Nodes : n # NodeOf[s] => nodes'[n] = nodes[n]
<1>1. nodes \in [Nodes -> NodeInfo \cup {None}]
  BY DEF TypeOK, AppTypeOK
<1>2. CASE OnRegister(s)
  BY <1>1, <1>2 DEF OnRegister
<1>3. CASE OnHeartbeat(s)
  BY <1>1, <1>3 DEF OnHeartbeat
<1>4. CASE OnDraining(s)
  BY <1>1, <1>4 DEF OnDraining, WithStatus
<1> QED BY <1>2, <1>3, <1>4

LEMMA NotDraining ==
  ASSUME TypeOK, NEW s \in Sessions,
         OnRegister(s) \/ OnHeartbeat(s) \/ (OnClose(s) /\ session[s].pc # "new")
  PROVE  ~Draining(NodeOf[s])'
<1>1. nodes \in [Nodes -> NodeInfo \cup {None}] /\ NodeOf[s] \in Nodes
  BY IdsAssumption DEF TypeOK, AppTypeOK
<1>2. CASE OnRegister(s)
  BY <1>1, <1>2 DEF OnRegister, Draining
<1>3. CASE OnHeartbeat(s)
  <2> DEFINE st == IF Head(toServer[s]).active > 0 THEN "Busy" ELSE "Online"
             info == [status |-> st, active |-> Head(toServer[s]).active, stale |-> FALSE]
  <2>1. nodes' = IF nodes[NodeOf[s]] = None THEN nodes ELSE [nodes EXCEPT ![NodeOf[s]] = info]
    BY <1>3 DEF OnHeartbeat
  <2>2. info.status # "Draining"
    OBVIOUS
  <2> HIDE DEF info
  <2> QED BY <1>1, <2>1, <2>2 DEF Draining
<1>4. CASE OnClose(s) /\ session[s].pc # "new"
  <2>1. nodes' = WithStatus(NodeOf[s], "Offline")
    BY <1>4 DEF OnClose
  <2> QED BY <1>1, <2>1 DEF WithStatus, NodeInfo, Draining
<1> QED BY <1>2, <1>3, <1>4

(* A step of a handler. *)
LEMMA HandlerDrains ==
  ASSUME TypeOK, DrainInv, NEW s \in Sessions, WsNext(s), UNCHANGED workerVars
  PROVE  DrainInv'
<1> USE DEF TypeOK
<1>1. /\ UNCHANGED <<link, hb>>
      /\ \A r \in Sessions : r # s => UNCHANGED <<session[r], toServer[r]>>
  BY HandlerReads
<1>2. LastWord(s) /\ RegisterFirst(s) /\ toServer \in [Sessions -> Seq(WorkerMessage)]
  BY DEF DrainInv, WireTypeOK
<1>3. ASSUME NEW r \in Sessions, r # s
      PROVE  (Quiet(r) => Quiet(r)') /\ LastWord(r)' /\ RegisterFirst(r)'
  <2>1. LastWord(r) /\ RegisterFirst(r)
    BY DEF DrainInv
  <2> QED BY <1>1, <1>3, <2>1 DEF Quiet, LastWord, RegisterFirst
<1>4. /\ Quiet(s) => Quiet(s)'
      /\ LastWord(s)'
      /\ OnDraining(s) => Quiet(s)'
  <2>1. CASE UNCHANGED toServer
    <3>1. ~OnDraining(s)
      <4> SUFFICES ASSUME OnDraining(s) PROVE FALSE
        OBVIOUS
      <4>1. toServer[s] \in Seq(WorkerMessage) /\ toServer[s] # <<>>
            /\ toServer'[s] = Tail(toServer[s])
        BY <1>2 DEF OnDraining, Receive
      <4>2. toServer[s] # Tail(toServer[s])
        BY <4>1, TailDiffers
      <4> QED BY <2>1, <4>1, <4>2, Zenon
    <3> QED BY <1>1, <1>2, <2>1, <3>1 DEF Quiet, LastWord
  <2>2. CASE \E type : Receive(s, type)
    <3>1. toServer[s] # <<>> /\ toServer'[s] = Tail(toServer[s])
      BY <1>2, <2>2 DEF Receive
    <3>2. OnDraining(s) => Head(toServer[s]).type = "Draining"
      BY DEF OnDraining, Receive
    <3> QED BY <1>1, <1>2, <3>1, <3>2, ReadKeeps
  <2> QED BY <2>1, <2>2, HandlerReads
<1>5. RegisterFirst(s)'
  <2> SUFFICES ASSUME session'[s].pc = "new" PROVE FALSE
    BY DEF RegisterFirst
  <2>1. PICK type : /\ Receive(s, type)
                    /\ type = "Register" => session'[s].pc = "loop"
                    /\ session[s].pc # "new" => session'[s].pc # "new"
    BY HandlerReads
  <2>2. session[s].pc = "new" /\ type # "Register"
    BY <2>1
  <2> QED BY <1>2, <2>1, <2>2 DEF RegisterFirst, Receive
<1>6. ASSUME NEW n \in Nodes, Draining(n)' PROVE \E r \in Reads(n)' : Quiet(r)'
  <2>1. CASE OnDraining(s) /\ n = NodeOf[s]
    <3>1. session[s].pc = "loop" /\ UNCHANGED session
      <4>1. Receive(s, "Draining") /\ UNCHANGED session
        BY <2>1 DEF OnDraining
      <4>2. session[s].pc # "new"
        BY <1>2, <4>1 DEF Receive, RegisterFirst
      <4> QED BY <4>1, <4>2 DEF Receive
    <3>2. s \in Reads(n)'
      BY <2>1, <3>1 DEF Reads, ReadPc
    <3> QED BY <1>4, <2>1, <3>2
  <2>2. CASE ~(OnDraining(s) /\ n = NodeOf[s])
    <3>1. Draining(n)
      BY <1>6, <2>2, HandlerHolds, OthersKept, NotDraining DEF StatusHeld, Draining
    <3>2. PICK r \in Reads(n) : Quiet(r)
      BY <3>1 DEF DrainInv
    <3>3. r \in Sessions /\ NodeOf[r] = n /\ session[r].pc \in ReadPc
      BY DEF Reads
    <3>4. CASE r = s
      <4>1. session[s].pc # "new"
        BY <3>3, <3>4 DEF ReadPc
      <4>2. ~OnClose(s)
        BY <1>6, <3>3, <3>4, <4>1, NotDraining
      <4>3. session'[s].pc \in ReadPc
        BY <3>3, <3>4, <4>2, HandlerReads
      <4>4. r \in Reads(n)'
        BY <3>3, <3>4, <4>3 DEF Reads
      <4> QED BY <1>4, <3>2, <3>4, <4>4
    <3>5. CASE r # s
      <4>1. r \in Reads(n)' /\ Quiet(r)'
        BY <1>1, <1>3, <3>2, <3>3, <3>5 DEF Reads
      <4> QED BY <4>1
    <3> QED BY <3>4, <3>5
  <2> QED BY <2>1, <2>2
<1> QED BY <1>3, <1>4, <1>5, <1>6 DEF DrainInv

(* Each step of the system. *)
LEMMA NextDrains ==
  ASSUME IInv, DrainInv, [Next]_vars
  PROVE  DrainInv'
<1> USE DEF IInv, TypeOK
<1>1. ASSUME StatusHeld, UNCHANGED session,
             \A r \in Sessions : (Quiet(r) => Quiet(r)') /\ LastWord(r)' /\ RegisterFirst(r)'
      PROVE  DrainInv'
  <2>1. ASSUME NEW n \in Nodes, Draining(n)' PROVE \E r \in Reads(n)' : Quiet(r)'
    <3>1. PICK r \in Reads(n) : Quiet(r)
      BY <1>1, <2>1 DEF StatusHeld, DrainInv
    <3>2. r \in Reads(n)' /\ Quiet(r)'
      BY <1>1, <3>1 DEF Reads
    <3> QED BY <3>2
  <2> QED BY <1>1, <2>1 DEF DrainInv
<1>2. ASSUME UNCHANGED <<link, toServer, hb, session>>
      PROVE  \A r \in Sessions : (Quiet(r) => Quiet(r)') /\ LastWord(r)' /\ RegisterFirst(r)'
  BY <1>2 DEF DrainInv, Quiet, LastWord, RegisterFirst
<1>3. CASE ServerStep
  <2>1. UNCHANGED workerVars
    BY <1>3 DEF ServerStep
  <2>2. CASE \E s \in Sessions : WsNext(s)
    BY <2>1, <2>2, HandlerDrains
  <2>3. CASE \/ SchedNext /\ UNCHANGED <<session, monitor>>
             \/ MonitorNext /\ UNCHANGED <<sched, session>>
             \/ /\ \E p \in Procs : ReturnFromCall(p)
                /\ UNCHANGED <<wireVars, sched, session, monitor>>
    <3>1. UNCHANGED <<link, toServer, hb, session>>
      <4>1. CASE SchedNext /\ UNCHANGED <<session, monitor>>
        BY <2>1, <4>1 DEF workerVars, wireVars, stateVars, SchedNext, Lock, Skip, Send, SendTask,
             Record, Recruit, RecruitNodes, SendSlot, RecordMpi, RegisterJob, AbortDispatch,
             Sweep, Unlock
      <4>2. CASE MonitorNext /\ UNCHANGED <<sched, session>>
        BY <2>1, <4>2 DEF workerVars, wireVars, MonitorNext, Tick, NextDead, RequeueOne, NextPhase
      <4>3. CASE UNCHANGED <<wireVars, sched, session, monitor>>
        BY <2>1, <4>3 DEF workerVars, wireVars
      <4> QED BY <2>3, <4>1, <4>2, <4>3
    <3>2. StatusHeld
      <4>1. CASE \E p \in Procs : ReturnFromCall(p)
        BY <4>1, ServerHolds
            DEF ReturnFromCall, ReadRetries, WriteRetries, Reenqueue, EndTask, Push, Done, nodeVars
      <4> QED BY <2>3, <4>1, ServerHolds
    <3> QED BY <1>1, <1>2, <3>1, <3>2
  <2> QED BY <1>3, <2>2, <2>3 DEF ServerStep
<1>4. CASE ClientStep
  <2>1. UNCHANGED <<link, toServer, hb, session, nodes>>
    BY <1>4 DEF ClientStep, SubmitTask, CancelTask, workerVars, wireVars, nodeVars
  <2> QED BY <1>1, <1>2, <2>1, ServerHolds
<1>5. CASE WorkerStep \/ NetworkStep
  <2>1. UNCHANGED session /\ StatusHeld
    BY <1>5, ServerHolds DEF WorkerStep, NetworkStep, stateVars, nodeVars
  <2>2. ASSUME NEW r \in Sessions
        PROVE  (Quiet(r) => Quiet(r)') /\ LastWord(r)' /\ RegisterFirst(r)'
    <3>1. OnItsWay(r)
      BY <1>5, WaysOnly
    <3> QED BY <2>1, <3>1, WayKeeps DEF DrainInv
  <2> QED BY <1>1, <2>1, <2>2
<1>6. CASE UNCHANGED vars
  <2>1. UNCHANGED <<link, toServer, hb, session, nodes>>
    BY <1>6 DEF vars, wireVars, workerVars, stateVars, nodeVars
  <2> QED BY <1>1, <1>2, <2>1, ServerHolds
<1> QED BY <1>3, <1>4, <1>5, <1>6 DEF Next

(* The step that could bring a draining node back is a Register, of a      *)
(* connection that becomes the channel, or a heartbeat, of one that is     *)
(* read: neither is the quiet connection.                                  *)
LEMMA DrainingStays ==
  ASSUME IInv, DrainInv, [Next]_vars, NEW n \in Nodes, Draining(n),
         \A s \in Reads(n) : worker_channels[n] = s /\ worker_channels'[n] = s
  PROVE  nodes'[n].status \in {"Draining", "Offline"}
<1> USE DEF IInv, TypeOK
<1>1. PICK q \in Reads(n) : Quiet(q)
  BY DEF DrainInv
<1>2. /\ q \in Sessions /\ worker_channels[n] = q /\ worker_channels'[n] = q
      /\ \A s \in Reads(n) : s = q
  BY DEF Reads
<1>3. ASSUME NEW s \in Sessions, WsNext(s), ~StatusHeld PROVE nodes'[n].status \in {"Draining", "Offline"}
  <2>1. CASE NodeOf[s] # n
    <3>1. nodes'[n] = nodes[n]
      BY <1>3, <2>1, HandlerHolds, OthersKept
    <3> QED BY <3>1 DEF Draining
  <2>2. CASE OnRegister(s) /\ NodeOf[s] = n
    <3>1. worker_channels'[n] = s
      BY <2>2, IdsAssumption DEF OnRegister, AppTypeOK
    <3>2. s = q /\ toServer[s] \in Seq(WorkerMessage) /\ toServer[s] # <<>>
          /\ Head(toServer[s]).type = "Register"
      BY <1>2, <2>2, <3>1 DEF OnRegister, Receive, WireTypeOK
    <3>3. Head(toServer[s]) = toServer[s][1] /\ 1 \in 1 .. Len(toServer[s])
      BY <3>2
    <3> QED BY <1>1, <3>2, <3>3 DEF Quiet
  <2>3. CASE OnHeartbeat(s) /\ NodeOf[s] = n
    <3>1. /\ session[s].pc \in {"new", "loop"} /\ toServer[s] # <<>>
          /\ toServer[s] \in Seq(WorkerMessage) /\ Head(toServer[s]).type = "Heartbeat"
      BY <2>3 DEF OnHeartbeat, Receive, WireTypeOK
    <3>2. session[s].pc = "loop"
      BY <3>1 DEF DrainInv, RegisterFirst
    <3>3. s = q
      BY <1>2, <2>3, <3>2 DEF Reads, ReadPc
    <3>4. Head(toServer[s]) = toServer[s][1] /\ 1 \in 1 .. Len(toServer[s])
      BY <3>1
    <3> QED BY <1>1, <3>1, <3>3, <3>4 DEF Quiet
  <2>4. CASE OnDraining(s) /\ NodeOf[s] = n
    <3>1. nodes' = WithStatus(n, "Draining") /\ nodes \in [Nodes -> NodeInfo \cup {None}]
      BY <2>4 DEF OnDraining, AppTypeOK
    <3> QED BY <3>1 DEF WithStatus, NodeInfo, Draining
  <2> QED BY <1>3, <2>1, <2>2, <2>3, <2>4, HandlerHolds
<1>4. CASE StatusHeld
  BY <1>4 DEF StatusHeld
<1>5. CASE \E s \in Sessions : WsNext(s)
  BY <1>3, <1>4, <1>5
<1>6. CASE SchedNext \/ MonitorNext
  BY <1>4, <1>6, ServerHolds
<1>7. CASE (\E p \in Procs : ReturnFromCall(p)) \/ ClientStep \/ WorkerStep
  <2>1. UNCHANGED nodes
    BY <1>7 DEF ReturnFromCall, ReadRetries, WriteRetries, Reenqueue, EndTask, Push, Done,
                ClientStep, SubmitTask, CancelTask, WorkerStep, stateVars, nodeVars
  <2> QED BY <1>4, <2>1, ServerHolds
<1>8. CASE NetworkStep
  <2>1. StatusHeld
    BY <1>8, ServerHolds DEF NetworkStep, stateVars, nodeVars
  <2> QED BY <1>4, <2>1
<1>9. CASE UNCHANGED vars
  <2>1. UNCHANGED nodes
    BY <1>9 DEF vars, stateVars, nodeVars
  <2> QED BY <1>4, <2>1, ServerHolds
<1> QED BY <1>5, <1>6, <1>7, <1>8, <1>9 DEF Next, ServerStep

(* A node that said Draining is never Online or Busy again while the       *)
(* server reads one connection of it: no heartbeat, however late, no       *)
(* answer, no dispatch and no tick of the monitor brings it back, whatever *)
(* breaks and however many other connections come and go.                  *)
THEOREM DrainingHolds == Spec => DrainingIsFinal
<1>1. Init => DrainInv
  BY DEF Init, AppInit, WireInit, DrainInv, Draining, LastWord, RegisterFirst
<1>2. IInv /\ DrainInv /\ [Next]_vars => DrainInv'
  BY NextDrains
<1>3. IInv /\ DrainInv /\ [Next]_vars =>
        [\A n \in Nodes :
           /\ Draining(n)
           /\ \A s \in Reads(n) : worker_channels[n] = s /\ worker_channels'[n] = s
           => nodes'[n].status \in {"Draining", "Offline"}]_vars
  BY DrainingStays
<1> QED BY <1>1, <1>2, <1>3, InvariantHolds, PTL DEF Spec, DrainingIsFinal
=============================================================================
