--------------------------- MODULE DispatchProofs ---------------------------
(***************************************************************************)
(* A dispatch is answered once: what is left of it only moves from the     *)
(* channel of the worker to an execution and back to the server.  So the   *)
(* lists of the handlers are fresh while one handler looks after a node,   *)
(* and a completed job has one answer of each rank.                        *)
(***************************************************************************)
EXTENDS Dispatches, LifecycleProofs

(* Queues with and without the messages of a set *)

LEMMA NothingHas ==
  ASSUME NEW S
  PROVE  ~Has(<<>>, S) /\ Once(<<>>, S)
BY DEF Has, Once

LEMMA TailHas ==
  ASSUME NEW T, NEW q \in Seq(T), q # <<>>, NEW S
  PROVE  /\ Has(Tail(q), S) => Has(q, S)
         /\ Head(q) \in S => Has(q, S)
         /\ Once(q, S) => Once(Tail(q), S)
         /\ Once(q, S) /\ Head(q) \in S => ~Has(Tail(q), S)
<1> DEFINE r == Tail(q)
<1>1. /\ Len(q) \in Nat /\ Len(q) >= 1 /\ Len(r) = Len(q) - 1
      /\ \A i \in 1 .. (Len(q) - 1) : r[i] = q[i + 1]
  OBVIOUS
<1>2. Head(q) = q[1]
  OBVIOUS
<1> HIDE DEF r
<1>3. \A i \in 1 .. Len(r) : i + 1 \in 1 .. Len(q) /\ i + 1 # 1 /\ r[i] = q[i + 1]
  BY <1>1
<1>4. 1 \in 1 .. Len(q)
  BY <1>1
<1>5. Has(r, S) => Has(q, S)
  BY <1>3 DEF Has
<1>6. Head(q) \in S => Has(q, S)
  BY <1>2, <1>4 DEF Has
<1>7. Once(q, S) => Once(r, S)
  <2> SUFFICES ASSUME Once(q, S), NEW i \in 1 .. Len(r), NEW k \in 1 .. Len(r),
                      r[i] \in S, r[k] \in S
               PROVE  i = k
    BY DEF Once
  <2>1. i + 1 = k + 1
    BY <1>3 DEF Once
  <2> QED BY <1>1, <2>1
<1>8. Once(q, S) /\ Head(q) \in S => ~Has(r, S)
  <2> SUFFICES ASSUME Once(q, S), q[1] \in S, NEW i \in 1 .. Len(r), r[i] \in S PROVE FALSE
    BY <1>2 DEF Has
  <2>1. i + 1 = 1
    BY <1>3, <1>4 DEF Once
  <2> QED BY <1>3, <2>1
<1> QED BY <1>5, <1>6, <1>7, <1>8 DEF r

LEMMA AppendHas ==
  ASSUME NEW T, NEW q \in Seq(T), NEW m \in T, NEW S
  PROVE  /\ Has(Append(q, m), S) <=> Has(q, S) \/ m \in S
         /\ Once(q, S) /\ (m \in S => ~Has(q, S)) => Once(Append(q, m), S)
<1> DEFINE r == Append(q, m)
<1>1. /\ Len(q) \in Nat /\ Len(r) = Len(q) + 1 /\ r[Len(q) + 1] = m
      /\ \A i \in 1 .. Len(q) : r[i] = q[i]
  OBVIOUS
<1> HIDE DEF r
<1>2. \A i \in 1 .. Len(r) : i \in 1 .. Len(q) \/ i = Len(q) + 1
  BY <1>1
<1>3. \A i \in 1 .. Len(q) : i \in 1 .. Len(r)
  BY <1>1
<1>4. Len(q) + 1 \in 1 .. Len(r)
  BY <1>1
<1>5. Has(r, S) <=> Has(q, S) \/ m \in S
  BY <1>1, <1>2, <1>3, <1>4 DEF Has
<1>6. Once(q, S) /\ (m \in S => ~Has(q, S)) => Once(r, S)
  BY <1>1, <1>2 DEF Has, Once
<1> QED BY <1>5, <1>6 DEF r

LEMMA PrefixHas ==
  ASSUME NEW T, NEW q \in Seq(T), NEW n \in 0 .. Len(q), NEW S
  PROVE  /\ Has(SubSeq(q, 1, n), S) => Has(q, S)
         /\ Once(q, S) => Once(SubSeq(q, 1, n), S)
<1> DEFINE r == SubSeq(q, 1, n)
<1>1. /\ Len(q) \in Nat /\ Len(r) = n
      /\ \A i \in 1 .. n : r[i] = q[i]
  OBVIOUS
<1> HIDE DEF r
<1>2. \A i \in 1 .. Len(r) : i \in 1 .. Len(q) /\ r[i] = q[i]
  BY <1>1
<1> QED BY <1>2 DEF Has, Once, r

-----------------------------------------------------------------------------
(* What is left of dispatches, less of it after a step. *)
Fewer(s, t, ranks) ==
  /\ \A atts : Outstanding(s, t, ranks, atts)' => Outstanding(s, t, ranks, atts)
  /\ Single(s, t, ranks) => Single(s, t, ranks)'

(* Changes of a queue that bring no dispatch, or no answer. *)
Lesser(q, r, S) == (Has(r, S) => Has(q, S)) /\ (Once(q, S) => Once(r, S))

LEMMA LesserQueues ==
  ASSUME NEW T, NEW q \in Seq(T), NEW S
  PROVE  /\ Lesser(q, q, S)
         /\ Lesser(q, <<>>, S)
         /\ q # <<>> => Lesser(q, Tail(q), S)
         /\ \A n \in 0 .. Len(q) : Lesser(q, SubSeq(q, 1, n), S)
         /\ \A m \in T : m \notin S => Lesser(q, Append(q, m), S)
<1>1. Lesser(q, <<>>, S)
  BY NothingHas DEF Lesser
<1>2. q # <<>> => Lesser(q, Tail(q), S)
  BY TailHas DEF Lesser
<1>3. \A n \in 0 .. Len(q) : Lesser(q, SubSeq(q, 1, n), S)
  BY PrefixHas DEF Lesser
<1>4. \A m \in T : m \notin S => Lesser(q, Append(q, m), S)
  BY AppendHas DEF Lesser
<1> QED BY <1>1, <1>2, <1>3, <1>4 DEF Lesser
(* A connection whose queues lose, or get other, messages. *)
LEMMA QueuesFewer ==
  ASSUME NEW s, NEW t, NEW ranks,
         link[s] = "down" => link'[s] = "down",
         link'[s] # "down" =>
           /\ \A atts : Lesser(toWorker[s], toWorker'[s], DispatchOf(t, ranks, atts))
           /\ \A e \in execs' : e.session = s /\ e.phase = "running" => e \in execs,
         \A atts : Lesser(toServer[s], toServer'[s], AnswerOf(t, ranks, atts))
  PROVE  Fewer(s, t, ranks)
<1> USE DEF Lesser
<1>1. \A e, atts : e \in ExecOf(s, t, ranks, atts) => e.session = s /\ e.phase = "running"
  BY DEF ExecOf
<1>2. \A atts : Sending(s, t, ranks, atts)' => Sending(s, t, ranks, atts)
  BY DEF Sending
<1>3. \A atts : Executing(s, t, ranks, atts)' => Executing(s, t, ranks, atts)
  BY <1>1 DEF Executing
<1>4. \A atts : Answering(s, t, ranks, atts)' => Answering(s, t, ranks, atts)
  BY DEF Answering
<1>5. ASSUME Single(s, t, ranks) PROVE Single(s, t, ranks)'
  <2>1. link'[s] # "down" => Once(toWorker'[s], DispatchOf(t, ranks, Nat))
    BY <1>5 DEF Single
  <2>2. link'[s] # "down" => \A e, f \in execs' : /\ e \in ExecOf(s, t, ranks, Nat)
                                                  /\ f \in ExecOf(s, t, ranks, Nat)
                                                  => e = f
    BY <1>1, <1>5 DEF Single
  <2>3. Once(toServer'[s], AnswerOf(t, ranks, Nat))
    BY <1>5 DEF Single
  <2>4. Sending(s, t, ranks, Nat)' => ~Executing(s, t, ranks, Nat)'
    BY <1>2, <1>3, <1>5 DEF Single
  <2>5. Answering(s, t, ranks, Nat)' => ~Sending(s, t, ranks, Nat)' /\ ~Executing(s, t, ranks, Nat)'
    BY <1>2, <1>3, <1>4, <1>5 DEF Single
  <2> QED BY <2>1, <2>2, <2>3, <2>4, <2>5 DEF Single
<1> QED BY <1>2, <1>3, <1>4, <1>5 DEF Fewer, Outstanding

(* A message that is no dispatch, or no answer. *)
LEMMA OtherMessages ==
  ASSUME NEW t, NEW ranks, NEW atts, NEW m
  PROVE  /\ m.type \notin {"DispatchTask", "DispatchMpiSlot"} => m \notin DispatchOf(t, ranks, atts)
         /\ m.type \notin {"TaskResult", "TaskError", "MpiRankResult", "MpiRankError"}
              => m \notin AnswerOf(t, ranks, atts)
BY DEF DispatchOf, AnswerOf

(* What a step of the server, or of another connection, does to the queues *)
(* of a connection.                                                        *)
LEMMA ServerFewer ==
  ASSUME WireTypeOK, UNCHANGED <<link, execs>>, NEW s \in Sessions, NEW t, NEW ranks,
         \/ toServer'[s] = toServer[s]
         \/ toServer[s] # <<>> /\ toServer'[s] = Tail(toServer[s]),
         \/ toWorker'[s] = toWorker[s]
         \/ \E m \in ServerMessage : /\ m.type \notin {"DispatchTask", "DispatchMpiSlot"}
                                     /\ toWorker'[s] = Append(toWorker[s], m)
  PROVE  Fewer(s, t, ranks)
<1>1. toServer[s] \in Seq(WorkerMessage) /\ toWorker[s] \in Seq(ServerMessage)
  BY DEF WireTypeOK
<1>2. \A atts : Lesser(toServer[s], toServer'[s], AnswerOf(t, ranks, atts))
  BY <1>1, LesserQueues
<1>3. \A atts : Lesser(toWorker[s], toWorker'[s], DispatchOf(t, ranks, atts))
  BY <1>1, LesserQueues, OtherMessages
<1> QED BY <1>2, <1>3, QueuesFewer

(* What a worker or the network does to a connection without a dispatch.   *)
LEMMA WireFewer ==
  ASSUME WireTypeOK, NEW s \in Sessions, NEW t, NEW ranks,
         link[s] = "down" => link'[s] = "down",
         \A e \in execs' : e.phase = "running" => e \in execs,
         \/ toWorker'[s] = toWorker[s]
         \/ toWorker[s] # <<>> /\ toWorker'[s] = Tail(toWorker[s])
         \/ toWorker'[s] = <<>>,
         \/ toServer'[s] = toServer[s]
         \/ \E n \in 0 .. Len(toServer[s]) : toServer'[s] = SubSeq(toServer[s], 1, n)
         \/ toServer'[s] = <<[type |-> "Register"]>>
         \/ \E m \in WorkerMessage : /\ m.type = "Heartbeat"
                                     /\ \/ toServer'[s] = Append(toServer[s], m)
                                        \/ toServer'[s] = Append(Append(toServer[s], m),
                                                                 [type |-> "Draining"])
  PROVE  Fewer(s, t, ranks)
<1>1. toServer[s] \in Seq(WorkerMessage) /\ toWorker[s] \in Seq(ServerMessage)
  BY DEF WireTypeOK
<1>2. \A atts : Lesser(toWorker[s], toWorker'[s], DispatchOf(t, ranks, atts))
  BY <1>1, LesserQueues
<1>3. ASSUME NEW atts PROVE Lesser(toServer[s], toServer'[s], AnswerOf(t, ranks, atts))
  <2>1. CASE toServer'[s] = toServer[s]
    BY <1>1, <2>1, LesserQueues
  <2>2. CASE \E n \in 0 .. Len(toServer[s]) : toServer'[s] = SubSeq(toServer[s], 1, n)
    BY <1>1, <2>2, LesserQueues
  <2>3. CASE toServer'[s] = <<[type |-> "Register"]>>
    <3>1. ~Has(toServer'[s], AnswerOf(t, ranks, atts))
      BY <2>3, OtherMessages DEF Has
    <3> QED BY <2>3, <3>1 DEF Lesser, Once, Has
  <2>4. ASSUME NEW m \in WorkerMessage, m.type = "Heartbeat",
               \/ toServer'[s] = Append(toServer[s], m)
               \/ toServer'[s] = Append(Append(toServer[s], m), [type |-> "Draining"])
        PROVE  Lesser(toServer[s], toServer'[s], AnswerOf(t, ranks, atts))
    <3> DEFINE q == Append(toServer[s], m)
               d == [type |-> "Draining"]
    <3>1. q \in Seq(WorkerMessage) /\ d \in WorkerMessage
      BY <1>1 DEF WorkerMessage
    <3>2. m \notin AnswerOf(t, ranks, atts) /\ d \notin AnswerOf(t, ranks, atts)
      BY <2>4, OtherMessages
    <3>3. Lesser(toServer[s], q, AnswerOf(t, ranks, atts))
      BY <1>1, <3>2, LesserQueues
    <3>4. Lesser(q, Append(q, d), AnswerOf(t, ranks, atts))
      <4> HIDE DEF q, d
      <4> QED BY <3>1, <3>2, LesserQueues
    <3> QED BY <2>4, <3>3, <3>4 DEF Lesser
  <2> QED BY <2>1, <2>2, <2>3, <2>4
<1> QED BY <1>2, <1>3, QueuesFewer

-----------------------------------------------------------------------------
(* A dispatch is executed or refused, an execution ends. *)

LEMMA MessageOf ==
  ASSUME NEW t, NEW ranks, NEW atts
  PROVE  /\ \A m \in ServerMessage :
              m \in DispatchOf(t, ranks, atts) <=>
                /\ m.type \in {"DispatchTask", "DispatchMpiSlot"}
                /\ m.task = t /\ m.rank \in ranks /\ m.att \in atts
         /\ \A m \in WorkerMessage :
              m \in AnswerOf(t, ranks, atts) <=>
                /\ m.type \in {"TaskResult", "TaskError", "MpiRankResult", "MpiRankError"}
                /\ m.task = t /\ m.rank \in ranks /\ m.att \in atts
         /\ \A s : \A e \in Exec :
              e \in ExecOf(s, t, ranks, atts) <=>
                /\ e.session = s /\ e.phase = "running"
                /\ e.task = t /\ e.rank \in ranks /\ e.att \in atts
BY DEF DispatchOf, AnswerOf, ExecOf, ServerMessage, WorkerMessage, Exec

LEMMA AcceptFewer ==
  ASSUME WireTypeOK, WorkerTypeOK, NEW s0 \in Sessions, ReceiveDispatch(s0),
         Accept(s0, Head(toWorker[s0])), NEW s \in Sessions, NEW t, NEW ranks \in SUBSET Nat
  PROVE  Fewer(s, t, ranks)
<1> DEFINE m == Head(toWorker[s0])
           new == [session |-> s0, task |-> m.task, rank |-> m.rank,
                   att |-> m.att, phase |-> "running"]
<1>1. /\ toWorker[s0] \in Seq(ServerMessage) /\ toWorker[s0] # <<>>
      /\ toWorker' = [toWorker EXCEPT ![s0] = Tail(@)]
      /\ toWorker \in [Sessions -> Seq(ServerMessage)]
      /\ toServer[s] \in Seq(WorkerMessage)
      /\ UNCHANGED <<link, toServer>> /\ execs' = execs \cup {new}
  BY DEF ReceiveDispatch, Accept, WireTypeOK
<1>2. m \in ServerMessage /\ m.type \in {"DispatchTask", "DispatchMpiSlot"}
  BY <1>1, HeadTail DEF ReceiveDispatch
<1>3. new \in Exec
  BY <1>2 DEF ServerMessage, Exec
<1>4. \A a : new \in ExecOf(s, t, ranks, a) <=> s = s0 /\ m \in DispatchOf(t, ranks, a)
  BY <1>2, <1>3, MessageOf
<1> HIDE DEF new, m
<1>5. CASE s # s0
  <2>1. toWorker'[s] = toWorker[s] /\ toServer'[s] = toServer[s] /\ link'[s] = link[s]
    BY <1>1, <1>5
  <2>2. \A e \in execs' : e.session = s /\ e.phase = "running" => e \in execs
    BY <1>1, <1>5 DEF new
  <2>3. /\ \A a : Lesser(toWorker[s], toWorker'[s], DispatchOf(t, ranks, a))
        /\ \A a : Lesser(toServer[s], toServer'[s], AnswerOf(t, ranks, a))
    BY <2>1 DEF Lesser
  <2> QED BY <2>1, <2>2, <2>3, QueuesFewer
<1>6. CASE s = s0
  <2> DEFINE q == toWorker[s0]
             D(a) == DispatchOf(t, ranks, a)
  <2>1. toWorker'[s] = Tail(q) /\ m = Head(q)
    BY <1>1, <1>6 DEF m
  <2>2. \A S : /\ Has(Tail(q), S) => Has(q, S)
               /\ m \in S => Has(q, S)
               /\ Once(q, S) => Once(Tail(q), S)
               /\ Once(q, S) /\ m \in S => ~Has(Tail(q), S)
    BY <1>1, <2>1, TailHas
  <2>3. \A a : Sending(s, t, ranks, a)' => Sending(s, t, ranks, a)
    BY <1>1, <1>6, <2>1, <2>2 DEF Sending
  <2>4. ASSUME NEW a, Executing(s, t, ranks, a)'
        PROVE  Executing(s, t, ranks, a) \/ (Sending(s, t, ranks, a) /\ m \in D(a))
    <3>1. link[s] # "down" /\ \E e \in execs \cup {new} : e \in ExecOf(s, t, ranks, a)
      BY <1>1, <2>4 DEF Executing
    <3> QED BY <1>4, <1>6, <2>2, <3>1 DEF Executing, Sending
  <2>5. \A a : Answering(s, t, ranks, a)' <=> Answering(s, t, ranks, a)
    BY <1>1 DEF Answering
  <2>6. ASSUME Single(s, t, ranks) PROVE Single(s, t, ranks)'
    <3>1. link'[s] # "down" => Once(toWorker'[s], D(Nat))
      BY <1>1, <1>6, <2>1, <2>2, <2>6 DEF Single
    <3>2. link'[s] # "down" /\ m \in D(Nat) =>
            Sending(s, t, ranks, Nat) /\ ~Executing(s, t, ranks, Nat) /\ ~Has(Tail(q), D(Nat))
      BY <1>1, <1>6, <2>2, <2>6 DEF Single, Sending
    <3>3. link'[s] # "down" => \A e, f \in execs' : /\ e \in ExecOf(s, t, ranks, Nat)
                                                    /\ f \in ExecOf(s, t, ranks, Nat)
                                                    => e = f
      <4>1. CASE m \in D(Nat)
        BY <1>1, <3>2, <4>1 DEF Executing
      <4>2. CASE m \notin D(Nat)
        BY <1>1, <1>4, <2>6, <4>2 DEF Single
      <4> QED BY <4>1, <4>2
    <3>4. Once(toServer'[s], AnswerOf(t, ranks, Nat))
      BY <1>1, <2>6 DEF Single
    <3>5. Sending(s, t, ranks, Nat)' => ~Executing(s, t, ranks, Nat)'
      <4>1. ASSUME Sending(s, t, ranks, Nat)', Executing(s, t, ranks, Nat)' PROVE FALSE
        <5>1. Sending(s, t, ranks, Nat) /\ link'[s] # "down" /\ Has(Tail(q), D(Nat))
          BY <2>1, <2>3, <4>1 DEF Sending
        <5>2. ~Executing(s, t, ranks, Nat)
          BY <2>6, <5>1 DEF Single
        <5> QED BY <2>4, <3>2, <4>1, <5>1, <5>2
      <4> QED BY <4>1
    <3>6. Answering(s, t, ranks, Nat)' =>
            ~Sending(s, t, ranks, Nat)' /\ ~Executing(s, t, ranks, Nat)'
      BY <2>3, <2>4, <2>5, <2>6 DEF Single
    <3> QED BY <3>1, <3>3, <3>4, <3>5, <3>6 DEF Single
  <2> QED BY <2>3, <2>4, <2>5, <2>6 DEF Fewer, Outstanding
<1> QED BY <1>5, <1>6

(* An answer takes the place of a dispatch in the queue, or of an execution. *)
LEMMA AnswerFewer ==
  ASSUME WireTypeOK, NEW s \in Sessions, NEW t, NEW ranks \in SUBSET Nat,
         NEW m \in WorkerMessage,
         link'[s] = link[s], link[s] # "down",
         toServer'[s] = Append(toServer[s], m),
         \A a : Sending(s, t, ranks, a)' => Sending(s, t, ranks, a),
         \A a : Executing(s, t, ranks, a)' => Executing(s, t, ranks, a),
         Single(s, t, ranks) =>
           /\ Once(toWorker'[s], DispatchOf(t, ranks, Nat))
           /\ \A e, f \in execs' : /\ e \in ExecOf(s, t, ranks, Nat)
                                   /\ f \in ExecOf(s, t, ranks, Nat)
                                   => e = f,
         \A a : m \in AnswerOf(t, ranks, a) =>
           Sending(s, t, ranks, a) \/ Executing(s, t, ranks, a),
         Single(s, t, ranks) /\ m \in AnswerOf(t, ranks, Nat) =>
           ~Sending(s, t, ranks, Nat)' /\ ~Executing(s, t, ranks, Nat)'
  PROVE  Fewer(s, t, ranks)
<1>1. toServer[s] \in Seq(WorkerMessage)
  BY DEF WireTypeOK
<1>2. \A S : /\ Has(toServer'[s], S) <=> Has(toServer[s], S) \/ m \in S
             /\ Once(toServer[s], S) /\ (m \in S => ~Has(toServer[s], S)) => Once(toServer'[s], S)
  BY <1>1, AppendHas
<1>3. \A a : Answering(s, t, ranks, a)' =>
        Answering(s, t, ranks, a) \/ m \in AnswerOf(t, ranks, a)
  BY <1>2 DEF Answering
<1>4. ASSUME Single(s, t, ranks) PROVE Single(s, t, ranks)'
  <2>1. m \in AnswerOf(t, ranks, Nat) => ~Has(toServer[s], AnswerOf(t, ranks, Nat))
    BY <1>4 DEF Single, Answering
  <2>2. Once(toServer'[s], AnswerOf(t, ranks, Nat))
    BY <1>2, <1>4, <2>1 DEF Single
  <2>3. Sending(s, t, ranks, Nat)' => ~Executing(s, t, ranks, Nat)'
    BY <1>4 DEF Single
  <2>4. Answering(s, t, ranks, Nat)' =>
          ~Sending(s, t, ranks, Nat)' /\ ~Executing(s, t, ranks, Nat)'
    BY <1>3, <1>4 DEF Single
  <2> QED BY <1>4, <2>2, <2>3, <2>4 DEF Single
<1> QED BY <1>3, <1>4 DEF Fewer, Outstanding

LEMMA RefuseFewer ==
  ASSUME WireTypeOK, NEW s0 \in Sessions, ReceiveDispatch(s0),
         Refuse(s0, Head(toWorker[s0])), NEW s \in Sessions, NEW t, NEW ranks \in SUBSET Nat
  PROVE  Fewer(s, t, ranks)
<1> DEFINE m == Head(toWorker[s0])
           answer == Answer(m, FALSE)
<1>1. /\ toWorker[s0] \in Seq(ServerMessage) /\ toWorker[s0] # <<>>
      /\ toWorker' = [toWorker EXCEPT ![s0] = Tail(@)]
      /\ toWorker \in [Sessions -> Seq(ServerMessage)]
      /\ toServer \in [Sessions -> Seq(WorkerMessage)]
      /\ UNCHANGED <<link, execs>> /\ toServer' = Sent(s0, <<answer>>)
  BY DEF ReceiveDispatch, Refuse, WireTypeOK
<1>2. m \in ServerMessage /\ m.type \in {"DispatchTask", "DispatchMpiSlot"}
  BY <1>1, HeadTail DEF ReceiveDispatch
<1>3. m.task \in Tasks /\ m.rank \in Nat /\ m.att \in Nat
  BY <1>2 DEF ServerMessage
<1>4. /\ answer \in WorkerMessage
      /\ answer.task = m.task /\ answer.rank = m.rank /\ answer.att = m.att
  BY <1>3, AnswerIsMessage DEF Answer
<1> HIDE DEF answer, m
<1>5. ASSUME NEW a, answer \in AnswerOf(t, ranks, a) PROVE m \in DispatchOf(t, ranks, a)
  <2>1. answer.task = t /\ answer.rank \in ranks /\ answer.att \in a
    BY <1>5 DEF AnswerOf
  <2>2. m.task = t /\ m.rank \in ranks /\ m.att \in a
    BY <1>4, <2>1
  <2>3. \A x \in ServerMessage :
          x \in DispatchOf(t, ranks, a) <=> /\ x.type \in {"DispatchTask", "DispatchMpiSlot"}
                                           /\ x.task = t /\ x.rank \in ranks /\ x.att \in a
    BY MessageOf
  <2> QED BY <1>2, <2>2, <2>3
<1>6. CASE s # s0 \/ link[s] # "up"
  <2>1. toServer'[s] = toServer[s]
    BY <1>1, <1>6 DEF Sent
  <2>2. toWorker'[s] = toWorker[s] \/ (toWorker[s] # <<>> /\ toWorker'[s] = Tail(toWorker[s]))
    BY <1>1
  <2>3. (link[s] = "down" => link'[s] = "down") /\ execs' = execs
    BY <1>1
  <2>4. toServer[s] \in Seq(WorkerMessage) /\ toWorker[s] \in Seq(ServerMessage)
    BY DEF WireTypeOK
  <2>5. /\ \A a : Lesser(toWorker[s], toWorker'[s], DispatchOf(t, ranks, a))
        /\ \A a : Lesser(toServer[s], toServer'[s], AnswerOf(t, ranks, a))
    BY <2>1, <2>2, <2>4, LesserQueues
  <2> QED BY <2>3, <2>5, QueuesFewer
<1>7. CASE s = s0 /\ link[s] = "up"
  <2> DEFINE q == toWorker[s]
  <2>1. toWorker'[s] = Tail(q) /\ m = Head(q)
    BY <1>1, <1>7 DEF m
  <2>2. toServer'[s] = Append(toServer[s], answer)
    <3>1. toServer'[s] = toServer[s] \o <<answer>>
      BY <1>1, <1>7 DEF Sent
    <3>2. toServer[s] \in Seq(WorkerMessage)
      BY <1>1
    <3> HIDE DEF q
    <3> QED BY <1>4, <3>1, <3>2
  <2>3. \A S : /\ Has(Tail(q), S) => Has(q, S)
               /\ m \in S => Has(q, S)
               /\ Once(q, S) => Once(Tail(q), S)
               /\ Once(q, S) /\ m \in S => ~Has(Tail(q), S)
    BY <1>1, <1>7, <2>1, TailHas
  <2>4. \A a : Sending(s, t, ranks, a)' => Sending(s, t, ranks, a)
    BY <1>1, <2>1, <2>3 DEF Sending
  <2>5. \A a : Executing(s, t, ranks, a)' <=> Executing(s, t, ranks, a)
    BY <1>1 DEF Executing
  <2>6. \A a : answer \in AnswerOf(t, ranks, a) => Sending(s, t, ranks, a)
    BY <1>5, <1>7, <2>3 DEF Sending
  <2>7. ASSUME Single(s, t, ranks)
        PROVE  /\ Once(toWorker'[s], DispatchOf(t, ranks, Nat))
               /\ \A e, f \in execs' : /\ e \in ExecOf(s, t, ranks, Nat)
                                       /\ f \in ExecOf(s, t, ranks, Nat)
                                       => e = f
    BY <1>1, <1>7, <2>1, <2>3, <2>7 DEF Single
  <2>8. ASSUME Single(s, t, ranks), answer \in AnswerOf(t, ranks, Nat)
        PROVE  ~Sending(s, t, ranks, Nat)' /\ ~Executing(s, t, ranks, Nat)'
    <3>1. m \in DispatchOf(t, ranks, Nat) /\ Sending(s, t, ranks, Nat)
      BY <1>5, <2>6, <2>8
    <3>2. ~Sending(s, t, ranks, Nat)'
      BY <1>7, <2>1, <2>3, <2>8, <3>1 DEF Single, Sending
    <3> QED BY <2>5, <2>8, <3>1, <3>2 DEF Single
  <2> HIDE DEF q
  <2> QED BY <1>1, <1>4, <1>7, <2>2, <2>4, <2>5, <2>6, <2>7, <2>8, AnswerFewer
<1> QED BY <1>6, <1>7, <1>1 DEF WireTypeOK

LEMMA FinishFewer ==
  ASSUME WireTypeOK, WorkerTypeOK, NEW e0 \in execs, NEW ok \in BOOLEAN, Finish(e0, ok),
         NEW s \in Sessions, NEW t, NEW ranks \in SUBSET Nat
  PROVE  Fewer(s, t, ranks)
<1> DEFINE answer == Answer(e0, ok)
<1>1. /\ toServer \in [Sessions -> Seq(WorkerMessage)]
      /\ e0 \in Exec /\ execs \subseteq Exec /\ e0.phase = "running"
      /\ UNCHANGED <<link, toWorker>>
      /\ toServer' = toServer \/ toServer' = Sent(e0.session, <<answer>>)
  BY DEF Finish, WireTypeOK, WorkerTypeOK
<1>2. \A e \in execs' : e.phase = "running" => e \in execs /\ e # e0
  <2>1. execs' = (execs \ {e0}) \cup {[e0 EXCEPT !.phase = "answered"]}
    BY DEF Finish
  <2>2. [e0 EXCEPT !.phase = "answered"].phase = "answered"
    BY <1>1 DEF Exec
  <2> QED BY <2>1, <2>2
<1>3. e0.task \in Tasks /\ e0.rank \in Nat /\ e0.att \in Nat
  BY <1>1 DEF Exec
<1>4. /\ answer \in WorkerMessage
      /\ answer.task = e0.task /\ answer.rank = e0.rank /\ answer.att = e0.att
  BY <1>3, AnswerIsMessage DEF Answer
<1>5. \A a : answer \in AnswerOf(t, ranks, a) /\ s = e0.session => e0 \in ExecOf(s, t, ranks, a)
  BY <1>1, <1>4, MessageOf
<1> HIDE DEF answer
<1>6. CASE toServer'[s] = toServer[s]
  BY <1>1, <1>2, <1>6, WireFewer
<1>7. CASE toServer'[s] # toServer[s]
  <2>1. s = e0.session /\ link[s] = "up" /\ toServer'[s] = toServer[s] \o <<answer>>
    BY <1>1, <1>7 DEF Sent
  <2>2. toServer'[s] = Append(toServer[s], answer)
    BY <1>1, <1>4, <2>1
  <2>3. \A a : Sending(s, t, ranks, a)' <=> Sending(s, t, ranks, a)
    BY <1>1 DEF Sending
  <2>4. \A e, a : e \in ExecOf(s, t, ranks, a) => e.phase = "running"
    BY DEF ExecOf
  <2>5. \A a : Executing(s, t, ranks, a)' => Executing(s, t, ranks, a)
    BY <1>1, <1>2, <2>4 DEF Executing
  <2>6. \A a : answer \in AnswerOf(t, ranks, a) => Executing(s, t, ranks, a)
    BY <1>5, <2>1 DEF Executing
  <2>7. ASSUME Single(s, t, ranks)
        PROVE  /\ Once(toWorker'[s], DispatchOf(t, ranks, Nat))
               /\ \A e, f \in execs' : /\ e \in ExecOf(s, t, ranks, Nat)
                                       /\ f \in ExecOf(s, t, ranks, Nat)
                                       => e = f
    BY <1>1, <1>2, <2>1, <2>4, <2>7 DEF Single
  <2>8. ASSUME Single(s, t, ranks), answer \in AnswerOf(t, ranks, Nat)
        PROVE  ~Sending(s, t, ranks, Nat)' /\ ~Executing(s, t, ranks, Nat)'
    <3>1. ~Sending(s, t, ranks, Nat)'
      BY <2>3, <2>6, <2>8 DEF Single
    <3>2. \A e \in execs : e \in ExecOf(s, t, ranks, Nat) => e = e0
      BY <1>5, <2>1, <2>8 DEF Single
    <3> QED BY <1>2, <2>4, <3>1, <3>2 DEF Executing
  <2> QED BY <1>1, <1>4, <2>1, <2>2, <2>3, <2>5, <2>6, <2>7, <2>8, AnswerFewer
<1> QED BY <1>6, <1>7

-----------------------------------------------------------------------------
(* What is sent, and to whom. *)

(* A dispatch is put on connection s0: nothing else of the wires changes. *)
Sends(s0, m) ==
  /\ m \in ServerMessage
  /\ m.type \in {"DispatchTask", "DispatchMpiSlot"}
  /\ toWorker' = Delivered({s0}, m)
  /\ UNCHANGED <<link, toServer, execs>>

AllFewer == \A s \in Sessions : \A t : \A ranks \in SUBSET Nat : Fewer(s, t, ranks)

LEMMA DeliveredTo ==
  ASSUME NEW ss, NEW m, toWorker' = Delivered(ss, m), NEW s \in Sessions
  PROVE  toWorker'[s] = toWorker[s] \/ (s \in ss /\ toWorker'[s] = Append(toWorker[s], m))
BY DEF Delivered

(* Orders that are no dispatch, and answers that are read. *)
LEMMA HandlerFewer ==
  ASSUME WireTypeOK, UNCHANGED <<link, execs>>,
         \A s \in Sessions : \/ toServer'[s] = toServer[s]
                             \/ toServer[s] # <<>> /\ toServer'[s] = Tail(toServer[s]),
         \/ UNCHANGED toWorker
         \/ \E ss : \E m \in ServerMessage :
              /\ m.type \notin {"DispatchTask", "DispatchMpiSlot"}
              /\ toWorker' = Delivered(ss, m)
  PROVE  AllFewer
<1> SUFFICES ASSUME NEW s \in Sessions, NEW t, NEW ranks \in SUBSET Nat
             PROVE  Fewer(s, t, ranks)
  BY DEF AllFewer
<1>1. \/ toWorker'[s] = toWorker[s]
      \/ \E m \in ServerMessage : /\ m.type \notin {"DispatchTask", "DispatchMpiSlot"}
                                  /\ toWorker'[s] = Append(toWorker[s], m)
  <2>1. ASSUME NEW ss, NEW m \in ServerMessage, toWorker' = Delivered(ss, m),
               m.type \notin {"DispatchTask", "DispatchMpiSlot"}
        PROVE  \/ toWorker'[s] = toWorker[s]
               \/ \E x \in ServerMessage : /\ x.type \notin {"DispatchTask", "DispatchMpiSlot"}
                                           /\ toWorker'[s] = Append(toWorker[s], x)
    <3>1. toWorker'[s] = toWorker[s] \/ toWorker'[s] = Append(toWorker[s], m)
      BY <2>1, DeliveredTo
    <3> QED BY <2>1, <3>1
  <2> QED BY <2>1
<1> QED BY <1>1, ServerFewer

(* A handler sends no dispatch. *)
LEMMA WsFewer ==
  ASSUME WireTypeOK, NEW s0 \in Sessions, WsNext(s0), UNCHANGED execs
  PROVE  /\ AllFewer
         /\ UNCHANGED link
         /\ \A s \in Sessions : \/ toServer'[s] = toServer[s]
                                \/ /\ s = s0 /\ toServer[s] # <<>>
                                   /\ toServer'[s] = Tail(toServer[s])
<1> USE DEF wireVars
<1>1. UNCHANGED link
  BY DEF WsNext, OnRegister, OnHeartbeat, OnTaskResult, OnTaskError, Answered,
         OnMpiRankResult, OnMpiRankError, Finalize, Finalized, OnDraining, OnClose,
         RequeueLost, LostRequeued
<1>2. UNCHANGED toServer \/ \E type : Receive(s0, type)
  BY DEF WsNext, OnRegister, OnHeartbeat, OnTaskResult, OnTaskError, Answered,
         OnMpiRankResult, OnMpiRankError, Finalize, Finalized, OnDraining, OnClose,
         RequeueLost, LostRequeued
<1>3. \A s \in Sessions : \/ toServer'[s] = toServer[s]
                          \/ s = s0 /\ toServer[s] # <<>> /\ toServer'[s] = Tail(toServer[s])
  <2>1. CASE UNCHANGED toServer
    BY <2>1
  <2>2. CASE \E type : Receive(s0, type)
    <3>1. PICK type : Receive(s0, type)
      BY <2>2
    <3> QED BY <3>1 DEF Receive, WireTypeOK
  <2> QED BY <1>2, <2>1, <2>2
<1>4. \/ UNCHANGED toWorker
      \/ \E ss : \E m \in ServerMessage :
           /\ m.type \notin {"DispatchTask", "DispatchMpiSlot"}
           /\ toWorker' = Delivered(ss, m)
  <2>1. CASE OnRegister(s0)
    <3>1. [type |-> "Registered"] \in ServerMessage
      BY DEF ServerMessage
    <3> QED BY <2>1, <3>1 DEF OnRegister
  <2>2. CASE OnMpiRankError(s0)
    <3> DEFINE m == [type |-> "AbortMpiJob", task |-> Head(toServer[s0]).task]
    <3>1. Head(toServer[s0]).task \in Tasks
      BY <2>2, ReceiveType DEF OnMpiRankError
    <3>2. m \in ServerMessage /\ m.type = "AbortMpiJob"
      BY <3>1 DEF ServerMessage
    <3>3. UNCHANGED toWorker \/ \E ss : toWorker' = Delivered(ss, m)
      BY <2>2 DEF OnMpiRankError, AbortMpiJob
    <3> HIDE DEF m
    <3> QED BY <3>2, <3>3
  <2> QED BY <2>1, <2>2
          DEF WsNext, OnHeartbeat, OnTaskResult, OnTaskError, Answered,
              OnMpiRankResult, Finalize, Finalized, OnDraining, OnClose,
              RequeueLost, LostRequeued
<1>5. AllFewer
  <2>1. \A s \in Sessions : \/ toServer'[s] = toServer[s]
                            \/ toServer[s] # <<>> /\ toServer'[s] = Tail(toServer[s])
    BY <1>3
  <2>2. UNCHANGED <<link, execs>>
    BY <1>1
  <2> QED BY <1>4, <2>1, <2>2, HandlerFewer
<1> QED BY <1>1, <1>3, <1>5

(* Connections open, end, beat, break, and executions are ended.  A broken *)
(* connection stays so, and brings the server nothing new.                 *)
WireGoesOn ==
  \A s \in Sessions : link[s] = "down" =>
    link'[s] = "down" /\ (toServer[s] = <<>> => toServer'[s] = <<>>)

LEMMA BreakFewer ==
  ASSUME WireTypeOK, NEW s0 \in Sessions, Break(s0), execs' \subseteq execs
  PROVE  AllFewer /\ WireGoesOn
<1> SUFFICES ASSUME NEW s \in Sessions, NEW t, NEW ranks \in SUBSET Nat
             PROVE  /\ Fewer(s, t, ranks)
                    /\ link[s] = "down" =>
                         link'[s] = "down" /\ (toServer[s] = <<>> => toServer'[s] = <<>>)
  BY DEF AllFewer, WireGoesOn
<1>1. link[s] = "down" => link'[s] = "down" /\ toServer'[s] = toServer[s]
  BY DEF Break, WireTypeOK
<1>2. toWorker'[s] = toWorker[s] \/ toWorker'[s] = <<>>
  BY DEF Break, WireTypeOK
<1>3. \/ toServer'[s] = toServer[s]
      \/ \E n \in 0 .. Len(toServer[s]) : toServer'[s] = SubSeq(toServer[s], 1, n)
  BY DEF Break, WireTypeOK
<1>4. \A e \in execs' : e.phase = "running" => e \in execs
  OBVIOUS
<1>5. Fewer(s, t, ranks)
  BY <1>1, <1>2, <1>3, <1>4, WireFewer
<1> QED BY <1>1, <1>5

LEMMA SessionFewer ==
  ASSUME WireTypeOK, WorkerTypeOK, NEW s0 \in Sessions,
         Connect(s0) \/ HeartbeatTick(s0) \/ SendHeartbeat(s0) \/ Ignore(s0) \/ ReceiveDispatch(s0)
  PROVE  AllFewer /\ WireGoesOn
<1> SUFFICES ASSUME NEW s \in Sessions, NEW t, NEW ranks \in SUBSET Nat
             PROVE  /\ Fewer(s, t, ranks)
                    /\ link[s] = "down" =>
                         link'[s] = "down" /\ (toServer[s] = <<>> => toServer'[s] = <<>>)
  BY DEF AllFewer, WireGoesOn
<1>1. CASE Connect(s0)
  <2>1. link[s] = "down" => link'[s] = "down" /\ toServer'[s] = toServer[s]
    BY <1>1 DEF Connect, WireTypeOK
  <2>2. toServer'[s] = toServer[s] \/ toServer'[s] = <<[type |-> "Register"]>>
    BY <1>1 DEF Connect, WireTypeOK
  <2>3. toWorker'[s] = toWorker[s] /\ execs' = execs
    BY <1>1 DEF Connect
  <2> QED BY <2>1, <2>2, <2>3, WireFewer
<1>5. CASE HeartbeatTick(s0)
  <2>1. UNCHANGED <<link, toServer, toWorker, execs>>
    BY <1>5 DEF HeartbeatTick, wireVars
  <2> QED BY <2>1, WireFewer
<1>2. CASE SendHeartbeat(s0)
  <2> DEFINE pulse == Heartbeat(s0)
             drain == [type |-> "Draining"]
  <2>1. /\ UNCHANGED <<link, toWorker, execs>>
        /\ toServer' = Sent(s0, <<pulse>>) \/ toServer' = Sent(s0, <<pulse, drain>>)
    BY <1>2 DEF SendHeartbeat
  <2>2. pulse \in WorkerMessage /\ pulse.type = "Heartbeat" /\ drain \in WorkerMessage
    BY <1>2 DEF SendHeartbeat, Heartbeat, WorkerMessage, WorkerTypeOK
  <2> HIDE DEF pulse
  <2>3. CASE s # s0 \/ link[s] # "up"
    <3>1. toServer'[s] = toServer[s]
      BY <2>1, <2>3 DEF Sent, WireTypeOK
    <3> QED BY <2>1, <3>1, WireFewer
  <2>4. CASE s = s0 /\ link[s] = "up"
    <3>1. toServer[s] \in Seq(WorkerMessage)
      BY DEF WireTypeOK
    <3>2. \/ toServer'[s] = toServer[s] \o <<pulse>>
          \/ toServer'[s] = toServer[s] \o <<pulse, drain>>
      BY <2>1, <2>4 DEF Sent, WireTypeOK
    <3> HIDE DEF drain
    <3>3. /\ toServer[s] \o <<pulse>> = Append(toServer[s], pulse)
          /\ toServer[s] \o <<pulse, drain>> = Append(Append(toServer[s], pulse), drain)
      BY <2>2, <3>1
    <3>4. \/ toServer'[s] = Append(toServer[s], pulse)
          \/ toServer'[s] = Append(Append(toServer[s], pulse), [type |-> "Draining"])
      BY <3>2, <3>3 DEF drain
    <3>5. Fewer(s, t, ranks)
      BY <2>1, <2>2, <3>4, WireFewer
    <3> QED BY <2>4, <3>5
  <2> QED BY <2>3, <2>4
<1>3. CASE Ignore(s0)
  <2>1. UNCHANGED <<link, toServer, execs>>
    BY <1>3 DEF Ignore, workerVars
  <2>2. toWorker'[s] = toWorker[s] \/ (toWorker[s] # <<>> /\ toWorker'[s] = Tail(toWorker[s]))
    BY <1>3 DEF Ignore, WireTypeOK
  <2> QED BY <2>1, <2>2, WireFewer
<1>4. CASE ReceiveDispatch(s0)
  <2>1. link' = link /\ (UNCHANGED toServer \/ \E msgs : toServer' = Sent(s0, msgs))
    BY <1>4 DEF ReceiveDispatch, Accept, Refuse
  <2>2. link[s] = "down" => toServer'[s] = toServer[s]
    BY <2>1 DEF Sent, WireTypeOK
  <2>3. Fewer(s, t, ranks)
    BY <1>4, AcceptFewer, RefuseFewer DEF ReceiveDispatch
  <2> QED BY <2>1, <2>2, <2>3
<1> QED BY <1>1, <1>2, <1>3, <1>4, <1>5

(* The steps of a process, and of an execution. *)
LEMMA ProcessFewer ==
  ASSUME WireTypeOK, WorkerTypeOK, NEW n \in Nodes,
         EndSession(n) \/ Exit(n) \/ CtrlC(n) \/ Crash(n)
  PROVE  AllFewer /\ WireGoesOn
<1> USE DEF wireVars
<1>1. execs' \subseteq execs
  BY DEF EndSession, Exit, CtrlC, Crash
<1>2. UNCHANGED wireVars \/ \E s \in Sessions : Break(s)
  BY ProcessType DEF EndSession, Exit, CtrlC, Crash
<1>3. CASE UNCHANGED wireVars
  BY <1>1, <1>3, WireFewer DEF AllFewer, WireGoesOn
<1> QED BY <1>1, <1>2, <1>3, BreakFewer

LEMMA ExecFewer ==
  ASSUME WireTypeOK, WorkerTypeOK, NEW e \in execs,
         Finish(e, TRUE) \/ Finish(e, FALSE) \/ Release(e)
  PROVE  AllFewer /\ WireGoesOn
<1> USE DEF wireVars
<1>1. CASE Finish(e, TRUE) \/ Finish(e, FALSE)
  <2>1. AllFewer
    BY <1>1, FinishFewer DEF AllFewer
  <2>2. link' = link /\ (UNCHANGED toServer \/ \E s, msgs : toServer' = Sent(s, msgs))
    BY <1>1 DEF Finish
  <2>3. ASSUME NEW s \in Sessions, link[s] = "down" PROVE toServer'[s] = toServer[s]
    BY <2>2, <2>3 DEF Sent, WireTypeOK
  <2> QED BY <2>1, <2>2, <2>3 DEF WireGoesOn
<1>2. CASE Release(e)
  <2>1. UNCHANGED wireVars /\ execs' \subseteq execs
    BY <1>2 DEF Release
  <2> QED BY <2>1, WireFewer DEF AllFewer, WireGoesOn
<1> QED BY <1>1, <1>2

(* A dispatch that is sent is outstanding on its connection only. *)
LEMMA SendAdds ==
  ASSUME WireTypeOK, NEW s0 \in Sessions, NEW m, Sends(s0, m),
         NEW s \in Sessions, NEW t, NEW ranks \in SUBSET Nat
  PROVE  /\ ~(s = s0 /\ t = m.task /\ m.rank \in ranks) => Fewer(s, t, ranks)
         /\ \A atts : Outstanding(s, t, ranks, atts)' =>
              Outstanding(s, t, ranks, atts) \/ m.att \in atts
         /\ Single(s, t, ranks) /\ ~Outstanding(s, t, ranks, Nat) => Single(s, t, ranks)'
<1>1. /\ m \in ServerMessage
      /\ UNCHANGED <<link, toServer, execs>>
      /\ toWorker[s] \in Seq(ServerMessage)
  BY DEF Sends, WireTypeOK
<1>2. toWorker'[s] = toWorker[s] \/ (s = s0 /\ toWorker'[s] = Append(toWorker[s], m))
  BY DEF Sends, Delivered
<1>3. \A a : m \in DispatchOf(t, ranks, a) => m.task = t /\ m.rank \in ranks /\ m.att \in a
  BY DEF DispatchOf
<1>4. \A S : /\ Has(toWorker'[s], S) => Has(toWorker[s], S) \/ m \in S
             /\ Once(toWorker[s], S) /\ (m \in S => ~Has(toWorker[s], S))
                  => Once(toWorker'[s], S)
  <2>1. \A S : /\ Has(Append(toWorker[s], m), S) <=> Has(toWorker[s], S) \/ m \in S
               /\ Once(toWorker[s], S) /\ (m \in S => ~Has(toWorker[s], S))
                    => Once(Append(toWorker[s], m), S)
    BY <1>1, AppendHas
  <2> QED BY <1>2, <2>1
<1>5. ASSUME ~(s = s0 /\ t = m.task /\ m.rank \in ranks) PROVE Fewer(s, t, ranks)
  <2>1. \A a : Lesser(toWorker[s], toWorker'[s], DispatchOf(t, ranks, a))
    <3>1. CASE toWorker'[s] = toWorker[s]
      BY <3>1 DEF Lesser
    <3>2. CASE s = s0
      BY <1>3, <1>4, <1>5, <3>2 DEF Lesser
    <3> QED BY <1>2, <3>1, <3>2
  <2>2. \A a : Lesser(toServer[s], toServer'[s], AnswerOf(t, ranks, a))
    BY <1>1 DEF Lesser
  <2> QED BY <1>1, <2>1, <2>2, QueuesFewer
<1>6. \A a : Sending(s, t, ranks, a)' => Sending(s, t, ranks, a) \/ m.att \in a
  BY <1>1, <1>3, <1>4 DEF Sending
<1>7. \A a : /\ Executing(s, t, ranks, a)' <=> Executing(s, t, ranks, a)
             /\ Answering(s, t, ranks, a)' <=> Answering(s, t, ranks, a)
  BY <1>1 DEF Executing, Answering
<1>8. ASSUME Single(s, t, ranks), ~Outstanding(s, t, ranks, Nat) PROVE Single(s, t, ranks)'
  <2>1. link'[s] # "down" => Once(toWorker'[s], DispatchOf(t, ranks, Nat))
    BY <1>1, <1>4, <1>8 DEF Single, Outstanding, Sending
  <2>2. ~Executing(s, t, ranks, Nat)' /\ ~Answering(s, t, ranks, Nat)'
    BY <1>7, <1>8 DEF Outstanding
  <2> QED BY <1>1, <1>8, <2>1, <2>2 DEF Single
<1> QED BY <1>5, <1>6, <1>7, <1>8 DEF Outstanding

(* The answer that a handler reads was outstanding, and nothing is left of *)
(* its dispatch.                                                           *)
LEMMA ReadEnds ==
  ASSUME WireTypeOK, UNCHANGED <<link, execs>>, NEW s \in Sessions, NEW type,
         type \in {"TaskResult", "TaskError", "MpiRankResult", "MpiRankError"},
         Receive(s, type), NEW m, m = Head(toServer[s]), NEW t, t = m.task,
         NEW ranks \in SUBSET Nat, m.rank \in ranks,
         \/ toWorker'[s] = toWorker[s]
         \/ \E x \in ServerMessage : /\ x.type \notin {"DispatchTask", "DispatchMpiSlot"}
                                     /\ toWorker'[s] = Append(toWorker[s], x)
  PROVE  /\ \A atts : m.att \in atts => Outstanding(s, t, ranks, atts)
         /\ Single(s, t, ranks) => ~Outstanding(s, t, ranks, Nat)'
<1>1. /\ toServer[s] \in Seq(WorkerMessage) /\ toServer[s] # <<>>
      /\ toServer'[s] = Tail(toServer[s])
      /\ toWorker[s] \in Seq(ServerMessage)
  BY DEF WireTypeOK, Receive
<1>2. m \in WorkerMessage /\ m.type = type /\ m.att \in Nat
  BY ReceiveType
<1>3. \A a : m.att \in a => m \in AnswerOf(t, ranks, a)
  BY <1>2, MessageOf
<1>4. \A S : /\ m \in S => Has(toServer[s], S)
             /\ Once(toServer[s], S) /\ m \in S => ~Has(toServer'[s], S)
  BY <1>1, TailHas
<1>5. \A a : m.att \in a => Answering(s, t, ranks, a)
  BY <1>3, <1>4 DEF Answering
<1>6. ASSUME Single(s, t, ranks) PROVE ~Outstanding(s, t, ranks, Nat)'
  <2>1. ~Sending(s, t, ranks, Nat) /\ ~Executing(s, t, ranks, Nat)
    BY <1>2, <1>5, <1>6 DEF Single
  <2>2. ~Answering(s, t, ranks, Nat)'
    BY <1>2, <1>3, <1>4, <1>6 DEF Single, Answering
  <2>3. ~Executing(s, t, ranks, Nat)'
    BY <2>1 DEF Executing
  <2>4. Lesser(toWorker[s], toWorker'[s], DispatchOf(t, ranks, Nat))
    BY <1>1, LesserQueues, OtherMessages
  <2>5. ~Sending(s, t, ranks, Nat)'
    BY <2>1, <2>4 DEF Sending, Lesser
  <2> QED BY <2>2, <2>3, <2>5 DEF Outstanding
<1> QED BY <1>5, <1>6 DEF Outstanding

-----------------------------------------------------------------------------
(* While one handler looks after a node *)

(* The task at the position of the scan is nowhere else. *)
LEMMA CurrentIsQueued ==
  ASSUME IInv, PlaceInv, sched.pc \in {"scan", "record", "mpi"},
         sched.idx <= Len(pending_tasks)
  PROVE  Current \in Tasks /\ ~Elsewhere(Current)
<1>1. /\ sched.idx \in Nat /\ sched.idx >= 1
      /\ pending_tasks \in Seq(Tasks) /\ Len(pending_tasks) \in Nat
  BY DEF IInv, TypeOK, SchedTypeOK, SchedState, AppTypeOK, ScanInv
<1>2. sched.idx \in 1 .. Len(pending_tasks)
  BY <1>1
<1>3. Current \in Tasks
  BY <1>1, <1>2 DEF Current
<1>4. sched.idx \notin Leaving
  BY <1>1 DEF IInv, ScanInv, Leaving
<1>5. Queued(Current)
  BY <1>2, <1>4 DEF Queued, Positions, Current
<1> QED BY <1>3, <1>5 DEF PlaceInv

(* A task is assigned to one node. *)
LEMMA AssignedOnce ==
  ASSUME IInv, PlaceInv, NEW t \in Tasks, NEW n, Assigned(t, n)
  PROVE  /\ \A k : Assigned(t, k) => k = n
         /\ running_tasks[t] # None => running_tasks[t].nodes = {n}
         /\ running_tasks[t] = None => sched.pc = "record" /\ Current = t
<1>1. sched.pc = "record" /\ Current = t => running_tasks[t] = None
  BY CurrentIsQueued DEF Elsewhere, IInv, ScanInv
<1> QED BY <1>1 DEF Assigned

LEMMA AssignedKept ==
  ASSUME NEW t, NEW n, Assigned(t, n), running_tasks'[t] = running_tasks[t],
         sched.pc = "record" => UNCHANGED <<sched, pending_tasks>>
  PROVE  Assigned(t, n)'
BY DEF Assigned, Current

(* Nothing is outstanding on a connection that is down and read. *)
LEMMA SilentEnd ==
  ASSUME NEW s, NEW t, NEW ranks, NEW atts, link[s] = "down", toServer[s] = <<>>
  PROVE  ~Outstanding(s, t, ranks, atts)
BY NothingHas DEF Outstanding, Sending, Executing, Answering

(* A call that begins or ends adds nothing to the lists of others. *)
LEMMA SamePending ==
  ASSUME UNCHANGED <<call, session>>
  PROVE  \A p \in Procs : Pending(p)' \subseteq Pending(p)
BY DEF Pending

LEMMA OthersPending ==
  ASSUME NEW p0 \in Procs, \A p \in Procs : p # p0 => call'[p] = call[p],
         \A s \in Sessions : s # p0 => session'[s] = session[s]
  PROVE  \A p \in Procs : p # p0 => Pending(p)' \subseteq Pending(p)
BY OthersHold

LEMMA ListedType ==
  ASSUME AppTypeOK, WsTypeOK
  PROVE  \A s \in Sessions : ListedBy(s) \subseteq Tasks
<1>1. \A s \in Sessions : s \in Procs /\ session[s].todo \subseteq Tasks
  BY DEF WsTypeOK, WsState, Procs
<1>2. \A p \in Procs : call[p] # None => call[p].task \in Tasks
  BY CallFields
<1> QED BY <1>1, <1>2 DEF ListedBy, Pending

(* Steps that dispatch nothing and take no task. *)
LEMMA FreshKept ==
  ASSUME FreshInv, AllFewer, WireGoesOn,
         UNCHANGED <<session, running_tasks, mpi_jobs, worker_channels>>,
         \A p \in Procs : Pending(p)' \subseteq Pending(p),
         sched.pc = "record" => UNCHANGED <<sched, pending_tasks>>
  PROVE  FreshInv'
<1>0. SingleTasksOnly' /\ ChannelsAreRead'
  BY DEF FreshInv, SingleTasksOnly, ChannelsAreRead
<1>1. ListsAreFresh'
  <2>1. \A s \in Sessions : ListedBy(s)' \subseteq ListedBy(s) /\ s \in Procs
    BY DEF ListedBy, Procs
  <2> QED BY <2>1 DEF FreshInv, ListsAreFresh
<1>2. EndsInSilence'
  BY DEF FreshInv, EndsInSilence, WireGoesOn
<1>3. ASSUME NEW s \in Sessions, NEW t \in Tasks
      PROVE  /\ Outstanding(s, t, Nat, Nat)' =>
                  session'[s].pc \in ReadPc /\ Assigned(t, NodeOf[s])'
             /\ Single(s, t, Nat)'
  <2>1. Fewer(s, t, Nat)
    BY DEF AllFewer
  <2>2. /\ Outstanding(s, t, Nat, Nat) => session[s].pc \in ReadPc /\ Assigned(t, NodeOf[s])
        /\ Single(s, t, Nat)
    BY DEF FreshInv, AnswersAreAwaited
  <2>3. Assigned(t, NodeOf[s]) => Assigned(t, NodeOf[s])'
    BY AssignedKept
  <2> QED BY <2>1, <2>2, <2>3 DEF Fewer
<1>4. AnswersAreAwaited'
  BY <1>3 DEF AnswersAreAwaited
<1> QED BY <1>0, <1>1, <1>2, <1>4 DEF FreshInv

(* A handler goes on: it keeps what it reads until the connection has      *)
(* ended, and takes a task only when no answer to it is outstanding.       *)
LEMMA FreshMoves ==
  ASSUME FreshInv, AllFewer, WireGoesOn, UNCHANGED <<sched, pending_tasks>>,
         NEW s0 \in Sessions,
         \A r \in Sessions : r # s0 => session'[r] = session[r],
         \A p \in Procs : p # s0 => Pending(p)' \subseteq Pending(p),
         session'[s0].pc \in {"loop", "answered", "lost", "mpi_lost", "closed"},
         session[s0].pc \in ReadPc /\ session'[s0].pc \notin ReadPc
           => link[s0] = "down" /\ toServer[s0] = <<>>,
         session'[s0].pc \in {"lost", "mpi_lost", "closed"}
           => link[s0] = "down" /\ toServer[s0] = <<>>,
         \A n \in Nodes : worker_channels'[n] # None =>
           \/ /\ worker_channels'[n] = worker_channels[n]
              /\ worker_channels[n] = s0 => session'[s0].pc \in ReadPc
           \/ /\ worker_channels'[n] = s0 /\ NodeOf[s0] = n
              /\ session'[s0].pc \in ReadPc,
         \A n \in Nodes : worker_channels[n] \in Sessions \cup {None},
         \A t \in Tasks : mpi_jobs'[t] = None,
         \A t \in Tasks : \/ running_tasks'[t] = running_tasks[t]
                          \/ /\ running_tasks'[t] = None
                             /\ \A s \in Sessions : /\ ~Outstanding(s, t, Nat, Nat)'
                                                    /\ t \notin ListedBy(s)',
         ListedBy(s0)' \subseteq Tasks,
         \A s \in Sessions : ListedBy(s) \subseteq Tasks,
         \A t \in ListedBy(s0)' :
           /\ session'[s0].pc = "lost"
           /\ running_tasks[t] # None /\ running_tasks[t].nodes = {NodeOf[s0]},
         session'[s0].todo \cap Pending(s0)' = {}
  PROVE  FreshInv'
<1>1. SingleTasksOnly'
  BY DEF FreshInv, SingleTasksOnly
<1>2. EndsInSilence'
  BY DEF FreshInv, EndsInSilence, WireGoesOn
<1>3. ChannelsAreRead'
  BY DEF FreshInv, ChannelsAreRead
<1>4. ASSUME NEW s \in Sessions, NEW t \in Tasks
      PROVE  /\ Outstanding(s, t, Nat, Nat)' =>
                  session'[s].pc \in ReadPc /\ Assigned(t, NodeOf[s])'
             /\ Single(s, t, Nat)'
  <2>1. Fewer(s, t, Nat)
    BY DEF AllFewer
  <2>2. /\ Outstanding(s, t, Nat, Nat) => session[s].pc \in ReadPc /\ Assigned(t, NodeOf[s])
        /\ Single(s, t, Nat)
    BY DEF FreshInv, AnswersAreAwaited
  <2>3. ASSUME Outstanding(s, t, Nat, Nat)'
        PROVE  session'[s].pc \in ReadPc /\ Assigned(t, NodeOf[s])'
    <3>1. Outstanding(s, t, Nat, Nat)
      BY <2>1, <2>3 DEF Fewer
    <3>2. ~(link[s] = "down" /\ toServer[s] = <<>>)
      BY <3>1, SilentEnd
    <3>3. running_tasks'[t] = running_tasks[t]
      BY <2>3
    <3>4. Assigned(t, NodeOf[s])'
      BY <2>2, <3>1, <3>3, AssignedKept
    <3> QED BY <2>2, <3>1, <3>2, <3>4
  <2> QED BY <2>1, <2>2, <2>3 DEF Fewer
<1>5. AnswersAreAwaited'
  BY <1>4 DEF AnswersAreAwaited
<1>6. ASSUME NEW s \in Sessions, NEW t \in ListedBy(s)'
      PROVE  /\ session'[s].pc = "lost"
             /\ running_tasks'[t] # None
             /\ running_tasks'[t].nodes = {NodeOf[s]}
  <2>0. s # s0 => t \in ListedBy(s)
    BY <1>6 DEF ListedBy, Procs
  <2>1. t \in Tasks
    BY <1>6, <2>0
  <2>2. running_tasks'[t] = running_tasks[t]
    BY <1>6, <2>1
  <2>3. /\ session'[s].pc = "lost" /\ running_tasks[t] # None
        /\ running_tasks[t].nodes = {NodeOf[s]}
    BY <1>6, <2>0 DEF FreshInv, ListsAreFresh
  <2> QED BY <2>2, <2>3
<1>7. ListsAreFresh'
  <2>1. \A s \in Sessions : session'[s].todo \cap Pending(s)' = {}
    BY DEF FreshInv, ListsAreFresh, Procs
  <2>2. \A p \in Procs \ Sessions : Pending(p)' = {}
    BY DEF FreshInv, ListsAreFresh
  <2> QED BY <1>6, <2>1, <2>2 DEF ListsAreFresh
<1> QED BY <1>1, <1>2, <1>3, <1>5, <1>7 DEF FreshInv

(* The answer that takes a task is the one that was awaited. *)
LEMMA FreshAnswer ==
  ASSUME IInv, PlaceInv, FreshInv, Orderly, AllFewer, WireGoesOn,
         UNCHANGED <<sched, pending_tasks, link, execs, toWorker, worker_channels, mpi_jobs>>,
         NEW s0 \in Sessions, NEW type \in {"TaskResult", "TaskError"}, Receive(s0, type),
         NEW t0, t0 = Head(toServer[s0]).task, running_tasks[t0] # None,
         running_tasks'[t0] = None,
         \A u \in Tasks : u # t0 => running_tasks'[u] = running_tasks[u],
         Goto(s0, At("answered")), Pending(s0)' = {},
         \A p \in Procs : p # s0 => Pending(p)' \subseteq Pending(p)
  PROVE  FreshInv'
<1> USE DEF IInv, TypeOK
<1>1. PICK m : m = Head(toServer[s0])
  OBVIOUS
<1>2. t0 \in Tasks /\ t0 = m.task /\ m.rank \in Nat /\ m.att \in Nat
  BY <1>1, ReceiveType
<1>3. /\ Outstanding(s0, t0, Nat, Nat)
      /\ Single(s0, t0, Nat) => ~Outstanding(s0, t0, Nat, Nat)'
  <2>1. UNCHANGED <<link, execs>> /\ toWorker'[s0] = toWorker[s0]
    OBVIOUS
  <2> QED BY <1>1, <1>2, <2>1, ReadEnds
<1>4. session[s0].pc \in ReadPc /\ Assigned(t0, NodeOf[s0]) /\ Single(s0, t0, Nat)
  BY <1>2, <1>3 DEF FreshInv, AnswersAreAwaited
<1>5. running_tasks[t0].nodes = {NodeOf[s0]}
  BY <1>2, <1>4, AssignedOnce
<1>6. Attended(s0)
  BY <1>4 DEF Attended, ReadPc
<1>7. ASSUME NEW s \in Sessions PROVE ~Outstanding(s, t0, Nat, Nat)'
  <2>1. CASE s = s0
    BY <1>3, <1>4, <2>1
  <2>2. CASE s # s0
    <3>1. ASSUME Outstanding(s, t0, Nat, Nat)' PROVE FALSE
      <4>1. Outstanding(s, t0, Nat, Nat)
        BY <3>1 DEF AllFewer, Fewer
      <4>2. session[s].pc \in ReadPc /\ Assigned(t0, NodeOf[s])
        BY <1>2, <4>1 DEF FreshInv, AnswersAreAwaited
      <4>3. NodeOf[s] = NodeOf[s0]
        BY <1>2, <1>4, <4>2, AssignedOnce
      <4>4. Attended(s)
        BY <4>2 DEF Attended, ReadPc
      <4> QED BY <1>6, <2>2, <4>3, <4>4 DEF Orderly
    <3> QED BY <3>1
  <2> QED BY <2>1, <2>2
<1>8. /\ session'[s0] = At("answered")
      /\ \A r \in Sessions : r # s0 => session'[r] = session[r]
  BY DEF Goto, WsTypeOK
<1>9. session'[s0].pc = "answered" /\ session'[s0].todo = {} /\ ListedBy(s0)' = {}
  BY <1>8 DEF At, ListedBy
<1>10. ASSUME NEW s \in Sessions PROVE t0 \notin ListedBy(s)'
  <2>1. CASE s = s0
    BY <1>9, <2>1
  <2>2. CASE s # s0
    <3>1. ASSUME t0 \in ListedBy(s) PROVE FALSE
      <4>1. session[s].pc = "lost" /\ running_tasks[t0].nodes = {NodeOf[s]}
        BY <3>1 DEF FreshInv, ListsAreFresh
      <4>2. NodeOf[s] = NodeOf[s0] /\ Attended(s)
        BY <1>5, <4>1 DEF Attended
      <4> QED BY <1>6, <2>2, <4>2 DEF Orderly
    <3>2. ListedBy(s)' \subseteq ListedBy(s)
      BY <1>8, <2>2 DEF ListedBy, Procs
    <3> QED BY <3>1, <3>2
  <2> QED BY <2>1, <2>2
<1>11. /\ \A n \in Nodes : worker_channels[n] \in Sessions \cup {None}
       /\ \A s \in Sessions : ListedBy(s) \subseteq Tasks
  BY ListedType DEF AppTypeOK
<1>12. \A t \in Tasks : mpi_jobs'[t] = None
  BY DEF FreshInv, SingleTasksOnly
<1>13. session'[s0].pc \in ReadPc
  BY <1>9 DEF ReadPc
<1>14. \A t \in Tasks : \/ running_tasks'[t] = running_tasks[t]
                        \/ /\ running_tasks'[t] = None
                           /\ \A s \in Sessions : /\ ~Outstanding(s, t, Nat, Nat)'
                                                  /\ t \notin ListedBy(s)'
  BY <1>7, <1>10
<1> QED BY <1>8, <1>9, <1>11, <1>12, <1>13, <1>14, FreshMoves

(* requeue takes a listed task: only this handler has it on a list, and no *)
(* answer of its node is outstanding.                                      *)
LEMMA FreshRequeue ==
  ASSUME IInv, PlaceInv, FreshInv, Orderly, AllFewer, WireGoesOn,
         UNCHANGED <<sched, pending_tasks, worker_channels, session, mpi_jobs>>,
         NEW s0 \in Sessions, NEW t0 \in Pending(s0),
         running_tasks'[t0] = None,
         \A u \in Tasks : u # t0 => running_tasks'[u] = running_tasks[u],
         Pending(s0)' = {},
         \A p \in Procs : p # s0 => Pending(p)' \subseteq Pending(p)
  PROVE  FreshInv'
<1> USE DEF IInv, TypeOK
<1>1. /\ session[s0].pc = "lost" /\ running_tasks[t0] # None
      /\ running_tasks[t0].nodes = {NodeOf[s0]}
      /\ t0 \in Tasks /\ t0 \notin session[s0].todo
  <2>1. t0 \in ListedBy(s0)
    BY DEF ListedBy
  <2> QED BY <2>1, ListedType DEF FreshInv, ListsAreFresh
<1>2. link[s0] = "down" /\ toServer[s0] = <<>> /\ Attended(s0)
  BY <1>1 DEF FreshInv, EndsInSilence, Attended
<1>3. ASSUME NEW s \in Sessions PROVE ~Outstanding(s, t0, Nat, Nat)'
  <2>1. ASSUME Outstanding(s, t0, Nat, Nat)' PROVE FALSE
    <3>1. Outstanding(s, t0, Nat, Nat)
      BY <2>1 DEF AllFewer, Fewer
    <3>2. session[s].pc \in ReadPc /\ Assigned(t0, NodeOf[s])
      BY <1>1, <3>1 DEF FreshInv, AnswersAreAwaited
    <3>3. NodeOf[s] = NodeOf[s0]
      <4>1. running_tasks[t0].nodes = {NodeOf[s]}
        BY <1>1, <3>2, AssignedOnce
      <4> QED BY <1>1, <4>1
    <3>4. Attended(s)
      BY <3>2 DEF Attended, ReadPc
    <3>5. s = s0
      BY <1>2, <3>3, <3>4 DEF Orderly
    <3> QED BY <1>1, <3>2, <3>5 DEF ReadPc
  <2> QED BY <2>1
<1>5. session'[s0].pc = "lost" /\ ListedBy(s0)' = session[s0].todo
  BY <1>1 DEF ListedBy
<1>6. ASSUME NEW s \in Sessions PROVE t0 \notin ListedBy(s)'
  <2>1. CASE s = s0
    BY <1>1, <1>5, <2>1
  <2>2. CASE s # s0
    <3>1. ASSUME t0 \in ListedBy(s) PROVE FALSE
      <4>1. session[s].pc = "lost" /\ running_tasks[t0].nodes = {NodeOf[s]}
        BY <3>1 DEF FreshInv, ListsAreFresh
      <4>2. NodeOf[s] = NodeOf[s0] /\ Attended(s)
        BY <1>1, <4>1 DEF Attended
      <4> QED BY <1>2, <2>2, <4>2 DEF Orderly
    <3>2. ListedBy(s)' \subseteq ListedBy(s)
      BY <2>2 DEF ListedBy, Procs
    <3> QED BY <3>1, <3>2
  <2> QED BY <2>1, <2>2
<1>7. /\ \A n \in Nodes : worker_channels[n] \in Sessions \cup {None}
      /\ \A s \in Sessions : ListedBy(s) \subseteq Tasks
  BY ListedType DEF AppTypeOK
<1>8. \A n \in Nodes : worker_channels[n] # s0
  BY <1>1, IdsAssumption DEF FreshInv, ChannelsAreRead, ReadPc
<1>9. \A t \in Tasks : \/ running_tasks'[t] = running_tasks[t]
                       \/ /\ running_tasks'[t] = None
                          /\ \A s \in Sessions : /\ ~Outstanding(s, t, Nat, Nat)'
                                                 /\ t \notin ListedBy(s)'
  BY <1>3, <1>6
<1>10. \A t \in ListedBy(s0)' :
         /\ session'[s0].pc = "lost"
         /\ running_tasks[t] # None /\ running_tasks[t].nodes = {NodeOf[s0]}
  BY <1>5 DEF FreshInv, ListsAreFresh, ListedBy
<1>11. ListedBy(s0)' \subseteq Tasks
  BY <1>5, <1>7 DEF ListedBy
<1>12. \A t \in Tasks : mpi_jobs'[t] = None
  BY DEF FreshInv, SingleTasksOnly
<1> QED BY <1>2, <1>5, <1>7, <1>8, <1>9, <1>10, <1>11, <1>12, FreshMoves

(* A call goes on: it takes a listed task, or no task that is running. *)
LEMMA FreshGoesOn ==
  ASSUME IInv, PlaceInv, FreshInv, Orderly, AllFewer, WireGoesOn,
         UNCHANGED <<sched, worker_channels, session, mpi_jobs>>,
         NEW p \in Procs, GoesOn(p)
  PROVE  FreshInv'
<1> USE DEF IInv, TypeOK
<1>1. UNCHANGED pending_tasks /\ \A q \in Procs : q # p => call'[q] = call[q]
  BY CallGoesOn
<1>2. \A q \in Procs : q # p => Pending(q)' \subseteq Pending(q)
  BY <1>1, OthersPending
<1>3. PICK t \in Tasks :
        /\ call[p] # None /\ call[p].task = t
        /\ \/ UNCHANGED running_tasks /\ Pending(p)' = Pending(p)
           \/ running_tasks' = [running_tasks EXCEPT ![t] = None] /\ Pending(p)' = {}
  BY CallGoesOn
<1>4. CASE UNCHANGED running_tasks
  <2>1. Pending(p)' \subseteq Pending(p)
    BY <1>3
  <2> QED BY <1>1, <1>2, <1>4, <2>1, FreshKept
<1>5. CASE running_tasks' = [running_tasks EXCEPT ![t] = None] /\ Pending(p)' = {}
  <2>1. /\ running_tasks'[t] = None
        /\ \A u \in Tasks : u # t => running_tasks'[u] = running_tasks[u]
    BY <1>5 DEF AppTypeOK
  <2>2. CASE t \in Pending(p)
    <3>1. p \in Sessions
      BY <2>2 DEF FreshInv, ListsAreFresh
    <3> QED BY <1>1, <1>2, <1>5, <2>1, <2>2, <3>1, FreshRequeue
  <2>3. CASE t \notin Pending(p)
    <3>1. Held(t)
      BY <1>3, <2>3 DEF Held, Holds
    <3>2. running_tasks[t] = None
      BY <3>1 DEF PlaceInv
    <3>3. UNCHANGED running_tasks
      BY <1>5, <3>2 DEF AppTypeOK
    <3> QED BY <1>4, <3>3
  <2> QED BY <2>2, <2>3
<1> QED BY <1>3, <1>4, <1>5

(* A step of a handler. *)
LEMMA FreshWs ==
  ASSUME IInv, PlaceInv, FreshInv, Orderly, NEW s0 \in Sessions, WsNext(s0),
         UNCHANGED <<sched, execs>>
  PROVE  FreshInv'
<1> USE DEF IInv, TypeOK, nodeVars, wireVars, taskVars, historyVars, stateVars
<1>1. /\ AllFewer /\ UNCHANGED link
      /\ \A s \in Sessions : toServer[s] = <<>> => toServer'[s] = <<>>
  BY WsFewer
<1>2. WireGoesOn
  BY <1>1 DEF WireGoesOn
<1>0. s0 \in Procs
  BY DEF Procs
<1>3. /\ UNCHANGED pending_tasks /\ call[s0] = None /\ Pending(s0) = {}
      /\ \A q \in Procs : q # s0 => Pending(q)' \subseteq Pending(q)
      /\ UNCHANGED call => Pending(s0)' = {}
  <2>1. /\ UNCHANGED pending_tasks /\ call[s0] = None
        /\ \A q \in Sessions : q # s0 => session'[q] = session[q]
        /\ \A q \in Procs : q # s0 => call'[q] = call[q]
    BY <1>0, WsEffect, CallIs DEF Takes, Begins
  <2>2. \A q \in Procs : q # s0 => Pending(q)' \subseteq Pending(q)
    BY <1>0, <2>1, OthersPending
  <2> QED BY <2>1, <2>2, NoCallHoldsNone, NoCallHoldsNoneNext
<1>4. /\ \A n \in Nodes : worker_channels[n] \in Sessions \cup {None}
      /\ \A s \in Sessions : ListedBy(s) \subseteq Tasks
      /\ NodeOf[s0] \in Nodes /\ s0 # None
      /\ session \in [Sessions -> WsState] /\ worker_channels \in [Nodes -> Sessions \cup {None}]
  BY IdsAssumption, ListedType DEF AppTypeOK, WsTypeOK
<1>5. \A t \in Tasks : mpi_jobs[t] = None
  BY DEF FreshInv, SingleTasksOnly
<1>6. ASSUME NEW st, Goto(s0, st)
      PROVE  session'[s0] = st /\ \A r \in Sessions : r # s0 => session'[r] = session[r]
  BY <1>4, <1>6 DEF Goto
<1>7. ASSUME UNCHANGED <<session, call, running_tasks, mpi_jobs, worker_channels>>
      PROVE  FreshInv'
  <2>1. \A p \in Procs : Pending(p)' \subseteq Pending(p)
    BY <1>7, SamePending
  <2> QED BY <1>1, <1>2, <1>3, <1>7, <2>1, FreshKept
<1>8. CASE OnHeartbeat(s0) \/ OnDraining(s0)
  BY <1>7, <1>8 DEF OnHeartbeat, OnDraining
<1>9. CASE OnMpiRankResult(s0) \/ OnMpiRankError(s0)
  <2>1. Head(toServer[s0]).task \in Tasks
    BY <1>9, ReceiveType DEF OnMpiRankResult, OnMpiRankError
  <2>2. UNCHANGED <<session, call, running_tasks, mpi_jobs, worker_channels>>
    BY <1>5, <1>9, <2>1 DEF OnMpiRankResult, OnMpiRankError
  <2> QED BY <1>7, <2>2
<1>10. CASE OnTaskResult(s0) \/ OnTaskError(s0)
  <2>1. PICK type \in {"TaskResult", "TaskError"} : Receive(s0, type)
    BY <1>10 DEF OnTaskResult, OnTaskError
  <2>2. PICK t0 : t0 = Head(toServer[s0]).task
    OBVIOUS
  <2>3. t0 \in Tasks
    BY <2>1, <2>2, ReceiveType
  <2>4. UNCHANGED <<link, execs, toWorker, worker_channels, mpi_jobs>>
    BY <1>10 DEF OnTaskResult, OnTaskError
  <2>5. CASE UNCHANGED <<session, call, running_tasks>>
    BY <1>7, <2>4, <2>5
  <2>6. CASE /\ running_tasks[t0] # None
             /\ running_tasks' = [running_tasks EXCEPT ![t0] = None]
             /\ Goto(s0, At("answered"))
    <3>1. Pending(s0)' = {}
      <4>1. session'[s0].pc = "answered"
        BY <1>6, <2>6 DEF At
      <4> QED BY <4>1 DEF Pending
    <3>2. /\ running_tasks'[t0] = None
          /\ \A u \in Tasks : u # t0 => running_tasks'[u] = running_tasks[u]
      BY <2>3, <2>6 DEF AppTypeOK
    <3> QED BY <1>1, <1>2, <1>3, <2>1, <2>2, <2>4, <2>6, <3>1, <3>2, FreshAnswer
  <2> QED BY <1>10, <2>2, <2>5, <2>6 DEF OnTaskResult, OnTaskError
<1>11. CASE OnRegister(s0) \/ Answered(s0)
  <2>1. /\ Goto(s0, At("loop")) /\ UNCHANGED <<running_tasks, mpi_jobs, call>>
        /\ \/ UNCHANGED worker_channels
           \/ worker_channels' = [worker_channels EXCEPT ![NodeOf[s0]] = s0]
    BY <1>11 DEF OnRegister, Answered
  <2>2. /\ session'[s0].pc = "loop" /\ session'[s0].todo = {} /\ ListedBy(s0)' = {}
        /\ \A r \in Sessions : r # s0 => session'[r] = session[r]
    BY <1>3, <1>6, <2>1 DEF At, ListedBy
  <2>3. session'[s0].pc \in ReadPc
    BY <2>2 DEF ReadPc
  <2>4. \A n \in Nodes : \/ worker_channels'[n] = worker_channels[n]
                         \/ worker_channels'[n] = s0 /\ NodeOf[s0] = n
    BY <1>4, <2>1
  <2> QED BY <1>1, <1>2, <1>3, <1>4, <1>5, <2>1, <2>2, <2>3, <2>4, FreshMoves
<1>12. CASE OnClose(s0)
  <2>1. /\ link[s0] = "down" /\ toServer[s0] = <<>>
        /\ UNCHANGED <<running_tasks, mpi_jobs, call>>
        /\ \/ /\ session[s0].pc = "loop"
              /\ Goto(s0, Requeueing("lost", RunningOn(NodeOf[s0])))
              /\ worker_channels' = [worker_channels EXCEPT ![NodeOf[s0]] = None]
           \/ /\ session[s0].pc = "new" /\ Goto(s0, At("closed"))
              /\ UNCHANGED worker_channels
    BY <1>12 DEF OnClose
  <2>2. /\ session'[s0].pc \in {"lost", "closed"}
        /\ session'[s0].pc = "lost" => session'[s0].todo = RunningOn(NodeOf[s0])
        /\ session'[s0].pc = "closed" => session'[s0].todo = {}
        /\ \A r \in Sessions : r # s0 => session'[r] = session[r]
    BY <1>6, <2>1 DEF At, Requeueing
  <2>3. \A n \in Nodes : worker_channels[n] = s0 => NodeOf[s0] = n /\ session[s0].pc = "loop"
    BY <1>4, <2>1 DEF FreshInv, ChannelsAreRead, ReadPc
  <2>4. \A n \in Nodes : worker_channels'[n] # None =>
          worker_channels'[n] = worker_channels[n] /\ worker_channels[n] # s0
    BY <1>4, <2>1, <2>3
  <2>5. Pending(s0)' = {} /\ ListedBy(s0)' = session'[s0].todo
    BY <1>3, <2>1 DEF ListedBy
  <2>6. /\ ListedBy(s0)' \subseteq Tasks
        /\ \A t \in ListedBy(s0)' :
             /\ session'[s0].pc = "lost"
             /\ running_tasks[t] # None /\ running_tasks[t].nodes = {NodeOf[s0]}
    BY <2>2, <2>5 DEF RunningOn
  <2> QED BY <2>6, <1>1, <1>2, <1>3, <1>4, <1>5, <2>1, <2>2, <2>4, <2>5, FreshMoves
<1>13. CASE RequeueLost(s0)
  <2>1. PICK t0 \in session[s0].todo :
          /\ Requeue(s0, t0)
          /\ mpi_jobs' = IF session[s0].pc = "lost" THEN mpi_jobs
                         ELSE [mpi_jobs EXCEPT ![t0] = None]
          /\ Goto(s0, Requeueing(session[s0].pc, session[s0].todo \ {t0}))
    BY <1>13 DEF RequeueLost
  <2>2. t0 \in Tasks /\ t0 \in ListedBy(s0)
    BY <1>4 DEF ListedBy
  <2>3. session[s0].pc = "lost"
    BY <2>2 DEF FreshInv, ListsAreFresh
  <2>4. call'[s0] # None /\ call'[s0].task = t0
    BY <1>0, <2>1, <2>2, CallIs
  <2>5. /\ session'[s0].pc = "lost" /\ session'[s0].todo = session[s0].todo \ {t0}
        /\ \A r \in Sessions : r # s0 => session'[r] = session[r]
    BY <1>6, <2>1, <2>3 DEF Requeueing
  <2>6. Pending(s0)' \subseteq {t0}
    BY <2>4 DEF Pending
  <2>7. ListedBy(s0)' \subseteq ListedBy(s0) /\ session'[s0].todo \cap Pending(s0)' = {}
    BY <2>1, <2>5, <2>6 DEF ListedBy
  <2>8. \A t \in ListedBy(s0)' : /\ session'[s0].pc = "lost" /\ t \in Tasks
                                 /\ running_tasks[t] # None
                                 /\ running_tasks[t].nodes = {NodeOf[s0]}
    BY <1>4, <2>5, <2>7 DEF FreshInv, ListsAreFresh
  <2>9. \A t \in Tasks : mpi_jobs'[t] = None
    BY <1>5, <2>1 DEF AppTypeOK
  <2>10. UNCHANGED <<worker_channels, running_tasks>>
    BY <1>13 DEF RequeueLost
  <2>11. link[s0] = "down" /\ toServer[s0] = <<>>
    BY <2>3 DEF FreshInv, EndsInSilence
  <2>12. \A n \in Nodes : worker_channels[n] # s0
    BY <1>4, <2>3 DEF FreshInv, ChannelsAreRead, ReadPc
  <2> QED BY <1>1, <1>2, <1>3, <1>4, <2>5, <2>7, <2>8, <2>9, <2>10, <2>11, <2>12, FreshMoves
<1>14. CASE LostRequeued(s0)
  <2>1. /\ session[s0].pc \in {"lost", "mpi_lost"}
        /\ UNCHANGED <<running_tasks, mpi_jobs, worker_channels, call>>
        /\ \/ Goto(s0, Requeueing("mpi_lost", MpiRunningOn(NodeOf[s0])))
           \/ Goto(s0, At("closed"))
    BY <1>14 DEF LostRequeued
  <2>2. MpiRunningOn(NodeOf[s0]) = {}
    BY DEF MpiRunningOn, FreshInv, SingleTasksOnly
  <2>3. /\ session'[s0].pc \in {"mpi_lost", "closed"}
        /\ session'[s0].todo = {} /\ ListedBy(s0)' = {}
        /\ \A r \in Sessions : r # s0 => session'[r] = session[r]
    BY <1>3, <1>6, <2>1, <2>2 DEF At, Requeueing, ListedBy
  <2>4. link[s0] = "down" /\ toServer[s0] = <<>>
    BY <2>1 DEF FreshInv, EndsInSilence
  <2>5. \A n \in Nodes : worker_channels[n] # s0
    BY <1>4, <2>1 DEF FreshInv, ChannelsAreRead, ReadPc
  <2> QED BY <1>1, <1>2, <1>3, <1>4, <1>5, <2>1, <2>3, <2>4, <2>5, FreshMoves
<1>15. ~Finalize(s0) /\ ~Finalized(s0)
  BY DEF FreshInv, SingleTasksOnly, Finalize, Finalized
<1> QED BY <1>8, <1>9, <1>10, <1>11, <1>12, <1>13, <1>14, <1>15 DEF WsNext

LEMMA WiresKept ==
  ASSUME WireTypeOK, UNCHANGED <<link, toServer, toWorker, execs>>
  PROVE  AllFewer /\ WireGoesOn
<1>1. AllFewer
  BY HandlerFewer
<1> QED BY <1>1 DEF WireGoesOn

(* The dispatcher records the task it has sent: an answer may already be   *)
(* on its way.                                                             *)
LEMMA FreshRecord ==
  ASSUME IInv, PlaceInv, FreshInv, Record, UNCHANGED <<session, execs>>
  PROVE  FreshInv'
<1> USE DEF IInv, TypeOK, wireVars
<1>1. PICK c : c = Current
  OBVIOUS
<1>2. PICK n : n = sched.targets[1]
  OBVIOUS
<1>3. c \in Tasks /\ running_tasks[c] = None /\ sched.pc = "record"
  BY <1>1, CurrentIsQueued DEF Record, ScanInv, Elsewhere
<1> DEFINE e == [status |-> "Dispatched", nodes |-> {n}]
<1>4. n \in Nodes
  BY <1>2, <1>3 DEF SchedTypeOK, SchedState, ScanInv
<1>5. e \in LiveTask /\ e.status = "Dispatched" /\ e.nodes = {n}
  BY <1>4 DEF LiveTask, LiveStatus
<1>6. running_tasks' = [running_tasks EXCEPT ![c] = e]
  BY <1>1, <1>2 DEF Record
<1>7. e # None
  BY <1>5, NoneAssumption
<1> HIDE DEF e
<1>8. running_tasks'[c] = e /\ \A u \in Tasks : u # c => running_tasks'[u] = running_tasks[u]
  BY <1>3, <1>6 DEF AppTypeOK
<1>9. UNCHANGED <<link, toServer, toWorker, worker_channels, mpi_jobs, call>>
  BY DEF Record
<1>10. AllFewer /\ WireGoesOn
  BY <1>9, WiresKept
<1>11. SingleTasksOnly'
  BY <1>5, <1>8, <1>9 DEF FreshInv, SingleTasksOnly
<1>12. EndsInSilence' /\ ChannelsAreRead'
  BY <1>9 DEF FreshInv, EndsInSilence, ChannelsAreRead
<1>13. ASSUME NEW s \in Sessions, NEW t \in Tasks
       PROVE  /\ Outstanding(s, t, Nat, Nat)' =>
                   session'[s].pc \in ReadPc /\ Assigned(t, NodeOf[s])'
              /\ Single(s, t, Nat)'
  <2>1. Fewer(s, t, Nat)
    BY <1>10 DEF AllFewer
  <2>2. /\ Outstanding(s, t, Nat, Nat) => session[s].pc \in ReadPc /\ Assigned(t, NodeOf[s])
        /\ Single(s, t, Nat)
    BY DEF FreshInv, AnswersAreAwaited
  <2>3. Assigned(t, NodeOf[s]) => Assigned(t, NodeOf[s])'
    <3>1. CASE t = c
      BY <1>1, <1>2, <1>3, <1>5, <1>7, <1>8, <3>1 DEF Assigned
    <3>2. CASE t # c
      BY <1>1, <1>8, <3>2 DEF Assigned
    <3> QED BY <3>1, <3>2
  <2> QED BY <2>1, <2>2, <2>3 DEF Fewer
<1>14. AnswersAreAwaited'
  BY <1>13 DEF AnswersAreAwaited
<1>15. ASSUME NEW s \in Sessions, NEW t \in ListedBy(s)
       PROVE  running_tasks'[t] = running_tasks[t]
  <2>1. t \in Tasks /\ running_tasks[t] # None
    BY <1>15, ListedType DEF FreshInv, ListsAreFresh
  <2> QED BY <1>3, <1>8, <2>1
<1>16. ListsAreFresh'
  BY <1>9, <1>15 DEF FreshInv, ListsAreFresh, ListedBy, Pending
<1> QED BY <1>11, <1>12, <1>14, <1>16 DEF FreshInv

(* The dispatcher sends a task: nothing of it is outstanding. *)
LEMMA FreshSend ==
  ASSUME IInv, PlaceInv, FreshInv, NEW c \in Tasks, NEW n \in Nodes, Scanning(c),
         NEW s0 \in Sessions, s0 = worker_channels[n], NEW m, Sends(s0, m), m.task = c,
         sched' = Chosen("record", <<n>>),
         UNCHANGED <<pending_tasks, running_tasks, mpi_jobs, worker_channels, session, call>>
  PROVE  FreshInv'
<1> USE DEF IInv, TypeOK
<1>1. /\ c = Current /\ sched.pc = "scan" /\ ~Elsewhere(c)
  BY CurrentIsQueued DEF Scanning
<1>2. running_tasks[c] = None
  BY <1>1 DEF Elsewhere
<1>3. \A k : ~Assigned(c, k)
  BY <1>1, <1>2 DEF Assigned
<1>4. \A s \in Sessions : ~Outstanding(s, c, Nat, Nat)
  BY <1>3 DEF FreshInv, AnswersAreAwaited
<1>5. NodeOf[s0] = n /\ session[s0].pc \in ReadPc
  BY IdsAssumption DEF FreshInv, ChannelsAreRead
<1>6. Assigned(c, n)'
  BY <1>1 DEF Assigned, Chosen, Current
<1>7. UNCHANGED <<link, toServer>>
  BY DEF Sends
<1>8. SingleTasksOnly' /\ EndsInSilence' /\ ChannelsAreRead' /\ ListsAreFresh'
  BY <1>7 DEF FreshInv, SingleTasksOnly, EndsInSilence, ChannelsAreRead, ListsAreFresh,
              ListedBy, Pending
<1>9. ASSUME NEW s \in Sessions, NEW t \in Tasks
      PROVE  /\ Outstanding(s, t, Nat, Nat)' =>
                  session'[s].pc \in ReadPc /\ Assigned(t, NodeOf[s])'
             /\ Single(s, t, Nat)'
  <2>1. /\ Outstanding(s, t, Nat, Nat) => session[s].pc \in ReadPc /\ Assigned(t, NodeOf[s])
        /\ Single(s, t, Nat)
    BY DEF FreshInv, AnswersAreAwaited
  <2>2. /\ ~(s = s0 /\ t = m.task /\ m.rank \in Nat) => Fewer(s, t, Nat)
        /\ Single(s, t, Nat) /\ ~Outstanding(s, t, Nat, Nat) => Single(s, t, Nat)'
    BY SendAdds
  <2>3. CASE s = s0 /\ t = c
    BY <1>4, <1>5, <1>6, <2>1, <2>2, <2>3
  <2>4. CASE ~(s = s0 /\ t = c)
    <3>1. Fewer(s, t, Nat)
      BY <2>2, <2>4
    <3>2. Assigned(t, NodeOf[s]) => Assigned(t, NodeOf[s])'
      BY <1>1, AssignedKept
    <3> QED BY <2>1, <3>1, <3>2 DEF Fewer
  <2> QED BY <2>3, <2>4
<1>10. AnswersAreAwaited'
  BY <1>9 DEF AnswersAreAwaited
<1> QED BY <1>8, <1>10 DEF FreshInv

LEMMA FreshSched ==
  ASSUME IInv, PlaceInv, FreshInv, MpiTasks = {}, SchedNext, UNCHANGED <<session, execs>>
  PROVE  FreshInv'
<1> USE DEF IInv, TypeOK, nodeVars, wireVars, taskVars, historyVars, stateVars
<1>1. ~Recruit /\ ~SendSlot /\ ~RecordMpi /\ ~RegisterJob /\ ~AbortDispatch
  <2>1. sched.pc \notin {"mpi", "job"}
    BY DEF ScanInv
  <2> QED BY <2>1 DEF Recruit, SendSlot, RecordMpi, RegisterJob, AbortDispatch
<1>2. CASE Lock \/ Skip \/ Sweep \/ Unlock
  <2>1. /\ UNCHANGED <<link, toServer, toWorker, running_tasks, mpi_jobs, worker_channels, call>>
        /\ sched.pc # "record"
    BY <1>2 DEF Lock, Skip, Sweep, Unlock, Scanned, Scanning
  <2> QED BY <2>1, WiresKept, SamePending, FreshKept
<1>3. CASE Record
  BY <1>3, FreshRecord
<1>4. CASE Send
  <2>0. PICK c \in Tasks \ MpiTasks : \E n \in Eligible(c) : SendTask(c, n)
    BY <1>4 DEF Send
  <2>1. PICK n \in Eligible(c) : SendTask(c, n)
    BY <2>0
  <2>2. n \in Nodes
    BY <2>1, IdsAssumption DEF Eligible
  <2>3. /\ Scanning(c)
        /\ UNCHANGED <<link, toServer, pending_tasks, running_tasks, mpi_jobs, worker_channels,
                       call>>
    BY <2>1 DEF SendTask
  <2>4. CASE ~ChannelOpen(n)
    <3>1. UNCHANGED toWorker /\ sched.pc # "record"
      BY <2>1, <2>4 DEF SendTask, Scanning
    <3> QED BY <2>3, <3>1, WiresKept, SamePending, FreshKept
  <2>5. CASE ChannelOpen(n)
    <3> DEFINE m == [type |-> "DispatchTask", task |-> c, rank |-> 0, att |-> attempt[c] + 1]
    <3>1. toWorker' = Delivered({worker_channels[n]}, m) /\ sched' = Chosen("record", <<n>>)
      BY <2>1, <2>5 DEF SendTask, SendToWorker
    <3>2. m \in ServerMessage /\ m.type = "DispatchTask" /\ m.task = c
      BY DEF ServerMessage, AppTypeOK
    <3> HIDE DEF m
    <3>3. PICK s0 \in Sessions : s0 = worker_channels[n]
      BY <2>2, <2>5 DEF ChannelOpen, AppTypeOK
    <3>4. PICK x : x = m
      OBVIOUS
    <3>5. Sends(s0, x) /\ x.task = c
      BY <2>3, <3>1, <3>2, <3>3, <3>4 DEF Sends
    <3> QED BY <2>1, <2>2, <2>3, <3>1, <3>3, <3>5, FreshSend
  <2> QED BY <2>4, <2>5
<1> QED BY <1>1, <1>2, <1>3, <1>4 DEF SchedNext

(* Each step of the system. *)
LEMMA FreshNext ==
  ASSUME IInv, PlaceInv, FreshInv, Orderly, MpiTasks = {}, [Next]_vars
  PROVE  FreshInv'
<1> USE DEF IInv, TypeOK, nodeVars, wireVars, taskVars, historyVars, stateVars, workerVars
<1>1. CASE SchedNext /\ UNCHANGED <<workerVars, session>>
  BY <1>1, FreshSched
<1>2. CASE \E s \in Sessions : WsNext(s) /\ UNCHANGED <<sched, workerVars>>
  BY <1>2, FreshWs
<1>3. CASE MonitorNext /\ UNCHANGED <<sched, session, workerVars>>
  <2>1. ~RequeueOne
    BY DEF RequeueOne, Orderly
  <2>2. UNCHANGED <<link, toServer, toWorker, running_tasks, mpi_jobs, worker_channels,
                    pending_tasks, call>>
    BY <1>3, <2>1 DEF MonitorNext, Tick, NextDead, NextPhase
  <2> QED BY <1>3, <2>2, WiresKept, SamePending, FreshKept
<1>4. CASE /\ \/ \E p \in Procs : Push(p) \/ Done(p)
              \/ \E t \in Tasks : SubmitTask(t) \/ CancelTask(t)
           /\ UNCHANGED <<wireVars, workerVars, sched, session, monitor>>
  <2>1. /\ UNCHANGED <<running_tasks, mpi_jobs, worker_channels>>
        /\ UNCHANGED pending_tasks \/ ~queue_locked
    BY <1>4 DEF Push, Done, SubmitTask, CancelTask
  <2>2. sched.pc = "record" => UNCHANGED <<sched, pending_tasks>>
    BY <1>4, <2>1 DEF ScanInv
  <2>3. \A p \in Procs : Pending(p)' \subseteq Pending(p)
    <3>1. CASE \E p \in Procs : Push(p) \/ Done(p)
      <4>1. PICK p0 \in Procs : Push(p0) \/ Done(p0)
        BY <3>1
      <4>2. call' = [call EXCEPT ![p0] = None]
        BY <4>1 DEF Push, Done
      <4>3. call'[p0] = None /\ \A p \in Procs : p # p0 => call'[p] = call[p]
        BY <4>2 DEF AppTypeOK
      <4>4. Pending(p0)' = {}
        BY <4>3, NoCallHoldsNoneNext
      <4>5. \A p \in Procs : p # p0 => Pending(p)' \subseteq Pending(p)
        BY <1>4, <4>3, OthersPending
      <4> QED BY <4>4, <4>5
    <3>2. CASE \E t \in Tasks : SubmitTask(t)
      <4>1. PICK t \in Tasks : SubmitTask(t)
        BY <3>2
      <4>2. t \in Procs /\ call'[t].op = "push" /\ OthersSame(t)
        BY <1>4, <4>1, SubmitEffect
      <4>3. Pending(t)' = {}
        BY <4>2 DEF Pending
      <4>4. \A p \in Procs : p # t => Pending(p)' \subseteq Pending(p)
        BY <1>4, <4>2, OthersPending DEF OthersSame
      <4> QED BY <4>3, <4>4
    <3>3. CASE \E t \in Tasks : CancelTask(t)
      <4>1. UNCHANGED call
        BY <3>3 DEF CancelTask
      <4> QED BY <1>4, <4>1, SamePending
    <3> QED BY <1>4, <3>1, <3>2, <3>3
  <2> QED BY <1>4, <2>1, <2>2, <2>3, WiresKept, FreshKept
<1>10. CASE /\ \E p \in Procs : GoesOn(p)
            /\ UNCHANGED <<wireVars, workerVars, sched, session, monitor>>
  <2>1. PICK p \in Procs : GoesOn(p)
    BY <1>10
  <2>2. UNCHANGED <<mpi_jobs, worker_channels>>
    BY <2>1 DEF GoesOn, ReadRetries, WriteRetries, Reenqueue, EndTask
  <2> QED BY <1>10, <2>1, <2>2, WiresKept, FreshGoesOn
<1>5. CASE WorkerStep
  <2>1. AllFewer /\ WireGoesOn
    BY <1>5, SessionFewer, ProcessFewer, ExecFewer DEF WorkerStep, Delivery
  <2> QED BY <1>5, <2>1, SamePending, FreshKept DEF WorkerStep
<1>6. CASE NetworkStep
  <2>1. CASE \E s \in Sessions : Break(s) /\ UNCHANGED <<stateVars, sched, session, workerVars>>
    BY <2>1, BreakFewer, SamePending, FreshKept
  <2>2. CASE /\ \E s \in Sessions : SendTaskEnds(s)
             /\ UNCHANGED <<stateVars, sched, session, workerVars>>
    <3>1. UNCHANGED <<link, toServer, toWorker, execs>>
      BY <2>2 DEF SendTaskEnds
    <3> QED BY <2>2, <3>1, WiresKept, SamePending, FreshKept
  <2>3. CASE (\E n \in Nodes : Silence(n)) /\ UNCHANGED <<sched, session, workerVars>>
    <3>1. /\ UNCHANGED <<link, toServer, toWorker, execs>>
          /\ UNCHANGED <<running_tasks, mpi_jobs, worker_channels, pending_tasks, call>>
      BY <2>3 DEF Silence
    <3> QED BY <2>3, <3>1, WiresKept, SamePending, FreshKept
  <2> QED BY <1>6, <2>1, <2>2, <2>3 DEF NetworkStep
<1>7. CASE UNCHANGED vars
  <2>1. /\ UNCHANGED <<link, toServer, toWorker, execs, session, sched>>
        /\ UNCHANGED <<running_tasks, mpi_jobs, worker_channels, pending_tasks, call>>
    BY <1>7 DEF vars
  <2> QED BY <2>1, WiresKept, SamePending, FreshKept
<1>8. CASE ServerStep
  BY <1>1, <1>2, <1>3, <1>4, <1>8, <1>10 DEF ServerStep, ReturnFromCall, GoesOn
<1>9. CASE ClientStep
  <2>1. UNCHANGED wireVars
    BY <1>9 DEF ClientStep, SubmitTask, CancelTask
  <2> QED BY <1>4, <1>9, <2>1 DEF ClientStep
<1> QED BY <1>5, <1>6, <1>7, <1>8, <1>9 DEF Next

LEMMA FreshInit ==
  ASSUME Init
  PROVE  FreshInv
<1>1. /\ \A s \in Sessions : /\ link[s] = "idle" /\ toServer[s] = <<>> /\ toWorker[s] = <<>>
                             /\ session[s] = At("new")
      /\ execs = {} /\ \A n \in Nodes : worker_channels[n] = None
      /\ \A t \in Tasks : mpi_jobs[t] = None /\ running_tasks[t] = None
      /\ \A p \in Procs : call[p] = None
  BY DEF Init, WireInit, AppInit, WsInit, WorkerInit
<1>2. /\ \A s \in Sessions : session[s].pc = "new" /\ session[s].todo = {} /\ s \in Procs
      /\ \A p \in Procs : Pending(p) = {}
  BY <1>1 DEF At, Pending, Procs
<1>3. ASSUME NEW s \in Sessions, NEW t PROVE ~Outstanding(s, t, Nat, Nat) /\ Single(s, t, Nat)
  BY <1>1, NothingHas DEF Outstanding, Sending, Executing, Answering, Single
<1>4. SingleTasksOnly /\ EndsInSilence /\ ChannelsAreRead /\ ListsAreFresh
  BY <1>1, <1>2 DEF SingleTasksOnly, EndsInSilence, ChannelsAreRead, ListsAreFresh, ListedBy
<1> QED BY <1>3, <1>4 DEF FreshInv, AnswersAreAwaited

LEMMA FreshLists ==
  ASSUME FreshInv, Orderly
  PROVE  SnapshotsFresh
<1>1. \A s \in Sessions : \A t \in session[s].todo \cup Pending(s) : running_tasks[t] # None
  BY DEF FreshInv, ListsAreFresh, ListedBy
<1>2. \A p \in Procs : p \notin Sessions => Pending(p) = {}
  BY DEF FreshInv, ListsAreFresh
<1>3. monitor.todo = {}
  BY DEF Orderly
<1> QED BY <1>1, <1>2, <1>3 DEF SnapshotsFresh, Listed

(* What a handler has listed is still running when its turn comes, and no  *)
(* task is then in two places, as long as the monitor finds nothing to     *)
(* requeue and the server is done with a connection of a node before it    *)
(* reads the next: an answer in flight, early or late, and the retries of  *)
(* the task never take it from under the cleanup.  MPI jobs are left out,  *)
(* the cleanups of two nodes may list the same job.                        *)
THEOREM OrderlyFresh ==
  ASSUME MpiTasks = {}
  PROVE  Spec /\ []Orderly => []SnapshotsFresh
<1>1. Init => PlaceInv /\ FreshInv
  BY InitPlaces, FreshInit
<1>2. IInv /\ (SubmittedInv /\ UntouchedInv) /\ (PlaceInv /\ FreshInv) /\ Orderly /\ [Next]_vars
        => (PlaceInv /\ FreshInv)'
  BY FreshLists, PlaceNext, FreshNext
<1>3. PlaceInv /\ FreshInv /\ Orderly => SnapshotsFresh
  BY FreshLists
<1> QED BY <1>1, <1>2, <1>3, InvariantHolds, SubmittedHolds, PTL DEF Spec

(* So a task is then in one place. *)
THEOREM OrderlyPlaces ==
  ASSUME MpiTasks = {}
  PROVE  Spec /\ []Orderly => []SinglePlace
BY OrderlyFresh, PlaceHolds, PTL

-----------------------------------------------------------------------------
(* A worker per node that connects once, and heartbeats in time *)

(* The load, the status and the heartbeats of a node make none stale. *)
LEMMA HelpersPunctual ==
  ASSUME AppTypeOK, NEW n \in Nodes, NEW m \in Nodes,
         nodes[m] # None => ~nodes[m].stale, nodes'[m] # None,
         \/ UNCHANGED nodes
         \/ \E st \in NodeStatus : nodes' = WithStatus(n, st)
         \/ nodes' = IncrementActive(n)
         \/ nodes' = DecrementActive(n)
         \/ \E info \in NodeInfo : ~info.stale /\ nodes' = [nodes EXCEPT ![n] = info]
  PROVE  ~nodes'[m].stale
<1>1. nodes \in [Nodes -> NodeInfo \cup {None}] /\ None \notin NodeInfo
  BY NoneAssumption DEF AppTypeOK
<1>2. ASSUME NEW k, nodes' = WithActive(n, k) PROVE ~nodes'[m].stale
  BY <1>1, <1>2 DEF WithActive, NodeInfo
<1>3. CASE UNCHANGED nodes
  BY <1>3
<1>4. CASE \E st \in NodeStatus : nodes' = WithStatus(n, st)
  BY <1>1, <1>4 DEF WithStatus, NodeInfo
<1>5. CASE nodes' = IncrementActive(n)
  BY <1>2, <1>5 DEF IncrementActive
<1>6. CASE nodes' = DecrementActive(n)
  BY <1>2, <1>6 DEF DecrementActive
<1>7. CASE \E info \in NodeInfo : ~info.stale /\ nodes' = [nodes EXCEPT ![n] = info]
  BY <1>1, <1>7
<1> QED BY <1>3, <1>4, <1>5, <1>6, <1>7

NodesPunctual == \A n \in Nodes : nodes[n] # None => ~nodes[n].stale

LEMMA SchedPunctual ==
  ASSUME TypeOK, ScanInv, NodesPunctual, SchedNext
  PROVE  NodesPunctual'
<1> USE DEF TypeOK, nodeVars, stateVars
<1>1. CASE \E n \in Nodes : \/ UNCHANGED nodes
                            \/ nodes' = WithStatus(n, "Offline")
                            \/ nodes' = IncrementActive(n)
  <2>1. "Offline" \in NodeStatus
    BY DEF NodeStatus
  <2> QED BY <1>1, <2>1, HelpersPunctual DEF NodesPunctual
<1>2. CASE \/ Lock \/ Skip \/ Recruit \/ RecordMpi \/ RegisterJob \/ AbortDispatch
           \/ Sweep \/ Unlock
  <2>1. UNCHANGED nodes
    BY <1>2 DEF Lock, Skip, Recruit, RecruitNodes, RecordMpi, RegisterJob, AbortDispatch,
                Sweep, Unlock
  <2> QED BY <2>1 DEF NodesPunctual
<1>3. CASE Send
  <2>1. PICK t \in Tasks, n \in Nodes : SendTask(t, n)
    BY <1>3, IdsAssumption DEF Send, Eligible
  <2> QED BY <1>1, <2>1 DEF SendTask
<1>4. CASE Record
  <2>1. sched.targets[1] \in Nodes
    BY <1>4 DEF Record, ScanInv, SchedTypeOK, SchedState
  <2> QED BY <1>1, <1>4, <2>1 DEF Record
<1>5. CASE SendSlot
  <2>1. sched.targets[sched.rank + 1] \in Nodes
    BY <1>5 DEF SendSlot, SchedTypeOK, SchedState
  <2> QED BY <1>1, <1>5, <2>1 DEF SendSlot
<1> QED BY <1>2, <1>3, <1>4, <1>5 DEF SchedNext

LEMMA WsPunctual ==
  ASSUME TypeOK, NodesPunctual, NEW s \in Sessions, WsNext(s)
  PROVE  NodesPunctual'
<1> USE DEF TypeOK, nodeVars, stateVars
<1>1. NodeOf[s] \in Nodes /\ {"Online", "Busy", "Offline", "Draining"} \subseteq NodeStatus
  BY IdsAssumption DEF NodeStatus
<1>2. CASE \/ UNCHANGED nodes
           \/ nodes' = DecrementActive(NodeOf[s])
           \/ nodes' = WithStatus(NodeOf[s], "Offline")
           \/ nodes' = WithStatus(NodeOf[s], "Draining")
           \/ \E info \in NodeInfo :
                ~info.stale /\ nodes' = [nodes EXCEPT ![NodeOf[s]] = info]
  BY <1>1, <1>2, HelpersPunctual DEF NodesPunctual
<1>3. CASE \/ OnTaskResult(s) \/ OnTaskError(s) \/ Answered(s) \/ OnDraining(s)
           \/ OnClose(s) \/ RequeueLost(s) \/ LostRequeued(s)
  BY <1>2, <1>3 DEF OnTaskResult, OnTaskError, Answered, OnDraining, OnClose, RequeueLost,
                    LostRequeued
<1>4. CASE OnMpiRankResult(s) \/ OnMpiRankError(s) \/ Finalize(s) \/ Finalized(s)
  BY <1>2, <1>4 DEF OnMpiRankResult, OnMpiRankError, Finalize, Finalized
<1>5. CASE OnRegister(s)
  <2>1. [status |-> "Online", active |-> 0, stale |-> FALSE] \in NodeInfo
    BY <1>1 DEF NodeInfo
  <2> QED BY <1>2, <1>5, <2>1 DEF OnRegister
<1>6. CASE OnHeartbeat(s)
  <2> DEFINE k == Head(toServer[s]).active
             info == [status |-> IF k > 0 THEN "Busy" ELSE "Online",
                      active |-> k, stale |-> FALSE]
  <2>1. k \in Nat
    <3>1. toServer[s] \in Seq(WorkerMessage) /\ toServer[s] # <<>>
          /\ Head(toServer[s]).type = "Heartbeat"
      BY <1>6 DEF OnHeartbeat, Receive, WireTypeOK
    <3>2. Head(toServer[s]) \in WorkerMessage
      BY <3>1
    <3> QED BY <3>1, <3>2 DEF WorkerMessage
  <2>2. info \in NodeInfo /\ ~info.stale
    BY <1>1, <2>1 DEF NodeInfo
  <2>3. UNCHANGED nodes \/ nodes' = [nodes EXCEPT ![NodeOf[s]] = info]
    BY <1>6 DEF OnHeartbeat
  <2> QED BY <1>2, <2>2, <2>3
<1> QED BY <1>3, <1>4, <1>5, <1>6 DEF WsNext

(* The monitor finds no dead node, and no task with the status Running. *)
LEMMA PunctualNext ==
  ASSUME IInv, FreshInv, Punctual, MayExpire = {}, [Next]_vars
  PROVE  Punctual'
<1> USE DEF IInv, TypeOK, nodeVars, stateVars
<1>1. NodesPunctual /\ monitor = Round("idle", {}, None, {})
  BY DEF NodesPunctual, Punctual
<1>2. ASSUME NodesPunctual', UNCHANGED monitor PROVE Punctual'
  BY <1>1, <1>2 DEF NodesPunctual, Punctual
<1>3. ~MonitorNext
  <2>1. monitor.pc = "idle"
    BY <1>1 DEF Round
  <2>2. DeadNodes \cup TimedOut = {}
    BY <1>1 DEF DeadNodes, TimedOut, NodesPunctual, FreshInv, SingleTasksOnly
  <2> QED BY <2>1, <2>2 DEF MonitorNext, Tick, NextDead, RequeueOne, NextPhase
<1>4. CASE ServerStep
  <2>1. CASE \E p \in Procs : ReturnFromCall(p) /\ UNCHANGED monitor
    <3>1. UNCHANGED nodes
      BY <2>1 DEF ReturnFromCall, ReadRetries, WriteRetries, Reenqueue, EndTask, Push, Done
    <3> QED BY <1>1, <1>2, <2>1, <3>1 DEF NodesPunctual
  <2> QED BY <1>1, <1>2, <1>3, <1>4, <2>1, SchedPunctual, WsPunctual DEF ServerStep
<1>5. CASE UNCHANGED <<nodes, monitor>>
  BY <1>1, <1>2, <1>5 DEF NodesPunctual
<1>6. CASE ClientStep \/ WorkerStep \/ NetworkStep \/ UNCHANGED vars
  <2>1. ~\E n \in Nodes : Silence(n)
    BY DEF Silence
  <2> QED BY <1>5, <1>6, <2>1
          DEF ClientStep, SubmitTask, CancelTask, WorkerStep, NetworkStep, vars
<1> QED BY <1>4, <1>6 DEF Next

(* A worker per node that connects once, and heartbeats in time. *)
ConnectsOnce == \A r, s \in Sessions : NodeOf[r] = NodeOf[s] => r = s

(* Where every worker connects once and its heartbeats come in time, the   *)
(* two events above cannot come in the wrong order: no snapshot is stale,  *)
(* whatever connections break, whatever workers stop, crash or hang, and   *)
(* however late answers are read.                                          *)
THEOREM OnceFresh ==
  ASSUME MpiTasks = {}, MayExpire = {}, ConnectsOnce
  PROVE  Spec => []SnapshotsFresh
<1>1. Init => PlaceInv /\ FreshInv /\ Punctual
  BY InitPlaces, FreshInit DEF Init, AppInit, MonitorInit, Punctual
<1>2. Punctual => Orderly
  BY DEF Punctual, Orderly, Round, ConnectsOnce
<1>3. IInv /\ (SubmittedInv /\ UntouchedInv) /\ (PlaceInv /\ FreshInv /\ Punctual) /\ [Next]_vars
        => (PlaceInv /\ FreshInv /\ Punctual)'
  BY <1>2, FreshLists, PlaceNext, FreshNext, PunctualNext
<1>4. PlaceInv /\ FreshInv /\ Punctual => SnapshotsFresh
  BY <1>2, FreshLists
<1> QED BY <1>1, <1>3, <1>4, InvariantHolds, SubmittedHolds, PTL DEF Spec

(* A task is then in one place, *)
THEOREM OncePlaces ==
  ASSUME MpiTasks = {}, MayExpire = {}, ConnectsOnce
  PROVE  Spec => []SinglePlace
BY OnceFresh, PlaceHolds, PTL

(* the code implements TaskLifecycle, *)
THEOREM OnceImplements ==
  ASSUME MpiTasks = {}, MayExpire = {}, ConnectsOnce
  PROVE  Spec => LifecycleSpec
BY OnceFresh, FreshImplements, PTL

(* and what a client was told of the end of its task was final. *)
THEOREM OnceTold ==
  ASSUME MpiTasks = {}, MayExpire = {}, ConnectsOnce
  PROVE  ClientSpec => ToldIsFinal
BY OnceFresh, ToldHolds, ClientsLook, PTL

-----------------------------------------------------------------------------
(* While nothing is left of a job when it is dispatched again *)

(* The end of x, when x is a completed job, has an answer of each rank. *)
SureOf(x, atts) == x.status = "MpiCompleted" => Full(x.task, x.job, atts[x.task])

MpiFewer == \A s \in Sessions, t \in MpiTasks : \A ranks \in SUBSET Nat : Fewer(s, t, ranks)

LEMMA FullTask ==
  ASSUME NEW t, NEW job, NEW att, Tally(t, job, att)
  PROVE  t \in MpiTasks
BY DEF Tally

(* What is known of the answers to jobs outlives the steps that send none. *)
LEMMA AnswersKept ==
  ASSUME AnswersAreCurrent, MpiFewer, \A t \in MpiTasks : attempt'[t] = attempt[t]
  PROVE  AnswersAreCurrent'
<1> SUFFICES ASSUME NEW s \in Sessions, NEW t \in MpiTasks, NEW a, a = attempt'[t]
             PROVE  /\ ~Outstanding(s, t, Nat, Nat \ {a})'
                    /\ \A r \in Ranks(Np[t]) :
                         /\ Single(s, t, {r})'
                         /\ Outstanding(s, t, {r}, Nat)' =>
                              \A s2 \in Sessions : Outstanding(s2, t, {r}, Nat)' => s2 = s
  BY DEF AnswersAreCurrent
<1>1. ~Outstanding(s, t, Nat, Nat \ {a})'
  <2>1. a = attempt[t]
    OBVIOUS
  <2>2. Fewer(s, t, Nat)
    BY DEF MpiFewer
  <2>3. ~Outstanding(s, t, Nat, Nat \ {a})
    BY <2>1 DEF AnswersAreCurrent
  <2> QED BY <2>2, <2>3 DEF Fewer
<1>2. ASSUME NEW r \in Ranks(Np[t])
      PROVE  /\ Single(s, t, {r})'
             /\ Outstanding(s, t, {r}, Nat)' =>
                  \A s2 \in Sessions : Outstanding(s2, t, {r}, Nat)' => s2 = s
  <2>1. {r} \in SUBSET Nat
    BY IdsAssumption DEF Ranks
  <2>2. \A s2 \in Sessions : Fewer(s2, t, {r})
    BY <2>1 DEF MpiFewer
  <2> QED BY <2>2 DEF AnswersAreCurrent, Fewer
<1> QED BY <1>1, <1>2

(* Steps that dispatch no job, record no answer and complete a job only    *)
(* with an answer of each rank.                                            *)
LEMMA JobKept ==
  ASSUME IInv, JobInv, MpiFewer,
         \A t \in MpiTasks : attempt'[t] = attempt[t],
         \A t \in Tasks : mpi_jobs'[t] = mpi_jobs[t] \/ mpi_jobs'[t] = None,
         \A s \in Sessions : session'[s].pc \in {"finalize", "finalized"} =>
           \/ session'[s] = session[s]
           \/ /\ session'[s].pc = "finalized"
              /\ Full(session'[s].task, session'[s].job, attempt[session'[s].task]),
         \A p \in Procs : call'[p] # None /\ call'[p].op \in {"complete", "done"} =>
           call'[p] = call[p] \/ SureOf(call'[p], attempt),
         \A i \in 1 .. Len(completed_tasks') : SureOf(completed_tasks'[i], attempt),
         sched'.pc \in {"mpi", "job"} => sched.pc \in {"mpi", "job"} /\ Current' = Current,
         sched'.pc = "mpi" =>
           sched.pc = "mpi" /\ sched'.rank \in Nat /\ sched'.rank >= sched.rank
  PROVE  JobInv'
<1>1. JobsTally'
  <2> SUFFICES ASSUME NEW t \in Tasks, mpi_jobs'[t] # None
               PROVE  Tally(t, mpi_jobs'[t], attempt'[t])
    BY DEF JobsTally
  <2>1. Tally(t, mpi_jobs'[t], attempt[t])
    BY DEF JobInv, JobsTally
  <2> QED BY <2>1, FullTask
<1>2. RanksAnswerOnce'
  <2> SUFFICES ASSUME NEW s \in Sessions, NEW t \in MpiTasks, mpi_jobs'[t] # None,
                      NEW r \in Ranks(Np[t]), Outstanding(s, t, {r}, Nat)'
               PROVE  mpi_jobs'[t].results[r] = 0 /\ mpi_jobs'[t].errors[r] = 0
    BY DEF RanksAnswerOnce
  <2>1. {r} \in SUBSET Nat
    BY IdsAssumption DEF Ranks
  <2>2. Outstanding(s, t, {r}, Nat)
    BY <2>1 DEF MpiFewer, Fewer
  <2>3. mpi_jobs'[t] = mpi_jobs[t]
    BY IdsAssumption
  <2> QED BY <2>2, <2>3 DEF JobInv, RanksAnswerOnce
<1>3. FinalizersAreSure'
  <2> SUFFICES ASSUME NEW s \in Sessions, NEW t, t = session'[s].task
               PROVE  /\ session'[s].pc = "finalize" =>
                           mpi_jobs'[t] = None \/ IsComplete(mpi_jobs'[t])
                      /\ session'[s].pc = "finalized" => Full(t, session'[s].job, attempt'[t])
    BY DEF FinalizersAreSure
  <2>1. ASSUME session'[s].pc = "finalize"
        PROVE  mpi_jobs'[t] = None \/ IsComplete(mpi_jobs'[t])
    <3>1. session'[s] = session[s] /\ session[s].pc = "finalize" /\ t = session[s].task
      BY <2>1
    <3>2. t \in Tasks
      BY <3>1 DEF IInv, HandlerInv
    <3> QED BY <3>1, <3>2 DEF JobInv, FinalizersAreSure
  <2>2. ASSUME session'[s].pc = "finalized" PROVE Full(t, session'[s].job, attempt'[t])
    <3>1. Full(t, session'[s].job, attempt[t])
      BY <2>2 DEF JobInv, FinalizersAreSure
    <3> QED BY <3>1, FullTask DEF Full
  <2> QED BY <2>1, <2>2
<1>4. CallsAreFull'
  <2> SUFFICES ASSUME NEW p \in Procs, call'[p] # None, call'[p].op \in {"complete", "done"},
                      call'[p].status = "MpiCompleted", NEW t, t = call'[p].task
               PROVE  Full(t, call'[p].job, attempt'[t])
    BY DEF CallsAreFull
  <2>1. Full(t, call'[p].job, attempt[t])
    BY DEF JobInv, CallsAreFull, SureOf
  <2> QED BY <2>1, FullTask DEF Full
<1>5. EntriesAreFull'
  <2> SUFFICES ASSUME NEW i \in 1 .. Len(completed_tasks'),
                      completed_tasks'[i].status = "MpiCompleted",
                      NEW t, t = completed_tasks'[i].task
               PROVE  Full(t, completed_tasks'[i].job, attempt'[t])
    BY DEF EntriesAreFull
  <2>1. Full(t, completed_tasks'[i].job, attempt[t])
    BY DEF SureOf
  <2> QED BY <2>1, FullTask DEF Full
<1>6. AnswersAreCurrent'
  BY AnswersKept DEF JobInv
<1>7. SlotsToSend'
  <2>1. ASSUME sched'.pc \in {"mpi", "job"}
        PROVE  /\ (mpi_jobs[Current] = None)'
               /\ \A s \in Sessions :
                    session'[s].pc = "finalize" => (session[s].task # Current)'
    <3>1. PICK c : c = Current
      OBVIOUS
    <3>2. /\ c = Current' /\ c \in Tasks /\ mpi_jobs[c] = None
          /\ \A s \in Sessions : session[s].pc = "finalize" => session[s].task # c
      BY <2>1, <3>1, IdsAssumption DEF IInv, ScanInv, JobInv, SlotsToSend
    <3> QED BY <3>2
  <2>2. ASSUME sched'.pc = "mpi", NEW c, c = Current', NEW r \in Ranks(Np[c]),
               NEW s \in Sessions, r >= sched'.rank
        PROVE  ~Outstanding(s, c, {r}, Nat)'
    <3>1. c = Current /\ c \in MpiTasks /\ sched.pc = "mpi"
      BY <2>2 DEF IInv, ScanInv
    <3>2. {r} \in SUBSET Nat /\ r \in Nat
      BY <3>1, IdsAssumption DEF Ranks
    <3>3. r >= sched.rank
      <4>1. sched.rank \in Nat /\ sched'.rank \in Nat /\ sched'.rank >= sched.rank
        BY <2>2 DEF IInv, TypeOK, SchedTypeOK, SchedState
      <4> QED BY <2>2, <3>2, <4>1
    <3>4. ~Outstanding(s, c, {r}, Nat)
      BY <2>2, <3>1, <3>3 DEF JobInv, SlotsToSend
    <3>5. Fewer(s, c, {r})
      BY <3>1, <3>2 DEF MpiFewer
    <3> QED BY <3>4, <3>5 DEF Fewer
  <2> QED BY <2>1, <2>2 DEF SlotsToSend
<1> QED BY <1>1, <1>2, <1>3, <1>4, <1>5, <1>6, <1>7 DEF JobInv

(* complete_task of another task, requeue and enqueue complete no job. *)
LEMMA OtherCallSure ==
  ASSUME IInv, NEW p \in Procs, NEW t \in Tasks,
         Requeue(p, t) \/ Enqueue(p, t) \/ CompleteTask(p, t, "Completed", None)
  PROVE  \A q \in Procs : call'[q] # None /\ call'[q].op \in {"complete", "done"} =>
           call'[q] = call[q] \/ SureOf(call'[q], attempt)
<1> DEFINE waits(op) == [op |-> op, task |-> t]
           ends == [op |-> "complete", task |-> t, status |-> "Completed", job |-> None]
<1>1. call \in [Procs -> Calls \cup {None}]
  BY DEF IInv, TypeOK, AppTypeOK
<1>2. \/ \E op \in {"requeue", "push"} : call' = [call EXCEPT ![p] = waits(op)]
      \/ call' = [call EXCEPT ![p] = ends]
  BY DEF Requeue, Enqueue, CompleteTask
<1>3. SureOf(ends, attempt)
  BY DEF SureOf
<1>4. \A op : waits(op).op = op
  OBVIOUS
<1> HIDE DEF waits, ends
<1> QED BY <1>1, <1>2, <1>3, <1>4

(* A call that goes on completes no job that it did not complete before. *)
LEMMA GoesOnSure ==
  ASSUME IInv, JobInv, NEW p \in Procs, GoesOn(p)
  PROVE  \A q \in Procs : call'[q] # None /\ call'[q].op \in {"complete", "done"} =>
           call'[q] = call[q] \/ SureOf(call'[q], attempt)
<1>1. AppTypeOK /\ call \in [Procs -> Calls \cup {None}]
  BY DEF IInv, TypeOK, AppTypeOK
<1>2. PICK t : t = call[p].task
  OBVIOUS
<1>3. ASSUME NEW c, call' = [call EXCEPT ![p] = c],
             c.op \in {"complete", "done"} => SureOf(c, attempt)
      PROVE  \A q \in Procs : call'[q] # None /\ call'[q].op \in {"complete", "done"} =>
               call'[q] = call[q] \/ SureOf(call'[q], attempt)
  BY <1>1, <1>3
<1>4. CASE ReadRetries(p)
  <2> DEFINE fails == [op |-> "complete", task |-> t, status |-> "Failed", job |-> None]
             tries == [op |-> "retry", task |-> t, left |-> retry_counts[t] - 1]
  <2>1. call' = [call EXCEPT ![p] = fails] \/ call' = [call EXCEPT ![p] = tries]
    BY <1>2, <1>4 DEF ReadRetries, CompleteTask
  <2>2. SureOf(fails, attempt) /\ tries.op = "retry"
    BY DEF SureOf
  <2> HIDE DEF fails, tries
  <2> QED BY <1>3, <2>1, <2>2
<1>5. CASE WriteRetries(p) \/ Reenqueue(p)
  <2> DEFINE waits(op) == [op |-> op, task |-> t]
  <2>1. \E op \in {"enqueue", "push"} : call' = [call EXCEPT ![p] = waits(op)]
    BY <1>2, <1>5 DEF WriteRetries, Reenqueue, Enqueue
  <2>2. \A op : waits(op).op = op
    OBVIOUS
  <2> HIDE DEF waits
  <2> QED BY <1>3, <2>1, <2>2
<1>6. CASE EndTask(p)
  <2>1. call[p] \in Finishing /\ call[p] # None /\ call[p].op = "complete"
    BY <1>1, <1>6, CallFields DEF EndTask, InCall
  <2>2. PICK c : c = [call[p] EXCEPT !.op = "done"]
    OBVIOUS
  <2>3. c.task = t /\ c.status = call[p].status /\ c.job = call[p].job
    BY <1>2, <2>1, <2>2 DEF Finishing
  <2>4. call[p].status = "MpiCompleted" => Full(t, call[p].job, attempt[t])
    BY <1>2, <2>1 DEF JobInv, CallsAreFull
  <2>5. SureOf(c, attempt)
    BY <2>3, <2>4 DEF SureOf
  <2>6. call' = [call EXCEPT ![p] = c]
    BY <1>6, <2>2 DEF EndTask
  <2> QED BY <1>3, <2>5, <2>6
<1> QED BY <1>4, <1>5, <1>6 DEF GoesOn

(* complete_task appends what it was called with, and may evict. *)
LEMMA EntriesSure ==
  ASSUME IInv, JobInv, NEW p \in Procs, Done(p)
  PROVE  \A i \in 1 .. Len(completed_tasks') : SureOf(completed_tasks'[i], attempt)
<1> USE DEF IInv, TypeOK
<1> DEFINE e == [task |-> call[p].task, status |-> call[p].status, job |-> call[p].job]
           done == Append(completed_tasks, e)
           drain == IF Len(done) > CompletedCap THEN CompletedDrain ELSE 0
<1>1. call[p] \in Finishing
  BY CallFields DEF Done, InCall
<1>2. /\ e \in DoneTask /\ e.task = call[p].task /\ e.status = call[p].status
      /\ e.job = call[p].job
  BY <1>1 DEF Finishing, DoneTask
<1>3. SureOf(e, attempt)
  <2>1. call[p].status = "MpiCompleted" => Full(call[p].task, call[p].job, attempt[call[p].task])
    BY DEF JobInv, CallsAreFull, Done, InCall
  <2> HIDE DEF e
  <2> QED BY <1>2, <2>1 DEF SureOf
<1>4. /\ done \in Seq(DoneTask) /\ Len(done) = Len(completed_tasks) + 1
      /\ Len(completed_tasks) \in Nat /\ done[Len(done)] = e
      /\ \A i \in 1 .. Len(completed_tasks) : done[i] = completed_tasks[i]
  BY <1>2 DEF AppTypeOK
<1>5. drain \in Nat /\ drain <= Len(done)
  BY <1>4, LimitsAssumption
<1>6. completed_tasks' = SubSeq(done, drain + 1, Len(done))
  BY DEF Done
<1> HIDE DEF done, drain, e
<1>7. /\ Len(completed_tasks') = Len(done) - drain
      /\ \A i \in 1 .. Len(done) - drain : completed_tasks'[i] = done[drain + i]
  BY <1>4, <1>5, <1>6, SubSeqProperties
<1>8. ASSUME NEW i \in 1 .. Len(done) PROVE SureOf(done[i], attempt)
  <2>1. \/ done[i] = e
        \/ i \in 1 .. Len(completed_tasks) /\ done[i] = completed_tasks[i]
    BY <1>4
  <2> QED BY <1>3, <2>1 DEF SureOf, JobInv, EntriesAreFull
<1>9. ASSUME NEW i \in 1 .. Len(completed_tasks')
      PROVE  drain + i \in 1 .. Len(done) /\ completed_tasks'[i] = done[drain + i]
  BY <1>4, <1>5, <1>7
<1> QED BY <1>8, <1>9

LEMMA SameEntriesSure ==
  ASSUME JobInv, UNCHANGED completed_tasks
  PROVE  \A i \in 1 .. Len(completed_tasks') : SureOf(completed_tasks'[i], attempt)
BY DEF JobInv, EntriesAreFull, SureOf

-----------------------------------------------------------------------------
(* The dispatcher and a job *)

(* What is left of some dispatches is left of more of them. *)
LEMMA MoreAsked ==
  ASSUME NEW s, NEW t, NEW ranks, NEW ranks2, ranks \subseteq ranks2,
         NEW atts, NEW atts2, atts \subseteq atts2
  PROVE  /\ Outstanding(s, t, ranks, atts) => Outstanding(s, t, ranks2, atts2)
         /\ Outstanding(s, t, ranks, atts)' => Outstanding(s, t, ranks2, atts2)'
<1>1. /\ DispatchOf(t, ranks, atts) \subseteq DispatchOf(t, ranks2, atts2)
      /\ AnswerOf(t, ranks, atts) \subseteq AnswerOf(t, ranks2, atts2)
      /\ ExecOf(s, t, ranks, atts) \subseteq ExecOf(s, t, ranks2, atts2)
  BY DEF DispatchOf, AnswerOf, ExecOf
<1>2. \A q, S, T : S \subseteq T /\ Has(q, S) => Has(q, T)
  BY DEF Has
<1>3. Outstanding(s, t, ranks, atts) => Outstanding(s, t, ranks2, atts2)
  BY <1>1, <1>2 DEF Outstanding, Sending, Executing, Answering
<1>4. Outstanding(s, t, ranks, atts)' => Outstanding(s, t, ranks2, atts2)'
  BY <1>1, <1>2 DEF Outstanding, Sending, Executing, Answering
<1> QED BY <1>3, <1>4

(* A job is dispatched: nothing of it remains, and the number of the       *)
(* dispatch is new.                                                        *)
LEMMA JobRecruit ==
  ASSUME IInv, JobInv, JobsApart', NEW c \in MpiTasks, NEW f, RecruitNodes(c, f),
         UNCHANGED <<session, execs>>
  PROVE  JobInv'
<1> USE DEF IInv, TypeOK, nodeVars, wireVars, taskVars
<1>1. /\ UNCHANGED <<link, toServer, toWorker, execs, mpi_jobs, session, call, completed_tasks>>
      /\ Current' = c /\ sched'.pc = "mpi" /\ sched'.rank = 0
      /\ \A t \in MpiTasks : t # c => attempt'[t] = attempt[t]
  BY IdsAssumption DEF RecruitNodes, Scanning, Chosen, Current, AppTypeOK
<1>2. AllFewer
  BY <1>1, WiresKept
<1>3. /\ \A s \in Sessions : ~Outstanding(s, c, Nat, Nat)'
      /\ mpi_jobs[c] = None
      /\ \A s \in Sessions : session[s].pc \in {"finalize", "finalized"} => session[s].task # c
      /\ \A p \in Procs : call[p] # None /\ call[p].op \in {"complete", "done"}
                            /\ call[p].status = "MpiCompleted" => call[p].task # c
      /\ \A i \in 1 .. Len(completed_tasks) :
           completed_tasks[i].status = "MpiCompleted" => completed_tasks[i].task # c
  <2>1. ~Remains(Current)'
    BY <1>1 DEF JobsApart
  <2>2. PICK d : d = Current'
    OBVIOUS
  <2>3. /\ \A s \in Sessions : ~Outstanding(s, d, Nat, Nat)'
        /\ mpi_jobs'[d] = None
        /\ \A s \in Sessions : session'[s].pc \in {"finalize", "finalized"} => session'[s].task # d
        /\ \A p \in Procs : call'[p] # None /\ call'[p].op \in {"complete", "done"}
                              /\ call'[p].status = "MpiCompleted" => call'[p].task # d
        /\ \A i \in 1 .. Len(completed_tasks') :
             completed_tasks'[i].status = "MpiCompleted" => completed_tasks'[i].task # d
    BY <2>1, <2>2 DEF Remains, DoneMpi
  <2> QED BY <1>1, <2>2, <2>3
<1>4. JobsTally'
  <2> SUFFICES ASSUME NEW t \in Tasks, mpi_jobs'[t] # None
               PROVE  Tally(t, mpi_jobs'[t], attempt'[t])
    BY DEF JobsTally
  <2>1. Tally(t, mpi_jobs[t], attempt[t]) /\ t # c
    BY <1>1, <1>3 DEF JobInv, JobsTally
  <2> QED BY <1>1, <2>1, FullTask
<1>5. RanksAnswerOnce'
  <2> SUFFICES ASSUME NEW s \in Sessions, NEW t \in MpiTasks, mpi_jobs'[t] # None,
                      NEW r \in Ranks(Np[t]), Outstanding(s, t, {r}, Nat)'
               PROVE  mpi_jobs'[t].results[r] = 0 /\ mpi_jobs'[t].errors[r] = 0
    BY DEF RanksAnswerOnce
  <2>1. {r} \in SUBSET Nat
    BY IdsAssumption DEF Ranks
  <2>2. Outstanding(s, t, {r}, Nat)
    BY <1>2, <2>1 DEF AllFewer, Fewer
  <2> QED BY <1>1, <2>2 DEF JobInv, RanksAnswerOnce
<1>6. FinalizersAreSure'
  <2> SUFFICES ASSUME NEW s \in Sessions, NEW t, t = session[s].task
               PROVE  /\ session[s].pc = "finalize" =>
                           mpi_jobs[t] = None \/ IsComplete(mpi_jobs[t])
                      /\ session[s].pc = "finalized" => Full(t, session[s].job, attempt'[t])
    BY <1>1 DEF FinalizersAreSure
  <2>1. /\ session[s].pc = "finalize" => mpi_jobs[t] = None \/ IsComplete(mpi_jobs[t])
        /\ session[s].pc = "finalized" => Full(t, session[s].job, attempt[t]) /\ t # c
    BY <1>3 DEF JobInv, FinalizersAreSure
  <2> QED BY <1>1, <2>1, FullTask DEF Full
<1>7. CallsAreFull'
  <2> SUFFICES ASSUME NEW p \in Procs, call[p] # None, call[p].op \in {"complete", "done"},
                      call[p].status = "MpiCompleted", NEW t, t = call[p].task
               PROVE  Full(t, call[p].job, attempt'[t])
    BY <1>1 DEF CallsAreFull
  <2>1. Full(t, call[p].job, attempt[t]) /\ t # c
    BY <1>3 DEF JobInv, CallsAreFull
  <2> QED BY <1>1, <2>1, FullTask DEF Full
<1>8. EntriesAreFull'
  <2> SUFFICES ASSUME NEW i \in 1 .. Len(completed_tasks),
                      completed_tasks[i].status = "MpiCompleted",
                      NEW t, t = completed_tasks[i].task
               PROVE  Full(t, completed_tasks[i].job, attempt'[t])
    BY <1>1 DEF EntriesAreFull
  <2>1. Full(t, completed_tasks[i].job, attempt[t]) /\ t # c
    BY <1>3 DEF JobInv, EntriesAreFull
  <2> QED BY <1>1, <2>1, FullTask DEF Full
<1>9. AnswersAreCurrent'
  <2> SUFFICES ASSUME NEW s \in Sessions, NEW t \in MpiTasks, NEW a, a = attempt'[t]
               PROVE  /\ ~Outstanding(s, t, Nat, Nat \ {a})'
                      /\ \A r \in Ranks(Np[t]) :
                           /\ Single(s, t, {r})'
                           /\ Outstanding(s, t, {r}, Nat)' =>
                                \A s2 \in Sessions : Outstanding(s2, t, {r}, Nat)' => s2 = s
    BY DEF AnswersAreCurrent
  <2>1. ASSUME t = c PROVE ~Outstanding(s, t, Nat, Nat \ {a})'
    <3>1. ~Outstanding(s, c, Nat, Nat \ {a})'
      BY <1>3, MoreAsked
    <3> QED BY <1>3, <2>1, <3>1
  <2>2. ASSUME t # c PROVE ~Outstanding(s, t, Nat, Nat \ {a})'
    <3>1. a = attempt[t] /\ Fewer(s, t, Nat)
      BY <1>1, <1>2, <2>2 DEF AllFewer
    <3>2. ~Outstanding(s, t, Nat, Nat \ {a})
      BY <3>1 DEF JobInv, AnswersAreCurrent
    <3> QED BY <3>1, <3>2 DEF Fewer
  <2>3. ~Outstanding(s, t, Nat, Nat \ {a})'
    BY <2>1, <2>2
  <2>4. ASSUME NEW r \in Ranks(Np[t])
        PROVE  /\ Single(s, t, {r})'
               /\ Outstanding(s, t, {r}, Nat)' =>
                    \A s2 \in Sessions : Outstanding(s2, t, {r}, Nat)' => s2 = s
    <3>1. {r} \in SUBSET Nat
      BY IdsAssumption DEF Ranks
    <3>2. \A s2 \in Sessions : Fewer(s2, t, {r})
      BY <1>2, <3>1 DEF AllFewer
    <3> QED BY <3>2 DEF JobInv, AnswersAreCurrent, Fewer
  <2> QED BY <2>3, <2>4
<1>10. SlotsToSend'
  <2>1. PICK d : d = Current'
    OBVIOUS
  <2>2. ASSUME NEW r \in Ranks(Np[c]), NEW s \in Sessions PROVE ~Outstanding(s, c, {r}, Nat)'
    <3>1. {r} \subseteq Nat
      BY IdsAssumption DEF Ranks
    <3> QED BY <1>3, <3>1, MoreAsked
  <2>3. /\ mpi_jobs'[d] = None
        /\ \A s \in Sessions : session'[s].pc = "finalize" => session'[s].task # d
        /\ \A r \in Ranks(Np[d]), s \in Sessions : ~Outstanding(s, d, {r}, Nat)'
    BY <1>1, <1>3, <2>1, <2>2
  <2> QED BY <2>1, <2>3 DEF SlotsToSend
<1> QED BY <1>4, <1>5, <1>6, <1>7, <1>8, <1>9, <1>10 DEF JobInv

(* A slot is sent: the rank has none yet, on any connection. *)
LEMMA JobSendSlot ==
  ASSUME IInv, JobInv, sched.pc = "mpi", NEW c, c = Current, NEW k, k = sched.rank,
         k \in Ranks(Np[c]),
         NEW s0 \in Sessions, NEW m, Sends(s0, m), m.task = c, m.rank = k, m.att = attempt[c],
         sched' = SlotSent(TRUE),
         UNCHANGED <<pending_tasks, attempt, mpi_jobs, session, call, completed_tasks>>
  PROVE  JobInv'
<1> USE DEF IInv, TypeOK
<1>1. /\ c \in MpiTasks /\ c \in Tasks /\ mpi_jobs[c] = None /\ k \in Nat
      /\ \A r \in Ranks(Np[c]), s \in Sessions : r >= k => ~Outstanding(s, c, {r}, Nat)
  <2>1. c \in MpiTasks /\ c \in Tasks
    BY IdsAssumption DEF ScanInv
  <2>2. k \in Nat
    BY DEF SchedTypeOK, SchedState
  <2>3. mpi_jobs[c] = None
    BY DEF JobInv, SlotsToSend
  <2>4. \A r \in Ranks(Np[c]), s \in Sessions : r >= k => ~Outstanding(s, c, {r}, Nat)
    BY DEF JobInv, SlotsToSend
  <2> QED BY <2>1, <2>2, <2>3, <2>4
<1>2. ASSUME NEW s \in Sessions, NEW t \in MpiTasks, NEW r \in Ranks(Np[t]), t # c \/ r # k \/ s # s0
      PROVE  Fewer(s, t, {r})
  <2>1. {r} \in SUBSET Nat /\ (s = s0 /\ t = m.task => m.rank \notin {r})
    BY <1>2, IdsAssumption DEF Ranks
  <2> QED BY <2>1, SendAdds
<1>3. \A s \in Sessions : ~Outstanding(s, c, {k}, Nat)
  <2>1. k >= k
    BY <1>1
  <2> QED BY <1>1, <2>1, Zenon
<1>4. ASSUME NEW s \in Sessions, NEW t \in MpiTasks, NEW r \in Ranks(Np[t]), t # c \/ r # k
      PROVE  Outstanding(s, t, {r}, Nat)' => Outstanding(s, t, {r}, Nat)
  BY <1>2, <1>4 DEF Fewer
<1>5. JobsTally' /\ FinalizersAreSure' /\ CallsAreFull' /\ EntriesAreFull'
  BY DEF JobInv, JobsTally, FinalizersAreSure, CallsAreFull, EntriesAreFull
<1>6. RanksAnswerOnce'
  <2>1. ASSUME NEW s \in Sessions, NEW t \in MpiTasks, mpi_jobs'[t] # None,
               NEW r \in Ranks(Np[t]), Outstanding(s, t, {r}, Nat)'
        PROVE  mpi_jobs'[t].results[r] = 0 /\ mpi_jobs'[t].errors[r] = 0
    <3>1. mpi_jobs'[t] = mpi_jobs[t] /\ t # c
      BY <1>1, <2>1
    <3>2. Outstanding(s, t, {r}, Nat)
      BY <1>4, <2>1, <3>1
    <3> QED BY <2>1, <3>1, <3>2 DEF JobInv, RanksAnswerOnce
  <2> QED BY <2>1 DEF RanksAnswerOnce
<1>7. AnswersAreCurrent'
  <2> SUFFICES ASSUME NEW s \in Sessions, NEW t \in MpiTasks, NEW a, a = attempt[t]
               PROVE  /\ ~Outstanding(s, t, Nat, Nat \ {a})'
                      /\ \A r \in Ranks(Np[t]) :
                           /\ Single(s, t, {r})'
                           /\ Outstanding(s, t, {r}, Nat)' =>
                                \A s2 \in Sessions : Outstanding(s2, t, {r}, Nat)' => s2 = s
    BY DEF AnswersAreCurrent
  <2>1. ~Outstanding(s, t, Nat, Nat \ {a})'
    <3>1. ~Outstanding(s, t, Nat, Nat \ {a})
      BY DEF JobInv, AnswersAreCurrent
    <3>2. /\ ~(s = s0 /\ t = m.task /\ m.rank \in Nat) => Fewer(s, t, Nat)
          /\ \A atts : Outstanding(s, t, Nat, atts)' =>
               Outstanding(s, t, Nat, atts) \/ m.att \in atts
      BY SendAdds
    <3>3. CASE t = c
      BY <3>1, <3>2, <3>3
    <3>4. CASE t # c
      <4>1. Fewer(s, t, Nat)
        BY <3>2, <3>4
      <4>2. ~Outstanding(s, t, Nat, Nat \ {a})'
        BY <3>1, <4>1 DEF Fewer
      <4> QED BY <4>2
    <3> QED BY <3>3, <3>4
  <2>2. ASSUME NEW r \in Ranks(Np[t])
        PROVE  /\ Single(s, t, {r})'
               /\ Outstanding(s, t, {r}, Nat)' =>
                    \A s2 \in Sessions : Outstanding(s2, t, {r}, Nat)' => s2 = s
    <3>1. /\ Single(s, t, {r})
          /\ Outstanding(s, t, {r}, Nat) =>
               \A s2 \in Sessions : Outstanding(s2, t, {r}, Nat) => s2 = s
      BY DEF JobInv, AnswersAreCurrent
    <3>2. CASE t = c /\ r = k
      <4>1. {k} \in SUBSET Nat
        BY <1>1
      <4>2. Single(s, c, {k})'
        BY <1>3, <3>1, <3>2, <4>1, SendAdds
      <4>3. \A s2 \in Sessions : s2 # s0 => ~Outstanding(s2, c, {k}, Nat)'
        BY <1>2, <1>3, <3>2 DEF Fewer
      <4> QED BY <3>2, <4>2, <4>3
    <3>3. CASE t # c \/ r # k
      BY <1>2, <3>1, <3>3 DEF Fewer
    <3> QED BY <3>2, <3>3
  <2> QED BY <2>1, <2>2
<1>8. SlotsToSend'
  <2>1. PICK d : d = Current'
    OBVIOUS
  <2>2. d = c /\ sched'.pc = "mpi" /\ sched'.rank = k + 1
    BY <2>1 DEF SlotSent, Current
  <2>3. ASSUME NEW r \in Ranks(Np[c]), NEW s \in Sessions, r >= k + 1
        PROVE  ~Outstanding(s, c, {r}, Nat)'
    <3>1. r \in Nat
      BY <1>1, IdsAssumption DEF Ranks
    <3>2. r # k /\ r >= k
      BY <1>1, <2>3, <3>1
    <3> QED BY <1>1, <1>4, <3>2
  <2>4. mpi_jobs[c] = None /\ \A s \in Sessions : session[s].pc = "finalize" => session[s].task # c
    BY DEF JobInv, SlotsToSend
  <2>5. /\ mpi_jobs'[d] = None
        /\ \A s \in Sessions : session'[s].pc = "finalize" => session'[s].task # d
        /\ \A r \in Ranks(Np[d]), s \in Sessions :
             r >= sched'.rank => ~Outstanding(s, d, {r}, Nat)'
    BY <2>2, <2>3, <2>4
  <2> QED BY <2>1, <2>5 DEF SlotsToSend
<1> QED BY <1>5, <1>6, <1>7, <1>8 DEF JobInv

(* The job is registered: no rank has answered, no handler finalizes it. *)
LEMMA JobRegister ==
  ASSUME IInv, JobInv, RegisterJob, UNCHANGED <<session, execs>>
  PROVE  JobInv'
<1> USE DEF IInv, TypeOK, nodeVars, wireVars, taskVars, historyVars
<1>1. PICK c : c = Current
  OBVIOUS
<1> DEFINE job == NewJob(Np[c])
<1>2. /\ c \in MpiTasks /\ c \in Tasks /\ Len(sched.targets) = Np[c] /\ Np[c] \in Nat
      /\ \A s \in Sessions : session[s].pc = "finalize" => session[s].task # c
  BY <1>1, IdsAssumption DEF ScanInv, RegisterJob, JobInv, SlotsToSend
<1>3. /\ mpi_jobs' = [mpi_jobs EXCEPT ![c] = job]
      /\ sched'.pc = "scan"
      /\ UNCHANGED <<link, toServer, toWorker, attempt, session, call, completed_tasks, execs>>
  BY <1>1, <1>2 DEF RegisterJob, DispatchedTask, Scan
<1>4. AllFewer
  BY <1>3, WiresKept
<1>5. /\ job \in MpiJob({Np[c]})
      /\ \A r \in Ranks(Np[c]) : job.results[r] = 0 /\ job.errors[r] = 0
  BY <1>2 DEF NewJob, MpiJob
<1> HIDE DEF job
<1>6. mpi_jobs'[c] = job /\ \A t \in Tasks : t # c => mpi_jobs'[t] = mpi_jobs[t]
  BY <1>2, <1>3 DEF AppTypeOK
<1>7. JobsTally'
  <2>1. Tally(c, job, attempt[c])
    BY <1>2, <1>5 DEF Tally
  <2> QED BY <1>3, <1>6, <2>1 DEF JobInv, JobsTally
<1>8. RanksAnswerOnce'
  <2> SUFFICES ASSUME NEW s \in Sessions, NEW t \in MpiTasks, mpi_jobs'[t] # None,
                      NEW r \in Ranks(Np[t]), Outstanding(s, t, {r}, Nat)'
               PROVE  mpi_jobs'[t].results[r] = 0 /\ mpi_jobs'[t].errors[r] = 0
    BY DEF RanksAnswerOnce
  <2>1. {r} \in SUBSET Nat /\ t \in Tasks
    BY IdsAssumption DEF Ranks
  <2>2. Outstanding(s, t, {r}, Nat)
    BY <1>4, <2>1 DEF AllFewer, Fewer
  <2>3. CASE t = c
    BY <1>5, <1>6, <2>3
  <2>4. CASE t # c
    BY <1>6, <2>1, <2>2, <2>4 DEF JobInv, RanksAnswerOnce
  <2> QED BY <2>3, <2>4
<1>9. FinalizersAreSure'
  <2> SUFFICES ASSUME NEW s \in Sessions, NEW t, t = session[s].task
               PROVE  /\ session[s].pc = "finalize" =>
                           mpi_jobs'[t] = None \/ IsComplete(mpi_jobs'[t])
                      /\ session[s].pc = "finalized" => Full(t, session[s].job, attempt[t])
    BY <1>3 DEF FinalizersAreSure
  <2>1. session[s].pc = "finalize" => t \in Tasks /\ t # c
    BY <1>2 DEF HandlerInv
  <2> QED BY <1>6, <2>1 DEF JobInv, FinalizersAreSure
<1>10. CallsAreFull' /\ EntriesAreFull'
  BY <1>3 DEF JobInv, CallsAreFull, EntriesAreFull
<1>11. AnswersAreCurrent'
  BY <1>3, <1>4, AnswersKept DEF JobInv, AllFewer, MpiFewer
<1>12. SlotsToSend'
  BY <1>3 DEF SlotsToSend
<1> QED BY <1>7, <1>8, <1>9, <1>10, <1>11, <1>12 DEF JobInv

-----------------------------------------------------------------------------
(* A rank answers *)

LEMMA AnswerRecorded ==
  ASSUME NEW t, IsMpi(t), NEW att \in Nat, NEW old, Tally(t, old, att), NEW k \in Nat, NEW job,
         job = RecordResult(old, k, att) \/ job = RecordError(old, k, att),
         k \in Ranks(Np[t]) => old.results[k] = 0 /\ old.errors[k] = 0
  PROVE  /\ Tally(t, job, att)
         /\ \A r \in Ranks(Np[t]) :
              r # k => job.results[r] = old.results[r] /\ job.errors[r] = old.errors[r]
         /\ IsComplete(old) => IsComplete(job)
<1> DEFINE R == Ranks(Np[t])
<1>1. /\ t \in MpiTasks
      /\ old \in [results : [R -> Nat], errors : [R -> Nat]]
      /\ \A r \in R : /\ {old.results[r], old.errors[r]} \subseteq {0, att}
                      /\ 0 \in {old.results[r], old.errors[r]}
  BY DEF Tally, MpiJob
<1>2. \/ job = [old EXCEPT !.results = [@ EXCEPT ![k] = att]]
      \/ job = [old EXCEPT !.errors = [@ EXCEPT ![k] = att]]
  BY DEF RecordResult, RecordError
<1>3. job \in [results : [R -> Nat], errors : [R -> Nat]]
  BY <1>1, <1>2
<1>4. \A r \in R : r # k => job.results[r] = old.results[r] /\ job.errors[r] = old.errors[r]
  BY <1>1, <1>2
<1>5. k \in R => {job.results[k], job.errors[k]} = {0, att} /\ 0 \in {job.results[k], job.errors[k]}
  BY <1>1, <1>2
<1>6. Tally(t, job, att)
  BY <1>1, <1>3, <1>4, <1>5 DEF Tally, MpiJob
<1>7. ASSUME IsComplete(old) PROVE IsComplete(job)
  <2>1. DOMAIN old.results = R /\ DOMAIN job.results = R
    BY <1>1, <1>3
  <2>2. k \notin R
    BY <1>7, <2>1 DEF IsComplete
  <2> HIDE DEF R
  <2> QED BY <1>4, <1>7, <2>1, <2>2 DEF IsComplete
<1> QED BY <1>4, <1>6, <1>7

LEMMA JobRecord ==
  ASSUME IInv, JobInv, NEW s0 \in Sessions, NEW type \in {"MpiRankResult", "MpiRankError"},
         Receive(s0, type), NEW m, m = Head(toServer[s0]), NEW t0, t0 = m.task,
         AllFewer,
         UNCHANGED <<link, execs, sched, pending_tasks, attempt, call, completed_tasks>>,
         \/ toWorker'[s0] = toWorker[s0]
         \/ \E x \in ServerMessage : /\ x.type \notin {"DispatchTask", "DispatchMpiSlot"}
                                     /\ toWorker'[s0] = Append(toWorker[s0], x),
         mpi_jobs[t0] # None, NEW job,
         \/ job = RecordResult(mpi_jobs[t0], m.rank, m.att)
         \/ job = RecordError(mpi_jobs[t0], m.rank, m.att),
         mpi_jobs' = [mpi_jobs EXCEPT ![t0] = job],
         \/ IsComplete(job) /\ Goto(s0, Finalizing("finalize", t0, None))
         \/ UNCHANGED session
  PROVE  JobInv'
<1> USE DEF IInv, TypeOK
<1> DEFINE k == m.rank
           old == mpi_jobs[t0]
<1>1. t0 \in Tasks /\ k \in Nat /\ m.att \in Nat
  BY ReceiveType
<1>2. Tally(t0, old, attempt[t0]) /\ t0 \in MpiTasks
  BY <1>1, FullTask DEF JobInv, JobsTally
<1>3. \A ranks \in SUBSET Nat : k \in ranks =>
        /\ \A atts : m.att \in atts => Outstanding(s0, t0, ranks, atts)
        /\ Single(s0, t0, ranks) => ~Outstanding(s0, t0, ranks, Nat)'
  <2>1. UNCHANGED <<link, execs>>
    OBVIOUS
  <2> QED BY <2>1, ReadEnds
<1>4. m.att = attempt[t0]
  <2>1. \A atts : m.att \in atts => Outstanding(s0, t0, Nat, atts)
    BY <1>1, <1>3
  <2>2. ~Outstanding(s0, t0, Nat, Nat \ {attempt[t0]})
    BY <1>2 DEF JobInv, AnswersAreCurrent
  <2> QED BY <1>1, <2>1, <2>2
<1>5. ASSUME k \in Ranks(Np[t0])
      PROVE  /\ old.results[k] = 0 /\ old.errors[k] = 0
             /\ \A s \in Sessions : ~Outstanding(s, t0, {k}, Nat)'
  <2>1. {k} \in SUBSET Nat
    BY <1>1
  <2>2. Outstanding(s0, t0, {k}, Nat)
    BY <1>1, <1>3, <2>1
  <2>3. old.results[k] = 0 /\ old.errors[k] = 0
    BY <1>2, <1>5, <2>2 DEF JobInv, RanksAnswerOnce
  <2>4. /\ Single(s0, t0, {k})
        /\ \A s \in Sessions : Outstanding(s, t0, {k}, Nat) => s = s0
    BY <1>2, <1>5, <2>2 DEF JobInv, AnswersAreCurrent
  <2>5. ~Outstanding(s0, t0, {k}, Nat)'
    BY <1>3, <2>1, <2>4
  <2>6. \A s \in Sessions : Outstanding(s, t0, {k}, Nat)' => Outstanding(s, t0, {k}, Nat)
    BY <2>1 DEF AllFewer, Fewer
  <2> QED BY <2>3, <2>4, <2>5, <2>6
<1>6. /\ Tally(t0, job, attempt[t0])
      /\ \A r \in Ranks(Np[t0]) :
           r # k => job.results[r] = old.results[r] /\ job.errors[r] = old.errors[r]
      /\ IsComplete(old) => IsComplete(job)
  <2>1. attempt[t0] \in Nat /\ IsMpi(t0)
    BY <1>1, <1>2 DEF AppTypeOK, IsMpi
  <2>2. job = RecordResult(old, k, attempt[t0]) \/ job = RecordError(old, k, attempt[t0])
    BY <1>4
  <2>3. k \in Ranks(Np[t0]) => old.results[k] = 0 /\ old.errors[k] = 0
    BY <1>5
  <2> HIDE DEF k, old
  <2> QED BY <1>1, <1>2, <2>1, <2>2, <2>3, AnswerRecorded
<1>7. mpi_jobs'[t0] = job /\ \A t \in Tasks : t # t0 => mpi_jobs'[t] = mpi_jobs[t]
  BY <1>1 DEF AppTypeOK
<1> HIDE DEF k, old
<1>8. JobsTally'
  BY <1>6, <1>7 DEF JobInv, JobsTally
<1>9. RanksAnswerOnce'
  <2> SUFFICES ASSUME NEW s \in Sessions, NEW t \in MpiTasks, mpi_jobs'[t] # None,
                      NEW r \in Ranks(Np[t]), Outstanding(s, t, {r}, Nat)'
               PROVE  mpi_jobs'[t].results[r] = 0 /\ mpi_jobs'[t].errors[r] = 0
    BY DEF RanksAnswerOnce
  <2>1. {r} \in SUBSET Nat /\ t \in Tasks
    BY IdsAssumption DEF Ranks
  <2>2. Outstanding(s, t, {r}, Nat)
    BY <2>1 DEF AllFewer, Fewer
  <2>3. CASE t = t0
    <3>1. r # k
      BY <1>5, <2>3
    <3>2. old.results[r] = 0 /\ old.errors[r] = 0
      BY <2>2, <2>3 DEF JobInv, RanksAnswerOnce, old
    <3> QED BY <1>6, <1>7, <2>3, <3>1, <3>2
  <2>4. CASE t # t0
    <3>1. mpi_jobs'[t] = mpi_jobs[t]
      BY <1>7, <2>1, <2>4
    <3>2. mpi_jobs[t].results[r] = 0 /\ mpi_jobs[t].errors[r] = 0
      BY <2>2, <3>1 DEF JobInv, RanksAnswerOnce
    <3> QED BY <3>1, <3>2
  <2> QED BY <2>3, <2>4
<1>10. FinalizersAreSure'
  <2> SUFFICES ASSUME NEW s \in Sessions, NEW t, t = session'[s].task
               PROVE  /\ session'[s].pc = "finalize" =>
                           mpi_jobs'[t] = None \/ IsComplete(mpi_jobs'[t])
                      /\ session'[s].pc = "finalized" => Full(t, session'[s].job, attempt[t])
    BY DEF FinalizersAreSure
  <2>1. CASE session'[s] = session[s]
    <3>1. session[s].pc = "finalize" => t \in Tasks
      BY <2>1 DEF HandlerInv
    <3>2. /\ session[s].pc = "finalize" => mpi_jobs[t] = None \/ IsComplete(mpi_jobs[t])
          /\ session[s].pc = "finalized" => Full(t, session[s].job, attempt[t])
      BY <2>1 DEF JobInv, FinalizersAreSure
    <3>3. session[s].pc = "finalize" => mpi_jobs'[t] = None \/ IsComplete(mpi_jobs'[t])
      BY <1>6, <1>7, <3>1, <3>2 DEF old
    <3> QED BY <2>1, <3>2, <3>3
  <2>2. CASE session'[s] # session[s]
    <3>1. IsComplete(job) /\ session'[s] = Finalizing("finalize", t0, None)
      BY <2>2 DEF Goto, WsTypeOK
    <3>2. session'[s].pc = "finalize" /\ t = t0
      BY <3>1 DEF Finalizing
    <3> QED BY <1>7, <3>1, <3>2
  <2> QED BY <2>1, <2>2
<1>11. CallsAreFull' /\ EntriesAreFull'
  BY DEF JobInv, CallsAreFull, EntriesAreFull
<1>12. AnswersAreCurrent'
  BY AnswersKept DEF JobInv, AllFewer, MpiFewer
<1>13. SlotsToSend'
  <2>1. PICK c : c = Current
    OBVIOUS
  <2>2. Current' = c
    BY <2>1 DEF Current
  <2>3. ASSUME sched.pc \in {"mpi", "job"}
        PROVE  /\ mpi_jobs'[c] = None
               /\ \A s \in Sessions : session'[s].pc = "finalize" => session'[s].task # c
    <3>1. c \in Tasks /\ mpi_jobs[c] = None /\ c # t0
      BY <2>1, <2>3, IdsAssumption DEF ScanInv, JobInv, SlotsToSend
    <3>2. \A s \in Sessions : session[s].pc = "finalize" => session[s].task # c
      BY <2>1, <2>3 DEF JobInv, SlotsToSend
    <3>3. \A s \in Sessions : session'[s] = session[s] \/ session'[s].task = t0
      BY DEF Goto, WsTypeOK, Finalizing
    <3> QED BY <1>7, <3>1, <3>2, <3>3
  <2>4. ASSUME sched.pc = "mpi", NEW r \in Ranks(Np[c]), NEW s \in Sessions, r >= sched.rank
        PROVE  ~Outstanding(s, c, {r}, Nat)'
    <3>1. c \in MpiTasks
      BY <2>1, <2>4 DEF ScanInv
    <3>2. {r} \in SUBSET Nat
      BY <3>1, IdsAssumption DEF Ranks
    <3>3. ~Outstanding(s, c, {r}, Nat)
      BY <2>1, <2>4 DEF JobInv, SlotsToSend
    <3> QED BY <3>2, <3>3 DEF AllFewer, Fewer
  <2> QED BY <2>2, <2>3, <2>4 DEF SlotsToSend
<1> QED BY <1>8, <1>9, <1>10, <1>11, <1>12, <1>13 DEF JobInv

-----------------------------------------------------------------------------
(* Each step of the system *)

(* Steps that leave the dispatcher and the completed tasks alone. *)
LEMMA JobGoesOn ==
  ASSUME IInv, JobInv, AllFewer,
         UNCHANGED <<attempt, completed_tasks>>,
         \A t \in Tasks : mpi_jobs'[t] = mpi_jobs[t] \/ mpi_jobs'[t] = None,
         \A s \in Sessions : session'[s].pc \in {"finalize", "finalized"} =>
           session'[s] = session[s],
         \A p \in Procs : call'[p] # None /\ call'[p].op \in {"complete", "done"} =>
           call'[p] = call[p] \/ SureOf(call'[p], attempt),
         \/ UNCHANGED <<sched, pending_tasks>>
         \/ sched'.pc \notin {"mpi", "job"}
  PROVE  JobInv'
<1>1. sched.pc \in SchedPc /\ sched.rank \in Nat
  BY DEF IInv, TypeOK, SchedTypeOK, SchedState
<1>2. /\ sched'.pc \in {"mpi", "job"} => sched.pc \in {"mpi", "job"} /\ Current' = Current
      /\ sched'.pc = "mpi" =>
           sched.pc = "mpi" /\ sched'.rank \in Nat /\ sched'.rank >= sched.rank
  BY <1>1 DEF Current
<1>3. MpiFewer
  BY IdsAssumption DEF AllFewer, MpiFewer
<1>4. \A i \in 1 .. Len(completed_tasks') : SureOf(completed_tasks'[i], attempt)
  BY SameEntriesSure
<1>5. \A t \in MpiTasks : attempt'[t] = attempt[t]
  OBVIOUS
<1> QED BY <1>2, <1>3, <1>4, <1>5, JobKept

LEMMA JobSched ==
  ASSUME IInv, JobInv, JobsApart', SchedNext, UNCHANGED <<session, execs>>, SchedTypeOK'
  PROVE  JobInv'
<1> USE DEF IInv, TypeOK, nodeVars, wireVars, taskVars, historyVars, stateVars
<1>1. CASE Lock \/ Skip \/ Record \/ Sweep \/ Unlock
  <2>1. /\ UNCHANGED <<link, toServer, toWorker, mpi_jobs, call, attempt, completed_tasks>>
        /\ sched'.pc \notin {"mpi", "job"}
    BY <1>1 DEF Lock, Skip, Record, Sweep, Unlock, Scanned, Scan, NextTask, DispatchedTask,
                SchedIdle, SchedTypeOK, SchedState
  <2>2. AllFewer
    BY <2>1, WiresKept
  <2> QED BY <2>1, <2>2, JobGoesOn
<1>2. CASE Send
  <2>0. PICK c \in Tasks \ MpiTasks : \E n \in Eligible(c) : SendTask(c, n)
    BY <1>2 DEF Send
  <2>1. PICK n \in Eligible(c) : SendTask(c, n)
    BY <2>0
  <2>2. n \in Nodes
    BY <2>1, IdsAssumption DEF Eligible
  <2>3. /\ UNCHANGED <<link, toServer, mpi_jobs, call, completed_tasks>>
        /\ sched'.pc \notin {"mpi", "job"}
        /\ \A t \in MpiTasks : attempt'[t] = attempt[t]
    <3>1. UNCHANGED <<link, toServer, mpi_jobs, call, completed_tasks>>
      BY <2>1 DEF SendTask
    <3>2. sched'.pc \in {"record", "scan"}
      BY <2>1 DEF SendTask, NextTask, Scan, Chosen
    <3>3. attempt' = [attempt EXCEPT ![c] = @ + 1] \/ attempt' = attempt
      BY <2>1 DEF SendTask
    <3>4. \A t \in MpiTasks : t \in Tasks /\ t # c
      BY IdsAssumption
    <3>5. attempt \in [Tasks -> Nat]
      BY DEF AppTypeOK
    <3> QED BY <3>1, <3>2, <3>3, <3>4, <3>5
  <2>4. MpiFewer
    <3>1. CASE ~ChannelOpen(n)
      <4>1. UNCHANGED toWorker
        BY <2>1, <3>1 DEF SendTask
      <4>2. AllFewer
        BY <2>3, <4>1, WiresKept
      <4> QED BY <4>2 DEF AllFewer, MpiFewer
    <3>2. CASE ChannelOpen(n)
      <4> DEFINE m == [type |-> "DispatchTask", task |-> c, rank |-> 0, att |-> attempt[c] + 1]
      <4>1. toWorker' = Delivered({worker_channels[n]}, m)
        BY <2>1, <3>2 DEF SendTask, SendToWorker
      <4>2. m \in ServerMessage /\ m.type = "DispatchTask" /\ m.task = c
        BY DEF ServerMessage, AppTypeOK
      <4> HIDE DEF m
      <4>3. PICK s0 \in Sessions : s0 = worker_channels[n]
        BY <2>2, <3>2 DEF ChannelOpen, AppTypeOK
      <4>4. PICK x : x = m
        OBVIOUS
      <4>5. Sends(s0, x) /\ x.task = c
        BY <2>3, <4>1, <4>2, <4>3, <4>4 DEF Sends
      <4> QED BY <4>5, SendAdds DEF MpiFewer
    <3> QED BY <3>1, <3>2
  <2>5. \A i \in 1 .. Len(completed_tasks') : SureOf(completed_tasks'[i], attempt)
    BY <2>3, SameEntriesSure
  <2> QED BY <2>3, <2>4, <2>5, JobKept
<1>3. CASE Recruit
  BY <1>3, JobRecruit DEF Recruit
<1>4. CASE SendSlot
  <2>1. PICK c : c = Current
    OBVIOUS
  <2>2. PICK k : k = sched.rank
    OBVIOUS
  <2>3. PICK n : n = sched.targets[k + 1]
    OBVIOUS
  <2>4. /\ c \in MpiTasks /\ Len(sched.targets) = Np[c] /\ Np[c] \in Nat
        /\ k \in Nat /\ k < Np[c] /\ sched.pc = "mpi" /\ sched.targets \in Seq(Nodes)
    BY <1>4, <2>1, <2>2, IdsAssumption DEF SendSlot, ScanInv, SchedTypeOK, SchedState
  <2>5. k \in Ranks(Np[c]) /\ n \in Nodes
    BY <2>3, <2>4 DEF Ranks
  <2>6. UNCHANGED <<link, toServer, pending_tasks, attempt, mpi_jobs, session, call, completed_tasks>>
    BY <1>4 DEF SendSlot
  <2>7. CASE ~ChannelOpen(n)
    <3>1. UNCHANGED toWorker /\ sched' = SlotSent(FALSE)
      BY <1>4, <2>2, <2>3, <2>7 DEF SendSlot
    <3>2. MpiFewer
      BY <2>6, <3>1, WiresKept, IdsAssumption DEF AllFewer, MpiFewer
    <3>3. Current' = Current /\ sched'.pc = "mpi" /\ sched'.rank = k + 1
      BY <2>2, <2>6, <3>1 DEF Current, SlotSent
    <3>4. \A i \in 1 .. Len(completed_tasks') : SureOf(completed_tasks'[i], attempt)
      BY <2>6, SameEntriesSure
    <3>5. sched'.rank \in Nat /\ sched'.rank >= sched.rank
      BY <2>2, <2>4, <3>3
    <3> QED BY <2>4, <2>6, <3>2, <3>3, <3>4, <3>5, JobKept
  <2>8. CASE ChannelOpen(n)
    <3> DEFINE m == [type |-> "DispatchMpiSlot", task |-> c, rank |-> k, att |-> attempt[c]]
    <3>1. toWorker' = Delivered({worker_channels[n]}, m) /\ sched' = SlotSent(TRUE)
      BY <1>4, <2>1, <2>2, <2>3, <2>8 DEF SendSlot, SendToWorker
    <3>2. /\ m \in ServerMessage /\ m.type = "DispatchMpiSlot" /\ m.task = c
          /\ m.rank = k /\ m.att = attempt[c]
      BY <2>4, IdsAssumption DEF ServerMessage, AppTypeOK
    <3> HIDE DEF m
    <3>3. PICK s0 \in Sessions : s0 = worker_channels[n]
      BY <2>5, <2>8 DEF ChannelOpen, AppTypeOK
    <3>4. PICK x : x = m
      OBVIOUS
    <3>5. Sends(s0, x) /\ x.task = c /\ x.rank = k /\ x.att = attempt[c]
      BY <2>6, <3>1, <3>2, <3>3, <3>4 DEF Sends
    <3> QED BY <2>1, <2>2, <2>4, <2>5, <2>6, <3>1, <3>5, JobSendSlot
  <2> QED BY <2>7, <2>8
<1>5. CASE RecordMpi
  <2>1. /\ UNCHANGED <<link, toServer, toWorker, pending_tasks, attempt, mpi_jobs, session, call,
                       completed_tasks>>
        /\ sched.pc = "mpi" /\ sched' = [sched EXCEPT !.pc = "job"]
    BY <1>5 DEF RecordMpi
  <2>2. sched'.pc = "job" /\ Current' = Current
    BY <2>1 DEF Current, SchedTypeOK, SchedState
  <2>3. MpiFewer
    BY <2>1, WiresKept, IdsAssumption DEF AllFewer, MpiFewer
  <2>4. \A i \in 1 .. Len(completed_tasks') : SureOf(completed_tasks'[i], attempt)
    BY <2>1, SameEntriesSure
  <2> QED BY <2>1, <2>2, <2>3, <2>4, JobKept
<1>6. CASE RegisterJob
  BY <1>6, JobRegister
<1>7. CASE AbortDispatch
  <2>1. PICK c : c = Current
    OBVIOUS
  <2>2. c \in Tasks
    BY <1>7, <2>1, IdsAssumption DEF AbortDispatch, ScanInv
  <2> DEFINE m == [type |-> "AbortMpiJob", task |-> c]
  <2>3. /\ UNCHANGED <<link, toServer, attempt, mpi_jobs, call, completed_tasks>>
        /\ \E ss : toWorker' = Delivered(ss, m)
        /\ sched'.pc = "scan"
    BY <1>7, <2>1 DEF AbortDispatch, AbortMpiJob, NextTask, Scan
  <2>4. m \in ServerMessage /\ m.type = "AbortMpiJob"
    BY <2>2 DEF ServerMessage
  <2> HIDE DEF m
  <2>5. AllFewer
    BY <2>3, <2>4, HandlerFewer
  <2> QED BY <2>3, <2>5, JobGoesOn
<1> QED BY <1>1, <1>2, <1>3, <1>4, <1>5, <1>6, <1>7 DEF SchedNext

LEMMA JobWs ==
  ASSUME IInv, JobInv, NEW s0 \in Sessions, WsNext(s0), UNCHANGED <<sched, execs>>
  PROVE  JobInv'
<1> USE DEF IInv, TypeOK, nodeVars, wireVars, taskVars, historyVars, stateVars
<1>1. AllFewer /\ UNCHANGED link
  BY WsFewer
<1>2. UNCHANGED <<pending_tasks, attempt, completed_tasks>>
  BY DEF WsNext, OnRegister, OnHeartbeat, OnTaskResult, OnTaskError, Answered,
         OnMpiRankResult, OnMpiRankError, Finalize, Finalized, OnDraining, OnClose,
         RequeueLost, LostRequeued
<1>3. /\ session \in [Sessions -> WsState] /\ mpi_jobs \in [Tasks -> Jobs \cup {None}]
      /\ \A s \in Sessions : session[s].todo \subseteq Tasks
      /\ s0 \in Procs
  BY DEF WsTypeOK, WsState, AppTypeOK, Procs
<1>4. ASSUME NEW pc, pc \notin {"finalize", "finalized"}, NEW st, st.pc = pc, Goto(s0, st)
      PROVE  \A s \in Sessions : session'[s].pc \in {"finalize", "finalized"} =>
               session'[s] = session[s]
  BY <1>3, <1>4 DEF Goto
<1>5. \A todo, pc : At(pc).pc = pc /\ Requeueing(pc, todo).pc = pc
  BY DEF At, Requeueing
<1>6. CASE OnHeartbeat(s0) \/ OnDraining(s0)
  <2>1. UNCHANGED <<mpi_jobs, session, call>>
    BY <1>6 DEF OnHeartbeat, OnDraining
  <2> QED BY <1>1, <1>2, <2>1, JobGoesOn
<1>7. CASE OnRegister(s0) \/ Answered(s0)
  <2>1. Goto(s0, At("loop")) /\ UNCHANGED <<mpi_jobs, call>>
    BY <1>7 DEF OnRegister, Answered
  <2> QED BY <1>1, <1>2, <1>4, <1>5, <2>1, JobGoesOn
<1>8. CASE OnTaskResult(s0) \/ OnTaskError(s0)
  <2>1. PICK t : t = Head(toServer[s0]).task
    OBVIOUS
  <2>2. t \in Tasks
    BY <1>8, <2>1, ReceiveType DEF OnTaskResult, OnTaskError
  <2>3. /\ UNCHANGED mpi_jobs
        /\ \/ UNCHANGED <<session, call>>
           \/ /\ Goto(s0, At("answered"))
              /\ CompleteTask(s0, t, "Completed", None) \/ Requeue(s0, t)
    BY <1>8, <2>1 DEF OnTaskResult, OnTaskError
  <2>4. CASE UNCHANGED <<session, call>>
    BY <1>1, <1>2, <2>3, <2>4, JobGoesOn
  <2>5. CASE /\ Goto(s0, At("answered"))
             /\ CompleteTask(s0, t, "Completed", None) \/ Requeue(s0, t)
    <3>1. \A q \in Procs : call'[q] # None /\ call'[q].op \in {"complete", "done"} =>
            call'[q] = call[q] \/ SureOf(call'[q], attempt)
      BY <1>3, <2>2, <2>5, OtherCallSure
    <3> QED BY <1>1, <1>2, <1>4, <1>5, <2>3, <2>5, <3>1, JobGoesOn
  <2> QED BY <2>3, <2>4, <2>5
<1>9. CASE OnMpiRankResult(s0) \/ OnMpiRankError(s0)
  <2>1. PICK m : m = Head(toServer[s0])
    OBVIOUS
  <2>2. PICK t : t = m.task
    OBVIOUS
  <2>3. PICK type \in {"MpiRankResult", "MpiRankError"} : Receive(s0, type)
    BY <1>9 DEF OnMpiRankResult, OnMpiRankError
  <2>4. UNCHANGED call
    BY <1>9 DEF OnMpiRankResult, OnMpiRankError
  <2>5. CASE mpi_jobs[t] = None
    <3>1. UNCHANGED <<mpi_jobs, session>>
      BY <1>9, <2>1, <2>2, <2>5 DEF OnMpiRankResult, OnMpiRankError
    <3> QED BY <1>1, <1>2, <2>4, <3>1, JobGoesOn
  <2>6. CASE mpi_jobs[t] # None
    <3>1. PICK job : /\ \/ job = RecordResult(mpi_jobs[t], m.rank, m.att)
                        \/ job = RecordError(mpi_jobs[t], m.rank, m.att)
                     /\ mpi_jobs' = [mpi_jobs EXCEPT ![t] = job]
                     /\ \/ IsComplete(job) /\ Goto(s0, Finalizing("finalize", t, None))
                        \/ UNCHANGED session
                     /\ UNCHANGED toWorker \/ AbortMpiJob(t)
      BY <1>9, <2>1, <2>2, <2>6 DEF OnMpiRankResult, OnMpiRankError
    <3>2. t \in Tasks
      BY <2>1, <2>2, <2>3, ReceiveType
    <3>3. \/ toWorker'[s0] = toWorker[s0]
          \/ \E x \in ServerMessage : /\ x.type \notin {"DispatchTask", "DispatchMpiSlot"}
                                      /\ toWorker'[s0] = Append(toWorker[s0], x)
      <4> DEFINE x == [type |-> "AbortMpiJob", task |-> t]
      <4>1. x \in ServerMessage /\ x.type = "AbortMpiJob"
        BY <3>2 DEF ServerMessage
      <4>2. UNCHANGED toWorker \/ \E ss : toWorker' = Delivered(ss, x)
        BY <3>1 DEF AbortMpiJob
      <4> HIDE DEF x
      <4>3. toWorker'[s0] = toWorker[s0] \/ toWorker'[s0] = Append(toWorker[s0], x)
        BY <4>2, DeliveredTo
      <4> QED BY <4>1, <4>3
    <3> QED BY <1>1, <1>2, <2>1, <2>2, <2>3, <2>4, <2>6, <3>1, <3>3, JobRecord
  <2> QED BY <2>5, <2>6
<1>10. CASE Finalize(s0)
  <2>1. PICK t : t = session[s0].task
    OBVIOUS
  <2>2. /\ session[s0].pc = "finalize" /\ UNCHANGED call
        /\ mpi_jobs' = [mpi_jobs EXCEPT ![t] = None]
        /\ Goto(s0, IF mpi_jobs[t] = None THEN At("loop")
                    ELSE Finalizing("finalized", t, mpi_jobs[t]))
    BY <1>10, <2>1 DEF Finalize
  <2>3. t \in Tasks
    BY <2>1, <2>2 DEF HandlerInv
  <2>4. mpi_jobs[t] # None => Full(t, mpi_jobs[t], attempt[t])
    BY <2>1, <2>2, <2>3 DEF JobInv, JobsTally, FinalizersAreSure, Full
  <2>5. ASSUME NEW s \in Sessions, session'[s].pc \in {"finalize", "finalized"}
        PROVE  \/ session'[s] = session[s]
               \/ /\ session'[s].pc = "finalized"
                  /\ Full(session'[s].task, session'[s].job, attempt[session'[s].task])
    <3>1. CASE s # s0
      BY <1>3, <2>2, <3>1 DEF Goto
    <3>2. CASE s = s0 /\ mpi_jobs[t] = None
      BY <1>3, <1>5, <2>2, <2>5, <3>2 DEF Goto
    <3>3. CASE s = s0 /\ mpi_jobs[t] # None
      <4>1. session'[s] = Finalizing("finalized", t, mpi_jobs[t])
        BY <1>3, <2>2, <3>3 DEF Goto
      <4>2. session'[s].pc = "finalized" /\ session'[s].task = t /\ session'[s].job = mpi_jobs[t]
        BY <4>1 DEF Finalizing
      <4> QED BY <2>4, <3>3, <4>2
    <3> QED BY <3>1, <3>2, <3>3
  <2>6. MpiFewer
    BY <1>1, IdsAssumption DEF AllFewer, MpiFewer
  <2>7. \A i \in 1 .. Len(completed_tasks') : SureOf(completed_tasks'[i], attempt)
    BY <1>2, SameEntriesSure
  <2>8. \A u \in Tasks : mpi_jobs'[u] = mpi_jobs[u] \/ mpi_jobs'[u] = None
    BY <1>3, <2>2
  <2>9. Current' = Current /\ sched' = sched /\ sched.rank \in Nat /\ sched.rank >= sched.rank
    BY <1>2 DEF Current, SchedTypeOK, SchedState
  <2> QED BY <1>2, <2>2, <2>5, <2>6, <2>7, <2>8, <2>9, JobKept
<1>11. CASE Finalized(s0)
  <2>1. PICK t : t = session[s0].task
    OBVIOUS
  <2>2. /\ session[s0].pc = "finalized" /\ Goto(s0, At("loop")) /\ UNCHANGED mpi_jobs
        /\ \/ call' = [call EXCEPT ![s0] = [op |-> "complete", task |-> t, status |-> "MpiCompleted",
                                            job |-> session[s0].job]]
           \/ UNCHANGED call
    BY <1>11, <2>1 DEF Finalized, CompleteTask
  <2>3. Full(t, session[s0].job, attempt[t])
    BY <2>1, <2>2 DEF JobInv, FinalizersAreSure
  <2>4. \A q \in Procs : call'[q] # None /\ call'[q].op \in {"complete", "done"} =>
          call'[q] = call[q] \/ SureOf(call'[q], attempt)
    <3> DEFINE x == [op |-> "complete", task |-> t, status |-> "MpiCompleted",
                     job |-> session[s0].job]
    <3>1. SureOf(x, attempt)
      BY <2>3 DEF SureOf
    <3>2. call' = [call EXCEPT ![s0] = x] \/ UNCHANGED call
      BY <2>2
    <3> HIDE DEF x
    <3> QED BY <3>1, <3>2 DEF AppTypeOK
  <2> QED BY <1>1, <1>2, <1>4, <1>5, <2>2, <2>4, JobGoesOn
<1>12. CASE OnClose(s0) \/ LostRequeued(s0)
  <2>1. /\ UNCHANGED <<mpi_jobs, call>>
        /\ \/ Goto(s0, At("closed"))
           \/ Goto(s0, Requeueing("lost", RunningOn(NodeOf[s0])))
           \/ Goto(s0, Requeueing("mpi_lost", MpiRunningOn(NodeOf[s0])))
    BY <1>12 DEF OnClose, LostRequeued
  <2>2. \A s \in Sessions : session'[s].pc \in {"finalize", "finalized"} => session'[s] = session[s]
    BY <1>4, <1>5, <2>1
  <2> QED BY <1>1, <1>2, <2>1, <2>2, JobGoesOn
<1>13. CASE RequeueLost(s0)
  <2>1. PICK t \in session[s0].todo :
          /\ Requeue(s0, t)
          /\ mpi_jobs' = IF session[s0].pc = "lost" THEN mpi_jobs
                         ELSE [mpi_jobs EXCEPT ![t] = None]
          /\ Goto(s0, Requeueing(session[s0].pc, session[s0].todo \ {t}))
    BY <1>13 DEF RequeueLost
  <2>2. t \in Tasks /\ session[s0].pc \in {"lost", "mpi_lost"}
    BY <1>3, <1>13 DEF RequeueLost
  <2>3. \A q \in Procs : call'[q] # None /\ call'[q].op \in {"complete", "done"} =>
          call'[q] = call[q] \/ SureOf(call'[q], attempt)
    BY <1>3, <2>1, <2>2, OtherCallSure
  <2>4. \A u \in Tasks : mpi_jobs'[u] = mpi_jobs[u] \/ mpi_jobs'[u] = None
    BY <1>3, <2>1
  <2>5. \A s \in Sessions : session'[s].pc \in {"finalize", "finalized"} => session'[s] = session[s]
    BY <1>4, <1>5, <2>1, <2>2
  <2> QED BY <1>1, <1>2, <2>3, <2>4, <2>5, JobGoesOn
<1> QED BY <1>6, <1>7, <1>8, <1>9, <1>10, <1>11, <1>12, <1>13 DEF WsNext

LEMMA JobNext ==
  ASSUME IInv, JobInv, JobsApart', [Next]_vars, TypeOK'
  PROVE  JobInv'
<1> USE DEF IInv, TypeOK, nodeVars, wireVars, taskVars, historyVars, stateVars, workerVars
<1>1. CASE SchedNext /\ UNCHANGED <<workerVars, session>>
  BY <1>1, JobSched
<1>2. CASE \E s \in Sessions : WsNext(s) /\ UNCHANGED <<sched, workerVars>>
  BY <1>2, JobWs
<1>3. CASE MonitorNext /\ UNCHANGED <<sched, session, workerVars>>
  <2>1. UNCHANGED <<link, toServer, toWorker, pending_tasks, attempt, completed_tasks>>
    BY <1>3 DEF MonitorNext, Tick, NextDead, RequeueOne, NextPhase
  <2>2. AllFewer
    BY <1>3, <2>1, WiresKept
  <2>3. CASE UNCHANGED <<mpi_jobs, call>>
    BY <1>3, <2>1, <2>2, <2>3, JobGoesOn
  <2>4. CASE RequeueOne
    <3>1. PICK t \in monitor.todo : Requeue(Monitor, t)
                                    /\ mpi_jobs' \in {mpi_jobs, [mpi_jobs EXCEPT ![t] = None]}
      BY <2>4 DEF RequeueOne
    <3>2. t \in Tasks /\ Monitor \in Procs
      BY DEF MonitorTypeOK, MonitorState, Procs
    <3>3. \A q \in Procs : call'[q] # None /\ call'[q].op \in {"complete", "done"} =>
            call'[q] = call[q] \/ SureOf(call'[q], attempt)
      BY <3>1, <3>2, OtherCallSure
    <3>4. \A u \in Tasks : mpi_jobs'[u] = mpi_jobs[u] \/ mpi_jobs'[u] = None
      BY <3>1, <3>2 DEF AppTypeOK
    <3> QED BY <1>3, <2>1, <2>2, <3>3, <3>4, JobGoesOn
  <2> QED BY <1>3, <2>3, <2>4 DEF MonitorNext, Tick, NextDead, NextPhase
<1>4. CASE /\ \/ \E p \in Procs : ReturnFromCall(p)
              \/ \E t \in Tasks : SubmitTask(t) \/ CancelTask(t)
           /\ UNCHANGED <<wireVars, workerVars, sched, session, monitor>>
  <2>1. AllFewer
    BY <1>4, WiresKept
  <2>2. UNCHANGED <<attempt, mpi_jobs>>
    BY <1>4 DEF ReturnFromCall, ReadRetries, WriteRetries, Reenqueue, EndTask, Push, Done,
                SubmitTask, CancelTask
  <2>3. UNCHANGED pending_tasks \/ sched'.pc \notin {"mpi", "job"}
    <3>1. UNCHANGED pending_tasks \/ ~queue_locked
      BY <1>4 DEF ReturnFromCall, ReadRetries, WriteRetries, Reenqueue, EndTask, Push, Done,
                  SubmitTask, CancelTask
    <3> QED BY <1>4, <3>1 DEF ScanInv
  <2>4. CASE \E p \in Procs : Done(p)
    <3>1. PICK p \in Procs : Done(p)
      BY <2>4
    <3>2. \A i \in 1 .. Len(completed_tasks') : SureOf(completed_tasks'[i], attempt)
      BY <3>1, EntriesSure
    <3>3. /\ UNCHANGED pending_tasks
          /\ \A q \in Procs : call'[q] = call[q] \/ call'[q] = None
      BY <3>1 DEF Done, AppTypeOK
    <3>4. MpiFewer
      BY <2>1, IdsAssumption DEF AllFewer, MpiFewer
    <3>5. Current' = Current /\ sched' = sched /\ sched.rank \in Nat /\ sched.rank >= sched.rank
      BY <1>4, <3>3 DEF Current, SchedTypeOK, SchedState
    <3> QED BY <1>4, <2>2, <3>2, <3>3, <3>4, <3>5, JobKept
  <2>5. ASSUME NEW p \in Procs, Push(p) PROVE JobInv'
    <3>1. /\ UNCHANGED completed_tasks
          /\ \A q \in Procs : call'[q] = call[q] \/ call'[q] = None
      BY <2>5 DEF Push, AppTypeOK
    <3> QED BY <1>4, <2>1, <2>2, <2>3, <3>1, JobGoesOn
  <2>6. ASSUME NEW t \in Tasks, SubmitTask(t) \/ CancelTask(t) PROVE JobInv'
    <3>1. UNCHANGED completed_tasks /\ (UNCHANGED call \/ Enqueue(t, t)) /\ t \in Procs
      BY <2>6 DEF SubmitTask, CancelTask, Procs
    <3>2. \A q \in Procs : call'[q] # None /\ call'[q].op \in {"complete", "done"} =>
            call'[q] = call[q] \/ SureOf(call'[q], attempt)
      BY <3>1, OtherCallSure
    <3> QED BY <1>4, <2>1, <2>2, <2>3, <3>1, <3>2, JobGoesOn
  <2>7. ASSUME NEW p \in Procs, GoesOn(p) PROVE JobInv'
    <3>1. UNCHANGED completed_tasks
      BY <2>7 DEF GoesOn, ReadRetries, WriteRetries, Reenqueue, EndTask
    <3>2. \A q \in Procs : call'[q] # None /\ call'[q].op \in {"complete", "done"} =>
            call'[q] = call[q] \/ SureOf(call'[q], attempt)
      BY <2>7, GoesOnSure
    <3> QED BY <1>4, <2>1, <2>2, <2>3, <3>1, <3>2, JobGoesOn
  <2> QED BY <1>4, <2>4, <2>5, <2>6, <2>7 DEF ReturnFromCall, GoesOn
<1>5. CASE WorkerStep
  <2>1. AllFewer
    BY <1>5, SessionFewer, ProcessFewer, ExecFewer DEF WorkerStep, Delivery
  <2> QED BY <1>5, <2>1, JobGoesOn DEF WorkerStep
<1>6. CASE NetworkStep
  <2>1. CASE \E s \in Sessions : Break(s) /\ UNCHANGED <<stateVars, sched, session, workerVars>>
    <3>1. AllFewer
      BY <2>1, BreakFewer
    <3> QED BY <2>1, <3>1, JobGoesOn
  <2>2. CASE /\ \E s \in Sessions : SendTaskEnds(s)
             /\ UNCHANGED <<stateVars, sched, session, workerVars>>
    <3>1. UNCHANGED <<link, toServer, toWorker, execs>>
      BY <2>2 DEF SendTaskEnds
    <3> QED BY <2>2, <3>1, WiresKept, JobGoesOn
  <2>3. CASE (\E n \in Nodes : Silence(n)) /\ UNCHANGED <<sched, session, workerVars>>
    <3>1. UNCHANGED <<link, toServer, toWorker, execs, pending_tasks, attempt, completed_tasks,
                      mpi_jobs, call>>
      BY <2>3 DEF Silence
    <3> QED BY <2>3, <3>1, WiresKept, JobGoesOn
  <2> QED BY <1>6, <2>1, <2>2, <2>3 DEF NetworkStep
<1>7. CASE UNCHANGED vars
  <2>1. UNCHANGED <<link, toServer, toWorker, execs, pending_tasks, attempt, completed_tasks,
                    mpi_jobs, call, session, sched>>
    BY <1>7 DEF vars
  <2> QED BY <2>1, WiresKept, JobGoesOn
<1>8. CASE ServerStep
  BY <1>1, <1>2, <1>3, <1>4, <1>8 DEF ServerStep
<1>9. CASE ClientStep
  <2>1. UNCHANGED wireVars
    BY <1>9 DEF ClientStep, SubmitTask, CancelTask
  <2> QED BY <1>4, <1>9, <2>1 DEF ClientStep
<1> QED BY <1>5, <1>6, <1>7, <1>8, <1>9 DEF Next

LEMMA JobInit ==
  ASSUME Init
  PROVE  JobInv
<1>1. /\ \A s \in Sessions : /\ link[s] = "idle" /\ toServer[s] = <<>> /\ toWorker[s] = <<>>
                             /\ session[s].pc = "new"
      /\ execs = {} /\ completed_tasks = <<>> /\ sched.pc = "idle"
      /\ \A t \in Tasks : mpi_jobs[t] = None
      /\ \A p \in Procs : call[p] = None
  BY DEF Init, WireInit, AppInit, WsInit, WorkerInit, SchedInit, SchedIdle, At
<1>2. ASSUME NEW s \in Sessions, NEW t, NEW ranks, NEW atts
      PROVE  ~Outstanding(s, t, ranks, atts) /\ Single(s, t, ranks)
  BY <1>1, NothingHas DEF Outstanding, Sending, Executing, Answering, Single
<1>3. JobsTally /\ RanksAnswerOnce /\ FinalizersAreSure /\ CallsAreFull /\ SlotsToSend
  BY <1>1, IdsAssumption DEF JobsTally, RanksAnswerOnce, FinalizersAreSure, CallsAreFull, SlotsToSend
<1>4. EntriesAreFull
  BY <1>1 DEF EntriesAreFull
<1> QED BY <1>2, <1>3, <1>4 DEF JobInv, AnswersAreCurrent

(* An answer of each rank is as many answers as there are ranks. *)
LEMMA FullCounts ==
  ASSUME NEW t, NEW att, NEW job, Full(t, job, att)
  PROVE  /\ RanksOk(job) + RanksFailed(job) = Np[t]
         /\ \A r \in DOMAIN job.results : {job.results[r], job.errors[r]} = {0, att}
<1> DEFINE R == Ranks(Np[t])
           A == {r \in R : job.results[r] # 0}
           B == {r \in R : job.errors[r] # 0}
<1>1. /\ Np[t] \in Nat
      /\ job \in [results : [R -> Nat], errors : [R -> Nat]]
      /\ \A r \in R : /\ {job.results[r], job.errors[r]} \subseteq {0, att}
                      /\ 0 \in {job.results[r], job.errors[r]}
  BY IdsAssumption DEF Full, Tally, MpiJob
<1>2. DOMAIN job.results = R /\ DOMAIN job.errors = R
  BY <1>1
<1>3. \A r \in R : job.results[r] # 0 \/ job.errors[r] # 0
  BY <1>2 DEF Full, IsComplete
<1>4. R = A \cup B /\ A \cap B = {}
  BY <1>1, <1>3
<1>5. IsFiniteSet(R) /\ Cardinality(R) = Np[t]
  <2>1. 0 \in Int /\ Np[t] - 1 \in Int
    BY <1>1
  <2>2. /\ IsFiniteSet(0 .. (Np[t] - 1))
        /\ Cardinality(0 .. (Np[t] - 1)) =
             IF 0 > Np[t] - 1 THEN 0 ELSE (Np[t] - 1) - 0 + 1
    BY <2>1, FS_Interval
  <2> QED BY <1>1, <2>2 DEF Ranks
<1>6. IsFiniteSet(A) /\ IsFiniteSet(B)
  <2>1. A \subseteq R /\ B \subseteq R
    OBVIOUS
  <2> HIDE DEF A, B, R
  <2> QED BY <1>5, <2>1, FS_Subset
<1>7. Cardinality(A) \in Nat /\ Cardinality(B) \in Nat
  BY <1>6, FS_CardinalityType
<1>8. Cardinality(A \cup B) = Cardinality(A) + Cardinality(B) - Cardinality(A \cap B)
  BY <1>6, FS_Union
<1>9. Cardinality({}) = 0
  BY FS_EmptySet
<1>10. RanksOk(job) = Cardinality(A) /\ RanksFailed(job) = Cardinality(B)
  BY <1>2 DEF RanksOk, RanksFailed
<1>11. \A r \in R : {job.results[r], job.errors[r]} = {0, att}
  BY <1>1, <1>3
<1> HIDE DEF A, B, R
<1>12. Cardinality(A) + Cardinality(B) = Np[t]
  <2>1. Cardinality(A \cup B) = Np[t]
    BY <1>4, <1>5, Zenon
  <2>2. Cardinality(A \cap B) = 0
    BY <1>4, <1>9, Zenon
  <2> QED BY <1>1, <1>7, <1>8, <2>1, <2>2
<1> QED BY <1>2, <1>10, <1>11, <1>12

(* When a job is completed, every rank has answered, once, and to the      *)
(* dispatch that is being completed: this is so, whatever fails, whoever   *)
(* requeues the job and however often it is dispatched, as long as nothing *)
(* of a dispatch of the job is left when the next begins: no slot, no      *)
(* execution, no answer, no entry of mpi_jobs and no handler that is about *)
(* to take it.  The code does not see to that: the job id is the task id.  *)
THEOREM JobsHold == Spec /\ []JobsApart => []JobsAccounted
<1>1. Init => JobInv
  BY JobInit
<1>2. IInv /\ IInv' /\ JobInv /\ JobsApart' /\ [Next]_vars => JobInv'
  BY JobNext DEF IInv
<1>3. JobInv => JobsAccounted
  <2>1. ASSUME JobInv, NEW i \in 1 .. Len(completed_tasks),
               completed_tasks[i].status = "MpiCompleted"
        PROVE  /\ RanksOk(completed_tasks[i].job) + RanksFailed(completed_tasks[i].job)
                    = Np[completed_tasks[i].task]
               /\ \A r \in DOMAIN completed_tasks[i].job.results :
                    {completed_tasks[i].job.results[r], completed_tasks[i].job.errors[r]}
                      = {0, attempt[completed_tasks[i].task]}
    <3>1. Full(completed_tasks[i].task, completed_tasks[i].job, attempt[completed_tasks[i].task])
      BY <2>1 DEF JobInv, EntriesAreFull
    <3>2. PICK t, job, a : /\ t = completed_tasks[i].task
                          /\ job = completed_tasks[i].job
                          /\ a = attempt[completed_tasks[i].task]
      OBVIOUS
    <3>3. Full(t, job, a)
      BY <3>1, <3>2
    <3>4. RanksOk(job) + RanksFailed(job) = Np[t]
      BY <3>3, FullCounts
    <3>5. \A r \in DOMAIN job.results : {job.results[r], job.errors[r]} = {0, a}
      BY <3>3, FullCounts
    <3> QED BY <3>2, <3>4, <3>5, Zenon
  <2> QED BY <2>1, Zenon DEF JobsAccounted
<1> QED BY <1>1, <1>2, <1>3, InvariantHolds, PTL DEF Spec
=============================================================================
