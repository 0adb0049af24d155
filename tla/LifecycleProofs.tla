-------------------------- MODULE LifecycleProofs ---------------------------
(***************************************************************************)
(* While each task is in one place, Cluster implements TaskLifecycle: each *)
(* kind of step moves one task from a stage to the next, forgets ended     *)
(* tasks, or is not seen.  And what a client was told about the end of its *)
(* task stays true.                                                        *)
(***************************************************************************)
EXTENDS Client, PlaceProofs

LEMMA SameEntries ==
  ASSUME UNCHANGED completed_tasks
  PROVE  /\ \A t, S : Entry(t, S)' <=> Entry(t, S)
         /\ \A t : Completed(t)' <=> Completed(t)
BY DEF Entry, Completed

(* A call of one of these kinds is not about a task that is still listed.  *)
Firm(c) == c.op \in {"enqueue", "push", "complete", "done"}

LEMMA FirmHolds ==
  ASSUME NEW p, NEW t, call[p] # None, call[p].task = t, Firm(call[p])
  PROVE  Holds(p, t)
BY DEF Firm, Holds, Pending

LEMMA FirmHoldsNext ==
  ASSUME NEW p, NEW t, call'[p] # None, call'[p].task = t, Firm(call'[p])
  PROVE  Holds(p, t)'
BY DEF Firm, Holds, Pending

(* The calls of p on t are the only ones that can be seen in its stage. *)
ByCall(p, t, S) ==
  /\ call[p] # None /\ call[p].task = t
  /\ call[p].op \in {"complete", "done"} /\ call[p].status \in S

LEMMA EndingParts ==
  ASSUME NEW t, NEW S
  PROVE  Ending(t, S) <=> (\E p \in Procs : ByCall(p, t, S)) \/ Entry(t, S)
BY DEF Ending, ByCall, Entry

(* When the holders are the same, with the same calls, then so is what is  *)
(* seen of them.                                                           *)
LEMMA SeenSame ==
  ASSUME HeldSame, NEW t \in Tasks
  PROVE  /\ BeingQueued(t)' <=> BeingQueued(t)
         /\ BeingListed(t)' <=> BeingListed(t)
         /\ \A S : (\E p \in Procs : ByCall(p, t, S)') <=> (\E p \in Procs : ByCall(p, t, S))
<1>1. ASSUME NEW p \in Procs, call[p] # None, call[p].task = t, Firm(call[p])
      PROVE  call'[p] = call[p]
  BY <1>1, FirmHolds DEF HeldSame
<1>2. ASSUME NEW p \in Procs, call'[p] # None, call'[p].task = t, Firm(call'[p])
      PROVE  call'[p] = call[p]
  BY <1>2, FirmHoldsNext DEF HeldSame
<1>3. BeingQueued(t)' <=> BeingQueued(t)
  BY <1>1, <1>2 DEF BeingQueued, Firm
<1>4. BeingListed(t)' <=> BeingListed(t)
  BY <1>1, <1>2 DEF BeingListed, InCall, Firm
<1>5. \A S : (\E p \in Procs : ByCall(p, t, S)') <=> (\E p \in Procs : ByCall(p, t, S))
  BY <1>1, <1>2 DEF ByCall, Firm
<1> QED BY <1>3, <1>4, <1>5

LEMMA SeenKept ==
  ASSUME HeldSame, UNCHANGED completed_tasks, NEW t \in Tasks
  PROVE  /\ BeingQueued(t)' <=> BeingQueued(t)
         /\ \A S : Ending(t, S)' <=> Ending(t, S)
<1>1. \A S : Ending(t, S)' <=> (\E p \in Procs : ByCall(p, t, S)') \/ Entry(t, S)'
  BY DEF Ending, ByCall, Entry
<1>2. \A S : Ending(t, S) <=> (\E p \in Procs : ByCall(p, t, S)) \/ Entry(t, S)
  BY EndingParts
<1>3. \A S : Entry(t, S)' <=> Entry(t, S)
  BY SameEntries
<1>4. \A S : (\E p \in Procs : ByCall(p, t, S)') <=> (\E p \in Procs : ByCall(p, t, S))
  BY SeenSame
<1>5. BeingQueued(t)' <=> BeingQueued(t)
  BY SeenSame
<1> QED BY <1>1, <1>2, <1>3, <1>4, <1>5

LEMMA DoneTyped ==
  ASSUME AppTypeOK
  PROVE  \A i \in 1 .. Len(completed_tasks) :
           completed_tasks[i].task \in Tasks /\ completed_tasks[i].status \in FinalStatus
<1>1. \A i \in 1 .. Len(completed_tasks) : completed_tasks[i] \in DoneTask
  BY DEF AppTypeOK
<1> QED BY <1>1 DEF DoneTask

(* When one process changes its call, and is on another task, likewise. *)
LEMMA SeenOthers ==
  ASSUME NEW p \in Procs, NEW t, OthersSame(p),
         call[p] = None \/ call[p].task # t,
         call'[p] = None \/ call'[p].task # t
  PROVE  /\ BeingQueued(t)' <=> BeingQueued(t)
         /\ BeingListed(t)' <=> BeingListed(t)
         /\ \A S : (\E q \in Procs : ByCall(q, t, S)') <=> (\E q \in Procs : ByCall(q, t, S))
<1>1. \A q \in Procs : q # p => call'[q] = call[q]
  BY DEF OthersSame
<1>2. BeingQueued(t)' <=> BeingQueued(t)
  BY <1>1 DEF BeingQueued
<1>3. BeingListed(t)' <=> BeingListed(t)
  BY <1>1 DEF BeingListed, InCall
<1>4. \A S : (\E q \in Procs : ByCall(q, t, S)') <=> (\E q \in Procs : ByCall(q, t, S))
  BY <1>1 DEF ByCall
<1> QED BY <1>2, <1>3, <1>4

(* When no other process has the task, p alone is seen. *)
LEMMA SeenAlone ==
  ASSUME NEW p \in Procs, NEW t, \A q \in Procs : q # p => ~Holds(q, t)
  PROVE  /\ BeingQueued(t) <=>
              call[p] # None /\ call[p].task = t /\ call[p].op \in {"enqueue", "push"}
         /\ BeingListed(t) <=> InCall(p, "done") /\ call[p].task = t
         /\ \A S : (\E q \in Procs : ByCall(q, t, S)) <=> ByCall(p, t, S)
<1>1. ASSUME NEW q \in Procs, call[q] # None, call[q].task = t, Firm(call[q]) PROVE q = p
  BY <1>1, FirmHolds
<1>2. BeingQueued(t) <=>
        call[p] # None /\ call[p].task = t /\ call[p].op \in {"enqueue", "push"}
  BY <1>1 DEF BeingQueued, Firm
<1>3. BeingListed(t) <=> InCall(p, "done") /\ call[p].task = t
  BY <1>1 DEF BeingListed, InCall, Firm
<1>4. \A S : (\E q \in Procs : ByCall(q, t, S)) <=> ByCall(p, t, S)
  BY <1>1 DEF ByCall, Firm
<1> QED BY <1>2, <1>3, <1>4

LEMMA SeenAloneNext ==
  ASSUME NEW p \in Procs, NEW t, \A q \in Procs : q # p => ~Holds(q, t)'
  PROVE  /\ BeingQueued(t)' <=>
              call'[p] # None /\ call'[p].task = t /\ call'[p].op \in {"enqueue", "push"}
         /\ BeingListed(t)' <=> call'[p] # None /\ call'[p].op = "done" /\ call'[p].task = t
         /\ \A S : (\E q \in Procs : ByCall(q, t, S)') <=> ByCall(p, t, S)'
<1>1. ASSUME NEW q \in Procs, call'[q] # None, call'[q].task = t, Firm(call'[q]) PROVE q = p
  BY <1>1, FirmHoldsNext
<1>2. BeingQueued(t)' <=>
        call'[p] # None /\ call'[p].task = t /\ call'[p].op \in {"enqueue", "push"}
  BY <1>1 DEF BeingQueued, Firm
<1>3. BeingListed(t)' <=> call'[p] # None /\ call'[p].op = "done" /\ call'[p].task = t
  BY <1>1 DEF BeingListed, InCall, Firm
<1>4. \A S : (\E q \in Procs : ByCall(q, t, S)') <=> ByCall(p, t, S)'
  BY <1>1 DEF ByCall, Firm
<1> QED BY <1>2, <1>3, <1>4

-----------------------------------------------------------------------------
(* The steps of a call *)

(* Where a call goes on from, where to, and what it writes about its task. *)
CallStep(p, t, from, to) ==
  /\ call[p] # None /\ call[p].task = t /\ call[p].op = from
  /\ call'[p] # None /\ call'[p].task = t /\ call'[p].op = to

LEMMA CallKinds ==
  ASSUME AppTypeOK, NEW p \in Procs, GoesOn(p)
  PROVE  \E t \in Tasks :
           /\ \A u \in Tasks : u # t => /\ running_tasks'[u] = running_tasks[u]
                                        /\ retry_counts'[u] = retry_counts[u]
           /\ \/ /\ CallStep(p, t, "requeue", "retry")
                 /\ UNCHANGED <<running_tasks, retry_counts>>
              \/ /\ CallStep(p, t, "requeue", "complete")
                 /\ call'[p].status = "Failed"
                 /\ running_tasks'[t] = None
                 /\ UNCHANGED retry_counts
              \/ /\ CallStep(p, t, "retry", "enqueue")
                 /\ running_tasks'[t] = None
                 /\ retry_counts'[t] # None
              \/ /\ CallStep(p, t, "enqueue", "push")
                 /\ UNCHANGED running_tasks
                 /\ retry_counts'[t] # None
              \/ /\ CallStep(p, t, "complete", "done")
                 /\ call[p] \in Finishing /\ call'[p].status = call[p].status
                 /\ running_tasks'[t] = None
                 /\ retry_counts'[t] = None
<1>1. call[p] # None
  BY DEF GoesOn, ReadRetries, WriteRetries, Reenqueue, EndTask, InCall
<1>2. PICK t \in Tasks : t = call[p].task
  BY <1>1, CallFields
<1>3. ASSUME NEW c \in Calls, call' = [call EXCEPT ![p] = c] PROVE call'[p] = c /\ c # None
  BY <1>3, NoneAssumption DEF AppTypeOK
<1>4. CASE ReadRetries(p)
  <2>1. CASE /\ running_tasks' = [running_tasks EXCEPT ![t] = None]
             /\ CompleteTask(p, t, "Failed", None)
    <3> DEFINE c == [op |-> "complete", task |-> t, status |-> "Failed", job |-> None]
    <3>1. c \in Calls /\ c.task = t /\ c.op = "complete" /\ c.status = "Failed"
      BY DEF Calls, Finishing, FinalStatus
    <3>2. call' = [call EXCEPT ![p] = c]
      BY <2>1 DEF CompleteTask
    <3> HIDE DEF c
    <3>3. call'[p] = c /\ c # None
      BY <1>3, <3>1, <3>2
    <3>4. running_tasks'[t] = None
          /\ \A u \in Tasks : u # t => running_tasks'[u] = running_tasks[u]
      BY <2>1 DEF AppTypeOK
    <3> QED BY <1>1, <1>2, <1>4, <3>1, <3>3, <3>4 DEF ReadRetries, InCall, CallStep
  <2>2. CASE /\ retry_counts[t] \notin {None, 0}
             /\ call' = [call EXCEPT ![p] =
                           [op |-> "retry", task |-> t, left |-> retry_counts[t] - 1]]
             /\ UNCHANGED running_tasks
    <3> DEFINE c == [op |-> "retry", task |-> t, left |-> retry_counts[t] - 1]
    <3>1. retry_counts[t] - 1 \in 0 .. MaxRetries
      BY <2>2, LimitsAssumption DEF AppTypeOK
    <3>2. c \in Calls /\ c.task = t /\ c.op = "retry"
      BY <3>1 DEF Calls, Retrying
    <3>3. call' = [call EXCEPT ![p] = c]
      BY <2>2
    <3> HIDE DEF c
    <3>4. call'[p] = c /\ c # None
      BY <1>3, <3>2, <3>3
    <3> QED BY <1>1, <1>2, <1>4, <2>2, <3>2, <3>4 DEF ReadRetries, InCall, CallStep
  <2> QED BY <1>2, <1>4, <2>1, <2>2 DEF ReadRetries
<1>5. CASE WriteRetries(p)
  <2> DEFINE c == [op |-> "enqueue", task |-> t]
  <2>1. c \in Calls /\ c.task = t /\ c.op = "enqueue"
    BY DEF Calls, Queueing
  <2>2. call' = [call EXCEPT ![p] = c]
    BY <1>2, <1>5 DEF WriteRetries
  <2> HIDE DEF c
  <2>3. call'[p] = c /\ c # None
    BY <1>3, <2>1, <2>2
  <2>4. call[p].left \in 0 .. MaxRetries
    BY <1>1, <1>5, CallFields DEF WriteRetries, InCall
  <2>5. call[p].left # None
    BY <2>4, NoneAssumption, LimitsAssumption
  <2>6. /\ running_tasks'[t] = None /\ retry_counts'[t] = call[p].left
        /\ \A u \in Tasks : u # t => /\ running_tasks'[u] = running_tasks[u]
                                     /\ retry_counts'[u] = retry_counts[u]
    BY <1>2, <1>5 DEF WriteRetries, AppTypeOK
  <2> QED BY <1>1, <1>2, <1>5, <2>1, <2>3, <2>5, <2>6 DEF WriteRetries, InCall, CallStep
<1>6. CASE Reenqueue(p)
  <2> DEFINE c == [op |-> "push", task |-> t]
  <2>1. c \in Calls /\ c.task = t /\ c.op = "push"
    BY DEF Calls, Queueing
  <2>2. call' = [call EXCEPT ![p] = c]
    BY <1>2, <1>6 DEF Reenqueue, Enqueue
  <2> HIDE DEF c
  <2>3. call'[p] = c /\ c # None
    BY <1>3, <2>1, <2>2
  <2>4. /\ retry_counts'[t] = MaxRetries /\ UNCHANGED running_tasks
        /\ \A u \in Tasks : u # t => retry_counts'[u] = retry_counts[u]
    BY <1>2, <1>6 DEF Reenqueue, Enqueue, AppTypeOK
  <2>5. retry_counts'[t] # None
    BY <2>4, NoneAssumption, LimitsAssumption
  <2> QED BY <1>1, <1>2, <1>6, <2>1, <2>3, <2>4, <2>5 DEF Reenqueue, InCall, CallStep
<1>7. CASE EndTask(p)
  <2>1. call[p] \in Finishing /\ call[p].op = "complete"
    BY <1>1, <1>7, CallFields DEF EndTask, InCall
  <2>2. call'[p] = [call[p] EXCEPT !.op = "done"]
    BY <1>7 DEF EndTask, AppTypeOK
  <2>3. /\ call'[p] \in Finishing /\ call'[p].task = t /\ call'[p].op = "done"
        /\ call'[p].status = call[p].status
    BY <1>2, <2>1, <2>2 DEF Finishing
  <2>4. call'[p] # None
    BY <2>3, NoneAssumption DEF Calls
  <2>5. /\ running_tasks'[t] = None /\ retry_counts'[t] = None
        /\ \A u \in Tasks : u # t => /\ running_tasks'[u] = running_tasks[u]
                                     /\ retry_counts'[u] = retry_counts[u]
    BY <1>2, <1>7 DEF EndTask, AppTypeOK
  <2> QED BY <1>1, <1>2, <2>1, <2>3, <2>4, <2>5 DEF CallStep
<1> QED BY <1>4, <1>5, <1>6, <1>7 DEF GoesOn

(* While lists are fresh, who goes on in a call has the task, or the task  *)
(* is running; it is nowhere else.                                         *)
LEMMA InCallAlone ==
  ASSUME IInv, UntouchedInv, PlaceInv, SnapshotsFresh,
         NEW p \in Procs, NEW t \in Tasks, call[p] # None, call[p].task = t
  PROVE  /\ submitted_at[t] # 0 /\ t \notin gone
         /\ ~Queued(t) /\ ~Completed(t)
         /\ \A q \in Procs : q # p => ~Holds(q, t)
         /\ running_tasks[t] # None => t \in Pending(p)
<1>1. CASE t \in Pending(p)
  <2>1. t \in Listed
    BY <1>1 DEF Listed
  <2>2. running_tasks[t] # None
    BY <2>1 DEF SnapshotsFresh
  <2> QED BY <1>1, <2>1, <2>2 DEF UntouchedInv, PlaceInv, Elsewhere, Held
<1>2. CASE Holds(p, t)
  <2>1. Held(t)
    BY <1>2 DEF Held
  <2>2. \A q \in Procs : q # p => ~Holds(q, t)
    BY <1>2 DEF PlaceInv
  <2> QED BY <2>1, <2>2 DEF UntouchedInv, PlaceInv, Elsewhere
<1> QED BY <1>1, <1>2 DEF Holds

-----------------------------------------------------------------------------
(* An entry in retry_counts, and the end of a task *)

LEMMA EndNext ==
  ASSUME IInv, UntouchedInv, PlaceInv, SnapshotsFresh, EndInv, [Next]_vars
  PROVE  EndInv'
<1> USE DEF IInv, TypeOK
<1> DEFINE Waits(t) == Queued(t) \/ BeingQueued(t)
           Ends(t) == Completed(t) \/ BeingListed(t)
           Both(t) == /\ Waits(t) => retry_counts[t] # None
                      /\ Ends(t) => retry_counts[t] = None
<1>1. \A t \in Tasks : Both(t)
  BY DEF EndInv
<1>2. ASSUME \A t \in Tasks : Both(t)' PROVE EndInv'
  BY <1>2 DEF EndInv
<1>3. ASSUME NEW u \in Tasks, retry_counts'[u] = retry_counts[u],
             Waits(u)' => Waits(u), Ends(u)' => Ends(u)
      PROVE  Both(u)'
  BY <1>1, <1>3
<1>4. CASE Still
  <2>1. UNCHANGED <<retry_counts, completed_tasks>> /\ HeldSame
        /\ \A u \in Tasks : Queued(u)' <=> Queued(u)
    BY <1>4 DEF Still, QueueSame
  <2>2. ASSUME NEW u \in Tasks PROVE Both(u)'
    <3>1. /\ BeingQueued(u)' <=> BeingQueued(u)
          /\ BeingListed(u)' <=> BeingListed(u)
      BY <2>1, SeenSame
    <3> QED BY <1>3, <2>1, <3>1, SameEntries
  <2> QED BY <1>2, <2>2
<1>5. ASSUME NEW t \in Tasks, TaskRecorded(t) PROVE EndInv'
  <2>1. UNCHANGED <<retry_counts, completed_tasks>> /\ HeldSame
        /\ \A u \in Tasks : Queued(u)' => Queued(u)
    BY <1>5, RecordEffect
  <2>2. ASSUME NEW u \in Tasks PROVE Both(u)'
    <3>1. /\ BeingQueued(u)' <=> BeingQueued(u)
          /\ BeingListed(u)' <=> BeingListed(u)
      BY <2>1, SeenSame
    <3> QED BY <1>3, <2>1, <3>1, SameEntries
  <2> QED BY <1>2, <2>2
<1>6. ASSUME NEW p \in Procs, NEW t \in Tasks, Taken(p, t) PROVE EndInv'
  <2>1. /\ UNCHANGED <<retry_counts, completed_tasks>> /\ call[p] = None /\ OthersSame(p)
        /\ \A u \in Tasks : Queued(u)' <=> Queued(u)
    BY <1>6 DEF Taken, QueueSame
  <2>2. call'[p].task = t /\ call'[p].op \in {"requeue", "complete"}
    BY <1>6, CallIs DEF Taken, Takes
  <2>3. ASSUME NEW u \in Tasks PROVE Both(u)'
    <3>1. BeingQueued(u)' => BeingQueued(u)
      BY <2>1, <2>2 DEF BeingQueued, OthersSame
    <3>2. BeingListed(u)' => BeingListed(u)
      BY <2>1, <2>2 DEF BeingListed, InCall, OthersSame
    <3> QED BY <1>3, <2>1, <3>1, <3>2, SameEntries
  <2> QED BY <1>2, <2>3
<1>7. ASSUME NEW p \in Procs, GoesOn(p), UNCHANGED <<sched, session>> PROVE EndInv'
  <2>1. /\ UNCHANGED completed_tasks /\ OthersSame(p)
        /\ \A u \in Tasks : Queued(u)' <=> Queued(u)
    BY <1>7, GoesOnMoves DEF QueueSame
  <2>2. PICK t \in Tasks :
          /\ \A u \in Tasks : u # t => retry_counts'[u] = retry_counts[u]
          /\ \/ CallStep(p, t, "requeue", "retry") /\ UNCHANGED retry_counts
             \/ CallStep(p, t, "requeue", "complete") /\ UNCHANGED retry_counts
             \/ CallStep(p, t, "retry", "enqueue") /\ retry_counts'[t] # None
             \/ CallStep(p, t, "enqueue", "push") /\ retry_counts'[t] # None
             \/ CallStep(p, t, "complete", "done") /\ retry_counts'[t] = None
    BY <1>7, CallKinds
  <2>3. call[p] # None /\ call[p].task = t /\ call'[p] # None /\ call'[p].task = t
    BY <2>2 DEF CallStep
  <2>4. ASSUME NEW u \in Tasks, u # t PROVE Both(u)'
    <3>1. /\ BeingQueued(u)' <=> BeingQueued(u)
          /\ BeingListed(u)' <=> BeingListed(u)
      BY <2>1, <2>3, <2>4, SeenOthers
    <3> QED BY <1>3, <2>1, <2>2, <2>4, <3>1, SameEntries
  <2>5. /\ ~Queued(t) /\ ~Completed(t)
        /\ \A q \in Procs : q # p => ~Holds(q, t) /\ ~Holds(q, t)'
    BY <2>1, <2>3, InCallAlone DEF OthersSame
  <2>6. ~Queued(t)' /\ ~Completed(t)'
    BY <2>1, <2>5, SameEntries
  <2>7. /\ BeingQueued(t)' <=> call'[p].op \in {"enqueue", "push"}
        /\ BeingListed(t)' <=> call'[p].op = "done"
    BY <2>3, <2>5, SeenAloneNext
  <2>8. Both(t)'
    BY <2>2, <2>6, <2>7 DEF CallStep
  <2> QED BY <1>2, <2>4, <2>8
<1>8. ASSUME NEW p \in Procs, Push(p), UNCHANGED <<sched, session>> PROVE EndInv'
  <2>1. PICK t \in Tasks : t = call[p].task
    BY <1>8, PushEffect
  <2>2. /\ call[p] # None /\ call'[p] = None /\ OthersSame(p)
        /\ \A u \in Tasks : u # t => (Queued(u)' <=> Queued(u))
        /\ UNCHANGED <<completed_tasks, retry_counts>>
    BY <1>8, <2>1, PushEffect
  <2>3. call[p].op = "push"
    BY <1>8 DEF Push, InCall
  <2>4. BeingQueued(t)
    BY <2>1, <2>2, <2>3 DEF BeingQueued
  <2>5. ASSUME NEW u \in Tasks PROVE Both(u)'
    <3>1. BeingQueued(u)' => BeingQueued(u)
      BY <2>2 DEF BeingQueued, OthersSame
    <3>2. BeingListed(u)' => BeingListed(u)
      BY <2>2 DEF BeingListed, InCall, OthersSame
    <3> QED BY <1>3, <2>2, <2>4, <3>1, <3>2, SameEntries
  <2> QED BY <1>2, <2>5
<1>9. ASSUME NEW p \in Procs, Done(p), UNCHANGED <<sched, session>> PROVE EndInv'
  <2>1. /\ call'[p] = None /\ OthersSame(p) /\ UNCHANGED retry_counts
        /\ \A u \in Tasks : Queued(u)' <=> Queued(u)
        /\ \A u : Completed(u)' => Completed(u) \/ u = call[p].task
    BY <1>9, DoneEffect DEF QueueSame
  <2>2. BeingListed(call[p].task)
    BY <1>9 DEF Done, BeingListed
  <2>3. ASSUME NEW u \in Tasks PROVE Both(u)'
    <3>1. BeingQueued(u)' => BeingQueued(u)
      BY <2>1 DEF BeingQueued, OthersSame
    <3>2. BeingListed(u)' => BeingListed(u)
      BY <2>1 DEF BeingListed, InCall, OthersSame
    <3> QED BY <1>3, <2>1, <2>2, <3>1, <3>2
  <2> QED BY <1>2, <2>3
<1>10. ASSUME NEW t \in Tasks, SubmitTask(t), UNCHANGED <<sched, session>> PROVE EndInv'
  <2>1. /\ t \in Procs /\ submitted_at[t] = 0
        /\ \A u \in Tasks : u # t => retry_counts'[u] = retry_counts[u]
        /\ retry_counts'[t] = MaxRetries
        /\ call'[t].op = "push" /\ (\A u : Holds(t, u)' <=> u = t)
        /\ OthersSame(t)
        /\ UNCHANGED completed_tasks
        /\ \A u \in Tasks : Queued(u)' <=> Queued(u)
    BY <1>10, SubmitEffect DEF QueueSame
  <2>2. call'[t] # None /\ call'[t].task = t /\ call[t] = None
    BY <1>10, <2>1 DEF Holds, HandlerInv
  <2>3. ASSUME NEW u \in Tasks, u # t PROVE Both(u)'
    <3>1. /\ BeingQueued(u)' <=> BeingQueued(u)
          /\ BeingListed(u)' <=> BeingListed(u)
      BY <2>1, <2>2, <2>3, SeenOthers
    <3> QED BY <1>3, <2>1, <2>3, <3>1, SameEntries
  <2>4. ~Completed(t)' /\ \A q \in Procs : ~Holds(q, t)
    BY <2>1, SameEntries DEF UntouchedInv, Elsewhere, Held
  <2>5. ~BeingListed(t)'
    <3>1. \A q \in Procs : q # t => ~Holds(q, t)'
      BY <2>1, <2>4 DEF OthersSame
    <3> QED BY <2>1, <3>1, SeenAloneNext
  <2>6. Both(t)'
    BY <2>1, <2>4, <2>5, NoneAssumption, LimitsAssumption
  <2> QED BY <1>2, <2>3, <2>6
<1>11. ASSUME NEW t \in Tasks, CancelTask(t), UNCHANGED <<sched, session>> PROVE EndInv'
  <2>1. HeldSame /\ UNCHANGED <<completed_tasks, retry_counts>>
        /\ \A u \in Tasks : Queued(u)' => Queued(u)
    BY <1>11, CancelEffect
  <2>2. ASSUME NEW u \in Tasks PROVE Both(u)'
    <3>1. /\ BeingQueued(u)' <=> BeingQueued(u)
          /\ BeingListed(u)' <=> BeingListed(u)
      BY <2>1, SeenSame
    <3> QED BY <1>3, <2>1, <3>1, SameEntries
  <2> QED BY <1>2, <2>2
<1> HIDE DEF Both
<1> QED BY <1>4, <1>5, <1>6, <1>7, <1>8, <1>9, <1>10, <1>11, NextKinds

-----------------------------------------------------------------------------
(* Stages *)

Successful == {"Completed", "MpiCompleted"}

(* The stage of a task that the server has: nothing else matters to it. *)
LEMMA LiveStage ==
  ASSUME NEW t, submitted_at[t] # 0, t \notin gone, Places(t) = 1
  PROVE  /\ running_tasks[t] # None => Stage(t) = "running"
         /\ running_tasks[t] = None /\ (Queued(t) \/ BeingQueued(t)) => Stage(t) = "queued"
         /\ running_tasks[t] = None /\ ~(Queued(t) \/ BeingQueued(t)) =>
              /\ Ending(t, Successful) => Stage(t) = "completed"
              /\ ~Ending(t, Successful) /\ Ending(t, {"Failed"}) => Stage(t) = "failed"
              /\ ~Ending(t, Successful) /\ ~Ending(t, {"Failed"}) => Stage(t) = "running"
BY DEF Stage, Successful

LEMMA LiveStageNext ==
  ASSUME NEW t, submitted_at'[t] # 0, t \notin gone', Places(t)' = 1
  PROVE  /\ running_tasks'[t] # None => Stage(t)' = "running"
         /\ running_tasks'[t] = None /\ (Queued(t)' \/ BeingQueued(t)') => Stage(t)' = "queued"
         /\ running_tasks'[t] = None /\ ~(Queued(t)' \/ BeingQueued(t)') =>
              /\ Ending(t, Successful)' => Stage(t)' = "completed"
              /\ ~Ending(t, Successful)' /\ Ending(t, {"Failed"})' => Stage(t)' = "failed"
              /\ ~Ending(t, Successful)' /\ ~Ending(t, {"Failed"})' => Stage(t)' = "running"
BY DEF Stage, Successful

LEMMA GoneStage ==
  ASSUME NEW t, submitted_at[t] # 0, t \in gone, Places(t) = 1
  PROVE  Stage(t) = IF retry_counts[t] # None THEN "cancelled" ELSE "evicted"
BY DEF Stage

LEMMA GoneStageNext ==
  ASSUME NEW t, submitted_at'[t] # 0, t \in gone', Places(t)' = 1
  PROVE  Stage(t)' = IF retry_counts'[t] # None THEN "cancelled" ELSE "evicted"
BY DEF Stage

LEMMA NewStage ==
  ASSUME NEW t, submitted_at[t] = 0
  PROVE  Stage(t) = "new"
BY DEF Stage

(* A step that is not seen in what the stage is computed from. *)
LEMMA StageKept ==
  ASSUME SinglePlace, SinglePlace', NEW t \in Tasks,
         submitted_at'[t] = submitted_at[t],
         t \in gone' <=> t \in gone,
         t \in gone => retry_counts'[t] = retry_counts[t],
         t \notin gone => /\ running_tasks'[t] = None <=> running_tasks[t] = None
                          /\ (Queued(t)' \/ BeingQueued(t)') <=> (Queued(t) \/ BeingQueued(t))
                          /\ \A S : Ending(t, S)' <=> Ending(t, S)
  PROVE  Stage(t)' = Stage(t)
<1>1. CASE submitted_at[t] = 0
  BY <1>1 DEF Stage
<1>2. CASE submitted_at[t] # 0
  <2>1. Places(t) = 1 /\ Places(t)' = 1
    BY <1>2 DEF SinglePlace
  <2>2. CASE t \in gone
    BY <1>2, <2>1, <2>2, GoneStage, GoneStageNext
  <2>3. CASE t \notin gone
    BY <1>2, <2>1, <2>3, LiveStage, LiveStageNext
  <2> QED BY <2>2, <2>3
<1> QED BY <1>1, <1>2

(* The stage of a task in hand, by what the call does next. *)
HandStage(t, c) ==
  IF c.op \in {"enqueue", "push"} THEN "queued"
  ELSE IF c.op \notin {"complete", "done"} THEN "running"
  ELSE IF c.status \in Successful THEN "completed" ELSE "failed"

Known(c) == c.op \in {"complete", "done"} => c.status \in FinalStatus

LEMMA InHandStage ==
  ASSUME SinglePlace, NEW p \in Procs, NEW t \in Tasks, submitted_at[t] # 0, t \notin gone,
         running_tasks[t] = None, ~Queued(t), ~Completed(t),
         \A q \in Procs : q # p => ~Holds(q, t),
         call[p] # None, call[p].task = t, Known(call[p])
  PROVE  Stage(t) = HandStage(t, call[p])
<1>1. Places(t) = 1
  BY DEF SinglePlace
<1>2. \A S : ~Entry(t, S)
  BY DEF Entry, Completed
<1>3. \A S : Ending(t, S) <=> ByCall(p, t, S)
  BY <1>2, SeenAlone, EndingParts
<1>4. BeingQueued(t) <=> call[p].op \in {"enqueue", "push"}
  BY SeenAlone
<1>5. ByCall(p, t, Successful) <=>
        call[p].op \in {"complete", "done"} /\ call[p].status \in Successful
  BY DEF ByCall
<1>6. ByCall(p, t, {"Failed"}) <=>
        call[p].op \in {"complete", "done"} /\ call[p].status = "Failed"
  BY DEF ByCall
<1>7. call[p].op \in {"complete", "done"} =>
        call[p].status \in Successful \/ call[p].status = "Failed"
  BY DEF Known, FinalStatus, Successful
<1> QED BY <1>1, <1>3, <1>4, <1>5, <1>6, <1>7, LiveStage DEF HandStage

LEMMA InHandStageNext ==
  ASSUME SinglePlace', NEW p \in Procs, NEW t \in Tasks, submitted_at'[t] # 0, t \notin gone',
         running_tasks'[t] = None, ~Queued(t)', ~Completed(t)',
         \A q \in Procs : q # p => ~Holds(q, t)',
         call'[p] # None, call'[p].task = t, Known(call'[p])
  PROVE  Stage(t)' = HandStage(t, call'[p])
<1>1. Places(t)' = 1
  BY DEF SinglePlace
<1>2. \A S : ~Entry(t, S)'
  BY DEF Entry, Completed
<1>3. \A S : Ending(t, S)' <=> ByCall(p, t, S)'
  <2>1. \A S : Ending(t, S)' <=> (\E q \in Procs : ByCall(q, t, S)') \/ Entry(t, S)'
    BY DEF Ending, ByCall, Entry
  <2> QED BY <1>2, <2>1, SeenAloneNext
<1>4. BeingQueued(t)' <=> call'[p].op \in {"enqueue", "push"}
  BY SeenAloneNext
<1>5. ByCall(p, t, Successful)' <=>
        call'[p].op \in {"complete", "done"} /\ call'[p].status \in Successful
  BY DEF ByCall, Successful
<1>6. ByCall(p, t, {"Failed"})' <=>
        call'[p].op \in {"complete", "done"} /\ call'[p].status = "Failed"
  BY DEF ByCall
<1>7. call'[p].op \in {"complete", "done"} =>
        call'[p].status \in Successful \/ call'[p].status = "Failed"
  BY DEF Known, FinalStatus, Successful
<1> QED BY <1>1, <1>3, <1>4, <1>5, <1>6, <1>7, LiveStageNext DEF HandStage

(* One task changes its stage. *)
LEMMA OneMoves ==
  ASSUME NEW t \in Tasks, NEW from, NEW to,
         \A u \in Tasks : u # t => Stage(u)' = Stage(u),
         Stage(t) = from, Stage(t)' = to
  PROVE  Lifecycle!Move(t, from, to)
BY DEF Lifecycle!Move

LEMMA NoneMoves ==
  ASSUME \A u \in Tasks : Stage(u)' = Stage(u)
  PROVE  UNCHANGED [t \in Tasks |-> Stage(t)]
OBVIOUS

AbstractStep == Lifecycle!Next \/ UNCHANGED [t \in Tasks |-> Stage(t)]

LEMMA SomeStep ==
  ASSUME \/ \E t \in Tasks : \/ Lifecycle!Submit(t) \/ Lifecycle!Dispatch(t)
                             \/ Lifecycle!Requeue(t) \/ Lifecycle!End(t) \/ Lifecycle!Cancel(t)
         \/ Lifecycle!Evict
  PROVE  AbstractStep
BY DEF AbstractStep, Lifecycle!Next

(* One task changes its stage in a way that TaskLifecycle allows. *)
LEMMA OneSteps ==
  ASSUME NEW t \in Tasks,
         \A u \in Tasks : u # t => Stage(u)' = Stage(u),
         \/ Stage(t)' = Stage(t)
         \/ Stage(t) = "new" /\ Stage(t)' = "queued"
         \/ Stage(t) = "queued" /\ Stage(t)' \in {"running", "cancelled"}
         \/ Stage(t) = "running" /\ Stage(t)' \in {"queued", "completed", "failed"}
  PROVE  AbstractStep
<1>1. CASE Stage(t)' = Stage(t)
  BY <1>1, NoneMoves DEF AbstractStep
<1>2. CASE Stage(t) = "new" /\ Stage(t)' = "queued"
  BY <1>2, OneMoves, SomeStep DEF Lifecycle!Submit
<1>3. CASE Stage(t) = "queued" /\ Stage(t)' = "running"
  BY <1>3, OneMoves, SomeStep DEF Lifecycle!Dispatch
<1>4. CASE Stage(t) = "queued" /\ Stage(t)' = "cancelled"
  BY <1>4, OneMoves, SomeStep DEF Lifecycle!Cancel
<1>5. CASE Stage(t) = "running" /\ Stage(t)' = "queued"
  BY <1>5, OneMoves, SomeStep DEF Lifecycle!Requeue
<1>6. CASE Stage(t) = "running" /\ Stage(t)' \in {"completed", "failed"}
  BY <1>6, OneMoves, SomeStep DEF Lifecycle!End, Lifecycle!Final
<1> QED BY <1>1, <1>2, <1>3, <1>4, <1>5, <1>6

(* Steps that leave every task where it is. *)
LEMMA StillRefines ==
  ASSUME SinglePlace, SinglePlace', Still
  PROVE  AbstractStep
<1>1. HeldSame /\ UNCHANGED <<running_tasks, completed_tasks, gone, submitted_at, retry_counts>>
      /\ \A u \in Tasks : Queued(u)' <=> Queued(u)
  BY DEF Still, QueueSame
<1>2. ASSUME NEW u \in Tasks PROVE Stage(u)' = Stage(u)
  <2>1. BeingQueued(u)' <=> BeingQueued(u)
    BY <1>1, SeenSame
  <2>2. \A S : Ending(u, S)' <=> Ending(u, S)
    BY <1>1, SeenSame, SameEntries DEF Ending, ByCall, Entry
  <2> QED BY <1>1, <2>1, <2>2, StageKept
<1> QED BY <1>2, NoneMoves DEF AbstractStep

(* A step of p on t, as the other tasks see it. *)
LEMMA OthersStay ==
  ASSUME SinglePlace, SinglePlace', NEW p \in Procs, NEW t \in Tasks, OthersSame(p),
         call[p] = None \/ call[p].task = t,
         call'[p] = None \/ call'[p].task = t,
         UNCHANGED <<completed_tasks, gone>>,
         \A u \in Tasks : u # t => /\ Queued(u)' <=> Queued(u)
                                   /\ running_tasks'[u] = running_tasks[u]
                                   /\ submitted_at'[u] = submitted_at[u]
                                   /\ retry_counts'[u] = retry_counts[u]
  PROVE  \A u \in Tasks : u # t => Stage(u)' = Stage(u)
<1> SUFFICES ASSUME NEW u \in Tasks, u # t PROVE Stage(u)' = Stage(u)
  OBVIOUS
<1>1. BeingQueued(u)' <=> BeingQueued(u)
  BY SeenOthers
<1>2. \A S : (\E q \in Procs : ByCall(q, u, S)') <=> (\E q \in Procs : ByCall(q, u, S))
  BY SeenOthers
<1>3. \A S : Ending(u, S)' <=> Ending(u, S)
  <2>1. \A S : Ending(u, S)' <=> (\E q \in Procs : ByCall(q, u, S)') \/ Entry(u, S)'
    BY DEF Ending, ByCall, Entry
  <2> QED BY <1>2, <2>1, EndingParts, SameEntries
<1> QED BY <1>1, <1>3, StageKept

(* The dispatcher records a task: Dispatch. *)
LEMMA RecordedRefines ==
  ASSUME AppTypeOK, SubmittedInv, PlaceInv, SinglePlace, SinglePlace',
         NEW t \in Tasks, TaskRecorded(t)
  PROVE  AbstractStep
<1>1. /\ Queued(t)
      /\ \A u \in Tasks : u # t => (Queued(u)' <=> Queued(u))
      /\ running_tasks'[t] # None
      /\ \A u \in Tasks : u # t => running_tasks'[u] = running_tasks[u]
      /\ HeldSame
      /\ UNCHANGED <<completed_tasks, gone, submitted_at, retry_counts>>
  BY RecordEffect
<1>2. ASSUME NEW u \in Tasks, u # t PROVE Stage(u)' = Stage(u)
  <2>1. (BeingQueued(u)' <=> BeingQueued(u)) /\ \A S : Ending(u, S)' <=> Ending(u, S)
    BY <1>1, SeenKept
  <2> QED BY <1>1, <1>2, <2>1, StageKept
<1>3. submitted_at[t] # 0 /\ t \notin gone /\ running_tasks[t] = None
  BY <1>1 DEF SubmittedInv, PlaceInv, Elsewhere, Queued, Positions
<1>4. Places(t) = 1 /\ Places(t)' = 1
  BY <1>1, <1>3 DEF SinglePlace
<1>5. Stage(t) = "queued" /\ Stage(t)' = "running"
  BY <1>1, <1>3, <1>4, LiveStage, LiveStageNext
<1> QED BY <1>2, <1>5, OneSteps

(* A handler takes a running task: to requeue it, which is not seen yet,   *)
(* or to complete it.                                                      *)
LEMMA TakenRefines ==
  ASSUME AppTypeOK, UntouchedInv, PlaceInv, SinglePlace, SinglePlace',
         NEW p \in Procs, NEW t \in Tasks, Taken(p, t)
  PROVE  AbstractStep
<1>1. /\ call[p] = None /\ OthersSame(p)
      /\ UNCHANGED <<completed_tasks, gone, submitted_at, retry_counts>>
      /\ \A u \in Tasks : Queued(u)' <=> Queued(u)
  BY DEF Taken, QueueSame
<1>2. /\ running_tasks[t] # None /\ running_tasks'[t] = None
      /\ \A u \in Tasks : u # t => running_tasks'[u] = running_tasks[u]
  BY DEF Taken, Takes, AppTypeOK
<1>3. /\ submitted_at[t] # 0 /\ t \notin gone /\ ~Queued(t) /\ ~Completed(t)
      /\ \A q \in Procs : ~Holds(q, t)
  BY <1>2 DEF UntouchedInv, PlaceInv, Elsewhere, Held
<1>4. /\ call'[p] # None /\ call'[p].task = t
      /\ \/ call'[p].op = "requeue"
         \/ call'[p].op = "complete" /\ call'[p].status \in FinalStatus
  <2>1. CASE Requeue(p, t)
    BY <2>1, CallIs
  <2>2. ASSUME NEW st \in FinalStatus, NEW job \in Jobs \cup {None}, CompleteTask(p, t, st, job)
        PROVE  /\ call'[p] # None /\ call'[p].task = t
               /\ call'[p].op = "complete" /\ call'[p].status \in FinalStatus
    <3>1. call'[p].status = st
      BY <2>2 DEF CompleteTask, AppTypeOK
    <3> QED BY <2>2, <3>1, CallIs
  <2> QED BY <2>1, <2>2 DEF Taken, Takes
<1>5. \A u \in Tasks : u # t => Stage(u)' = Stage(u)
  BY <1>1, <1>2, <1>4, OthersStay
<1>6. Stage(t) = "running"
  BY <1>2, <1>3, LiveStage DEF SinglePlace
<1>7. Stage(t)' = HandStage(t, call'[p])
  <2>1. submitted_at'[t] # 0 /\ t \notin gone' /\ ~Queued(t)' /\ ~Completed(t)'
    BY <1>1, <1>3, SameEntries
  <2>2. \A q \in Procs : q # p => ~Holds(q, t)'
    BY <1>1, <1>3 DEF OthersSame
  <2>3. Known(call'[p])
    BY <1>4 DEF Known
  <2> QED BY <1>2, <1>4, <2>1, <2>2, <2>3, InHandStageNext
<1>8. HandStage(t, call'[p]) \in {"running", "completed", "failed"}
  BY <1>4 DEF HandStage
<1> QED BY <1>5, <1>6, <1>7, <1>8, OneSteps

(* A call goes on.  requeue is seen where it removes the task from the     *)
(* running map: to fail it, or to queue it again.                          *)
LEMMA GoesOnRefines ==
  ASSUME IInv, UntouchedInv, PlaceInv, SnapshotsFresh, SinglePlace, SinglePlace',
         NEW p \in Procs, GoesOn(p), UNCHANGED <<sched, session>>
  PROVE  AbstractStep
<1> USE DEF IInv, TypeOK
<1>1. /\ OthersSame(p) /\ UNCHANGED <<completed_tasks, gone, submitted_at>>
      /\ \A u \in Tasks : Queued(u)' <=> Queued(u)
  BY GoesOnMoves DEF QueueSame
<1>2. PICK t \in Tasks :
           /\ \A u \in Tasks : u # t => /\ running_tasks'[u] = running_tasks[u]
                                        /\ retry_counts'[u] = retry_counts[u]
           /\ \/ /\ CallStep(p, t, "requeue", "retry")
                 /\ UNCHANGED <<running_tasks, retry_counts>>
              \/ /\ CallStep(p, t, "requeue", "complete")
                 /\ call'[p].status = "Failed"
                 /\ running_tasks'[t] = None
              \/ /\ CallStep(p, t, "retry", "enqueue")
                 /\ running_tasks'[t] = None
              \/ /\ CallStep(p, t, "enqueue", "push")
                 /\ UNCHANGED running_tasks
              \/ /\ CallStep(p, t, "complete", "done")
                 /\ call[p] \in Finishing /\ call'[p].status = call[p].status
                 /\ running_tasks'[t] = None
  BY CallKinds
<1>3. call[p] # None /\ call[p].task = t /\ call'[p] # None /\ call'[p].task = t
  BY <1>2 DEF CallStep
<1>4. \A u \in Tasks : u # t => Stage(u)' = Stage(u)
  BY <1>1, <1>2, <1>3, OthersStay
<1>5. /\ submitted_at[t] # 0 /\ t \notin gone /\ ~Queued(t) /\ ~Completed(t)
      /\ \A q \in Procs : q # p => ~Holds(q, t)
      /\ running_tasks[t] # None => t \in Pending(p)
  BY <1>3, InCallAlone
<1>6. /\ submitted_at'[t] # 0 /\ t \notin gone' /\ ~Queued(t)' /\ ~Completed(t)'
      /\ \A q \in Procs : q # p => ~Holds(q, t)'
  BY <1>1, <1>5, SameEntries DEF OthersSame
<1>7. ASSUME running_tasks[t] = None, Known(call[p]) PROVE Stage(t) = HandStage(t, call[p])
  BY <1>3, <1>5, <1>7, InHandStage
<1>8. ASSUME running_tasks'[t] = None, Known(call'[p]) PROVE Stage(t)' = HandStage(t, call'[p])
  BY <1>3, <1>6, <1>8, InHandStageNext
<1>9. running_tasks[t] # None => Stage(t) = "running"
  BY <1>5, LiveStage DEF SinglePlace
<1>10. running_tasks'[t] # None => Stage(t)' = "running"
  BY <1>6, LiveStageNext DEF SinglePlace
<1>11. ASSUME call[p].op \in {"requeue", "retry"} PROVE Stage(t) = "running"
  <2>1. Known(call[p]) /\ HandStage(t, call[p]) = "running"
    BY <1>11 DEF Known, HandStage
  <2> QED BY <1>7, <1>9, <2>1
<1>12. ASSUME call[p].op \in {"enqueue", "complete"} PROVE running_tasks[t] = None
  BY <1>5, <1>12 DEF Pending
<1>13. CASE CallStep(p, t, "requeue", "retry") /\ UNCHANGED running_tasks
  <2>1. Known(call'[p]) /\ HandStage(t, call'[p]) = "running"
    BY <1>13 DEF Known, HandStage, CallStep
  <2>2. Stage(t)' = "running"
    BY <1>8, <1>10, <2>1
  <2>3. Stage(t) = "running"
    BY <1>11, <1>13 DEF CallStep
  <2> QED BY <1>4, <2>2, <2>3, OneSteps
<1>14. CASE /\ CallStep(p, t, "requeue", "complete") /\ call'[p].status = "Failed"
            /\ running_tasks'[t] = None
  <2>1. Known(call'[p]) /\ HandStage(t, call'[p]) = "failed"
    BY <1>14 DEF Known, HandStage, CallStep, FinalStatus, Successful
  <2>2. Stage(t)' = "failed"
    BY <1>8, <1>14, <2>1
  <2>3. Stage(t) = "running"
    BY <1>11, <1>14 DEF CallStep
  <2> QED BY <1>4, <2>2, <2>3, OneSteps
<1>15. CASE CallStep(p, t, "retry", "enqueue") /\ running_tasks'[t] = None
  <2>1. Known(call'[p]) /\ HandStage(t, call'[p]) = "queued"
    BY <1>15 DEF Known, HandStage, CallStep
  <2>2. Stage(t)' = "queued"
    BY <1>8, <1>15, <2>1
  <2>3. Stage(t) = "running"
    BY <1>11, <1>15 DEF CallStep
  <2> QED BY <1>4, <2>2, <2>3, OneSteps
<1>16. CASE CallStep(p, t, "enqueue", "push") /\ UNCHANGED running_tasks
  <2>1. /\ Known(call[p]) /\ HandStage(t, call[p]) = "queued"
        /\ Known(call'[p]) /\ HandStage(t, call'[p]) = "queued"
    BY <1>16 DEF Known, HandStage, CallStep
  <2>2. running_tasks[t] = None /\ running_tasks'[t] = None
    BY <1>12, <1>16 DEF CallStep
  <2>3. Stage(t) = "queued" /\ Stage(t)' = "queued"
    BY <1>7, <1>8, <2>1, <2>2
  <2> QED BY <1>4, <2>3, OneSteps
<1>17. CASE /\ CallStep(p, t, "complete", "done")
            /\ call[p] \in Finishing /\ call'[p].status = call[p].status
            /\ running_tasks'[t] = None
  <2>1. /\ Known(call[p]) /\ Known(call'[p])
        /\ HandStage(t, call'[p]) = HandStage(t, call[p])
    BY <1>17 DEF Known, HandStage, CallStep, Finishing
  <2>2. running_tasks[t] = None
    BY <1>12, <1>17 DEF CallStep
  <2>3. Stage(t)' = Stage(t)
    BY <1>7, <1>8, <1>17, <2>1, <2>2
  <2> QED BY <1>4, <2>3, OneSteps
<1> QED BY <1>2, <1>13, <1>14, <1>15, <1>16, <1>17

(* enqueue pushes the task that was being queued: not seen. *)
LEMMA PushRefines ==
  ASSUME IInv, UntouchedInv, PlaceInv, SnapshotsFresh, SinglePlace, SinglePlace',
         NEW p \in Procs, Push(p), UNCHANGED <<sched, session>>
  PROVE  AbstractStep
<1> USE DEF IInv, TypeOK
<1>1. PICK t \in Tasks : t = call[p].task
  BY PushEffect
<1>2. /\ call[p] # None /\ Holds(p, t) /\ call'[p] = None /\ OthersSame(p)
      /\ Queued(t)'
      /\ \A u \in Tasks : u # t => (Queued(u)' <=> Queued(u))
      /\ UNCHANGED <<running_tasks, completed_tasks, gone, submitted_at, retry_counts>>
  BY <1>1, PushEffect
<1>3. \A u \in Tasks : u # t => Stage(u)' = Stage(u)
  BY <1>1, <1>2, OthersStay
<1>4. /\ submitted_at[t] # 0 /\ t \notin gone
      /\ running_tasks[t] # None => t \in Pending(p)
  BY <1>1, <1>2, InCallAlone
<1>5. running_tasks[t] = None
  BY <1>2, <1>4 DEF Holds
<1>6. BeingQueued(t)
  BY <1>1, <1>2 DEF BeingQueued, Push, InCall
<1>7. Places(t) = 1 /\ Places(t)' = 1
  BY <1>2, <1>4 DEF SinglePlace
<1>8. Stage(t) = "queued"
  BY <1>4, <1>5, <1>6, <1>7, LiveStage
<1>9. Stage(t)' = "queued"
  BY <1>2, <1>4, <1>5, <1>7, LiveStageNext
<1> QED BY <1>3, <1>8, <1>9, OneSteps

(* complete_task lists the task that was ending, which is not seen, and    *)
(* drops the oldest of the list: Evict.                                    *)
LEMMA DoneRefines ==
  ASSUME IInv, UntouchedInv, PlaceInv, SnapshotsFresh, EndInv, SinglePlace, SinglePlace',
         NEW p \in Procs, Done(p), UNCHANGED <<sched, session>>
  PROVE  AbstractStep
<1> USE DEF IInv, TypeOK
<1> DEFINE old == gone' \ gone
<1>1. /\ call[p] \in Finishing /\ Holds(p, call[p].task) /\ call'[p] = None /\ OthersSame(p)
      /\ gone \subseteq gone'
      /\ \A u \in Tasks : Queued(u)' <=> Queued(u)
      /\ UNCHANGED <<running_tasks, submitted_at, retry_counts>>
  BY DoneEffect DEF QueueSame
<1>2. PICK t \in Tasks : t = call[p].task
  BY <1>1 DEF Finishing
<1>3. call[p] # None /\ call[p].op = "done" /\ call[p].status \in FinalStatus
  BY <1>1 DEF Finishing, Done, InCall
<1>4. \A u \in old : Completed(u) \/ u = t
  BY <1>2, DoneEffect
<1>5. /\ \A u, S : Entry(u, S)' => Entry(u, S) \/ (u = t /\ call[p].status \in S)
      /\ \A u, S : Entry(u, S) \/ (u = t /\ call[p].status \in S)
                     => Entry(u, S)' \/ u \in gone'
  BY <1>2, DoneEffect
<1>6. \A u : BeingQueued(u)' <=> BeingQueued(u)
  BY <1>1, <1>3 DEF BeingQueued, OthersSame
<1>7. \A u, S : /\ (\E q \in Procs : ByCall(q, u, S)') => \E q \in Procs : ByCall(q, u, S)
                /\ (\E q \in Procs : ByCall(q, u, S)) =>
                     (\E q \in Procs : ByCall(q, u, S)') \/ (u = t /\ call[p].status \in S)
                /\ u = t /\ call[p].status \in S => \E q \in Procs : ByCall(q, u, S)
  <2>1. \A q \in Procs : \A u, S : ByCall(q, u, S)' => ByCall(q, u, S)
    BY <1>1 DEF ByCall, OthersSame
  <2>2. \A q \in Procs : \A u, S : ByCall(q, u, S) =>
          ByCall(q, u, S)' \/ (u = t /\ call[p].status \in S)
    BY <1>1, <1>2 DEF ByCall, OthersSame
  <2>3. \A S : call[p].status \in S => ByCall(p, t, S)
    BY <1>2, <1>3 DEF ByCall
  <2> QED BY <2>1, <2>2, <2>3
<1>8. \A u, S : Ending(u, S)' <=> (\E q \in Procs : ByCall(q, u, S)') \/ Entry(u, S)'
  BY DEF Ending, ByCall, Entry
<1>9. \A u, S : u \notin gone' => (Ending(u, S)' <=> Ending(u, S))
  BY <1>5, <1>7, <1>8, EndingParts
<1>10. \A u \in old : u \in Tasks
  <2>1. \A i \in 1 .. Len(completed_tasks) : completed_tasks[i].task \in Tasks
    BY DoneTyped
  <2> QED BY <1>4, <2>1 DEF Completed
<1>11. ASSUME NEW u \in old PROVE Stage(u) \in Lifecycle!Final /\ Stage(u)' = "evicted"
  <2>1. u \in Tasks /\ u \in gone' /\ u \notin gone
    BY <1>10
  <2>2. CASE u = t
    <3>1. /\ submitted_at[t] # 0 /\ ~Queued(t) /\ ~Completed(t)
          /\ \A q \in Procs : q # p => ~Holds(q, t)
          /\ running_tasks[t] # None => t \in Pending(p)
      BY <1>2, <1>3, InCallAlone
    <3>2. running_tasks[t] = None
      BY <1>1, <1>2, <3>1 DEF Holds
    <3>3. Known(call[p])
      BY <1>3 DEF Known
    <3>4. Stage(t) = HandStage(t, call[p])
      BY <1>2, <1>3, <2>1, <2>2, <3>1, <3>2, <3>3, InHandStage
    <3>5. Stage(t) \in {"completed", "failed"}
      BY <1>3, <3>4 DEF HandStage
    <3>6. retry_counts[t] = None
      BY <1>2 DEF EndInv, BeingListed, Done
    <3>7. submitted_at[u] # 0 /\ retry_counts[u] = None /\ Stage(u) \in {"completed", "failed"}
      BY <2>2, <3>1, <3>5, <3>6
    <3>8. Places(u)' = 1 /\ submitted_at'[u] # 0
      BY <1>1, <2>1, <3>7 DEF SinglePlace
    <3>9. Stage(u)' = "evicted"
      BY <1>1, <2>1, <3>7, <3>8, GoneStageNext
    <3> QED BY <3>7, <3>9 DEF Lifecycle!Final
  <2>3. CASE Completed(u)
    <3>1. submitted_at[u] # 0 /\ running_tasks[u] = None /\ ~Queued(u) /\ ~Held(u)
      BY <2>1, <2>3 DEF UntouchedInv, PlaceInv, Elsewhere
    <3>2. retry_counts[u] = None
      BY <2>1, <2>3 DEF EndInv
    <3>3. ~BeingQueued(u)
      BY <3>1, FirmHolds DEF BeingQueued, Held, Firm
    <3>4. Ending(u, Successful) \/ Ending(u, {"Failed"})
      <4>1. PICK i \in 1 .. Len(completed_tasks) : completed_tasks[i].task = u
        BY <2>3 DEF Completed
      <4>2. completed_tasks[i].status \in FinalStatus
        BY DoneTyped
      <4>3. completed_tasks[i].status \in Successful \/ completed_tasks[i].status \in {"Failed"}
        BY <4>2 DEF FinalStatus, Successful
      <4> QED BY <4>1, <4>3 DEF Ending
    <3>5. Places(u) = 1 /\ Places(u)' = 1 /\ submitted_at'[u] # 0
      BY <1>1, <2>1, <3>1 DEF SinglePlace
    <3>6. Stage(u) \in {"completed", "failed"}
      BY <2>1, <3>1, <3>3, <3>4, <3>5, LiveStage
    <3>7. Stage(u)' = "evicted"
      BY <1>1, <2>1, <3>2, <3>5, GoneStageNext
    <3> QED BY <3>6, <3>7 DEF Lifecycle!Final
  <2> QED BY <1>4, <2>2, <2>3
<1>12. ASSUME NEW u \in Tasks, u \notin old PROVE Stage(u)' = Stage(u)
  <2>1. u \in gone' <=> u \in gone
    BY <1>1, <1>12
  <2> QED BY <1>1, <1>6, <1>9, <2>1, StageKept
<1>13. old \in SUBSET {u \in Tasks : Stage(u) \in Lifecycle!Final}
  BY <1>10, <1>11
<1>14. \A u \in Tasks : Stage(u)' = IF u \in old THEN "evicted" ELSE Stage(u)
  BY <1>11, <1>12
<1>15. Lifecycle!Evict
  <2> HIDE DEF old
  <2> QED BY <1>13, <1>14 DEF Lifecycle!Evict, Lifecycle!Final
<1> QED BY <1>15, SomeStep

(* A submission: Submit. *)
LEMMA SubmitRefines ==
  ASSUME IInv, UntouchedInv, SinglePlace, SinglePlace',
         NEW t \in Tasks, SubmitTask(t), UNCHANGED <<sched, session>>
  PROVE  AbstractStep
<1> USE DEF IInv, TypeOK
<1>1. /\ t \in Procs /\ submitted_at[t] = 0 /\ submitted_at'[t] # 0
      /\ \A u \in Tasks : u # t => /\ submitted_at'[u] = submitted_at[u]
                                   /\ retry_counts'[u] = retry_counts[u]
      /\ call'[t].op = "push" /\ (\A u : Holds(t, u)' <=> u = t)
      /\ OthersSame(t)
      /\ UNCHANGED <<running_tasks, completed_tasks, gone>>
      /\ \A u \in Tasks : Queued(u)' <=> Queued(u)
  BY SubmitEffect DEF QueueSame
<1>2. call'[t] # None /\ call'[t].task = t /\ call[t] = None
  BY <1>1 DEF Holds, HandlerInv
<1>3. \A u \in Tasks : u # t => Stage(u)' = Stage(u)
  BY <1>1, <1>2, OthersStay
<1>4. running_tasks'[t] = None /\ t \notin gone'
  BY <1>1 DEF UntouchedInv, Elsewhere
<1>5. BeingQueued(t)'
  BY <1>1, <1>2 DEF BeingQueued
<1>6. Stage(t) = "new"
  BY <1>1, NewStage
<1>7. Places(t)' = 1
  BY <1>1 DEF SinglePlace
<1>8. Stage(t)' = "queued"
  BY <1>1, <1>4, <1>5, <1>7, LiveStageNext
<1> QED BY <1>3, <1>6, <1>8, OneSteps

(* A cancellation: Cancel. *)
LEMMA CancelRefines ==
  ASSUME IInv, SubmittedInv, PlaceInv, EndInv, SinglePlace, SinglePlace',
         NEW t \in Tasks, CancelTask(t), UNCHANGED <<sched, session>>
  PROVE  AbstractStep
<1> USE DEF IInv, TypeOK
<1>1. /\ Queued(t)
      /\ \A u \in Tasks : u # t => (Queued(u)' <=> Queued(u))
      /\ gone' = gone \cup {t}
      /\ HeldSame
      /\ UNCHANGED <<running_tasks, completed_tasks, submitted_at, retry_counts>>
  BY CancelEffect
<1>2. ASSUME NEW u \in Tasks, u # t PROVE Stage(u)' = Stage(u)
  <2>1. (BeingQueued(u)' <=> BeingQueued(u)) /\ \A S : Ending(u, S)' <=> Ending(u, S)
    BY <1>1, SeenKept
  <2> QED BY <1>1, <1>2, <2>1, StageKept
<1>3. submitted_at[t] # 0 /\ t \notin gone /\ running_tasks[t] = None
  BY <1>1 DEF SubmittedInv, PlaceInv, Elsewhere, Queued, Positions
<1>4. retry_counts[t] # None
  BY <1>1 DEF EndInv
<1>5. Places(t) = 1 /\ Places(t)' = 1
  BY <1>1, <1>3 DEF SinglePlace
<1>6. Stage(t) = "queued" /\ Stage(t)' = "cancelled"
  BY <1>1, <1>3, <1>4, <1>5, LiveStage, GoneStageNext
<1> QED BY <1>2, <1>6, OneSteps

-----------------------------------------------------------------------------
(* Every step refines one of TaskLifecycle, or is not seen. *)
LEMMA NextRefines ==
  ASSUME IInv, SubmittedInv, UntouchedInv, PlaceInv, SnapshotsFresh, EndInv,
         SinglePlace, SinglePlace', [Next]_vars
  PROVE  AbstractStep
<1>1. AppTypeOK
  BY DEF IInv, TypeOK
<1>2. CASE Still
  BY <1>2, StillRefines
<1>3. CASE \E t \in Tasks : TaskRecorded(t)
  BY <1>1, <1>3, RecordedRefines
<1>4. CASE \E p \in Procs, t \in Tasks : Taken(p, t)
  BY <1>1, <1>4, TakenRefines
<1>5. CASE \E p \in Procs : /\ GoesOn(p) \/ Push(p) \/ Done(p)
                            /\ UNCHANGED <<sched, session, monitor>>
  BY <1>5, GoesOnRefines, PushRefines, DoneRefines
<1>6. CASE \E t \in Tasks : /\ SubmitTask(t) \/ CancelTask(t)
                            /\ UNCHANGED <<sched, session, monitor>>
  BY <1>6, SubmitRefines, CancelRefines
<1> QED BY <1>2, <1>3, <1>4, <1>5, <1>6, NextKinds

LEMMA EndHolds == Spec /\ []SnapshotsFresh => []EndInv
<1>1. Init => EndInv
  <2> SUFFICES ASSUME Init, NEW t \in Tasks
               PROVE  ~Queued(t) /\ ~BeingQueued(t) /\ ~Completed(t) /\ ~BeingListed(t)
    BY DEF EndInv
  <2>1. /\ pending_tasks = <<>> /\ completed_tasks = <<>>
        /\ \A p \in Procs : call[p] = None
    BY DEF Init, AppInit
  <2> QED BY <2>1 DEF Queued, Positions, BeingQueued, Completed, BeingListed, InCall
<1>2. IInv /\ (SubmittedInv /\ UntouchedInv) /\ PlaceInv /\ SnapshotsFresh /\ EndInv
        /\ [Next]_vars => EndInv'
  BY EndNext
<1> QED BY <1>1, <1>2, InvariantHolds, SubmittedHolds, PlacesHold, PTL DEF Spec

(* While lists are fresh, and each task therefore is in one place, the     *)
(* code implements TaskLifecycle: the handlers end each task once, and the *)
(* dispatcher runs what is queued, whatever breaks, and however the steps  *)
(* of requeue and complete_task interleave with those of other tasks.      *)
THEOREM FreshImplements == Spec /\ []SnapshotsFresh => LifecycleSpec
<1>1. Init => Lifecycle!Init
  <2> SUFFICES ASSUME Init PROVE Lifecycle!Init
    OBVIOUS
  <2>1. \A t \in Tasks : Stage(t) = "new"
    BY NewStage DEF Init, AppInit
  <2> QED BY <2>1 DEF Lifecycle!Init
<1>2. IInv /\ (SubmittedInv /\ UntouchedInv) /\ PlaceInv /\ SnapshotsFresh /\ EndInv
        /\ SinglePlace /\ SinglePlace' /\ [Next]_vars => AbstractStep
  BY NextRefines
<1>3. AbstractStep <=> [Lifecycle!Next]_([t \in Tasks |-> Stage(t)])
  BY DEF AbstractStep
<1> QED BY <1>1, <1>2, <1>3, InvariantHolds, SubmittedHolds, PlacesHold, PlaceHolds, EndHolds, PTL
        DEF Spec, LifecycleSpec, Lifecycle!Spec

(* No task that was cancelled or evicted is left anywhere while no handler *)
(* requeues a task that it no longer has: what CancelTask or the drain     *)
(* took away was the only copy.                                            *)
THEOREM FreshNoGhost == Spec /\ []SnapshotsFresh => []NoGhost
<1>1. IInv /\ PlaceInv /\ SnapshotsFresh => NoGhost
  <2> SUFFICES ASSUME IInv, PlaceInv, SnapshotsFresh, NEW t \in gone
               PROVE  /\ running_tasks[t] = None
                      /\ ~Queued(t) /\ ~Held(t) /\ ~Completed(t)
                      /\ t \notin Listed
    BY DEF NoGhost
  <2>1. t \in Tasks
    BY DEF IInv, TypeOK, AppTypeOK
  <2>2. /\ running_tasks[t] = None
        /\ ~Queued(t) /\ ~Held(t) /\ ~Completed(t)
    BY <2>1 DEF PlaceInv, Elsewhere
  <2> QED BY <2>1, <2>2 DEF SnapshotsFresh
<1> QED BY <1>1, PlacesHold, InvariantHolds, PTL

-----------------------------------------------------------------------------
(* What a client was told *)

(* Only a task that the dispatcher finds in the queue is sent out. *)
LEMMA SentWereQueued ==
  ASSUME IInv, [Next]_vars
  PROVE  \A t \in Tasks : attempt'[t] # attempt[t] => Queued(t)
<1> USE DEF historyVars, stateVars
<1>1. CASE SchedNext
  <2>1. ASSUME NEW t \in Tasks, Scanning(t), attempt' = [attempt EXCEPT ![t] = @ + 1]
        PROVE  \A u \in Tasks : attempt'[u] # attempt[u] => Queued(u)
    <3>1. sched.idx \in 1 .. Len(pending_tasks) /\ sched.idx \notin Leaving
          /\ pending_tasks[sched.idx] = t
      BY <2>1 DEF Scanning, Current, IInv, TypeOK, ScanInv, SchedTypeOK, SchedState, Leaving
    <3>2. Queued(t)
      BY <3>1 DEF Queued, Positions
    <3> QED BY <2>1, <3>2 DEF IInv, TypeOK, AppTypeOK
  <2>2. CASE Send
    <3>1. PICK t \in Tasks, n \in Nodes : SendTask(t, n)
      BY <2>2, IdsAssumption DEF Send, Eligible
    <3> QED BY <2>1, <3>1 DEF SendTask
  <2>3. CASE Recruit
    <3>1. PICK t \in MpiTasks : \E f : RecruitNodes(t, f)
      BY <2>3 DEF Recruit
    <3> QED BY <2>1, <3>1, IdsAssumption DEF RecruitNodes
  <2>4. CASE \/ Lock \/ Skip \/ Record \/ SendSlot \/ RecordMpi \/ RegisterJob
             \/ AbortDispatch \/ Sweep \/ Unlock
    BY <2>4 DEF Lock, Skip, Record, SendSlot, RecordMpi, RegisterJob, AbortDispatch,
                Sweep, Unlock
  <2> QED BY <1>1, <2>2, <2>3, <2>4 DEF SchedNext
<1>2. ASSUME NEW s \in Sessions, WsNext(s) PROVE UNCHANGED attempt
  BY <1>2 DEF WsNext, OnRegister, OnHeartbeat, OnTaskResult, OnTaskError, Answered,
              OnMpiRankResult, OnMpiRankError, Finalize, Finalized, OnDraining, OnClose,
              RequeueLost, LostRequeued
<1>3. CASE MonitorNext
  BY <1>3 DEF MonitorNext, Tick, NextDead, RequeueOne, NextPhase
<1>4. CASE \E p \in Procs : ReturnFromCall(p)
  BY <1>4 DEF ReturnFromCall, ReadRetries, WriteRetries, Reenqueue, EndTask, Push, Done
<1>5. CASE ClientStep
  BY <1>5 DEF ClientStep, SubmitTask, CancelTask
<1>6. CASE WorkerStep \/ NetworkStep \/ UNCHANGED vars
  BY <1>6 DEF WorkerStep, NetworkStep, Silence, vars
<1> QED BY <1>1, <1>2, <1>3, <1>4, <1>5, <1>6 DEF Next, ServerStep

(* An ended task stays listed, or is forgotten. *)
LEMMA EndedStay ==
  ASSUME IInv, [Next]_vars
  PROVE  \A t \in Tasks : Completed(t) \/ t \in gone => Completed(t)' \/ t \in gone'
<1> USE DEF IInv, TypeOK
<1>1. CASE UNCHANGED <<completed_tasks, gone>>
  BY <1>1 DEF Completed
<1>2. ASSUME NEW p \in Procs, Done(p), UNCHANGED <<sched, session>>
      PROVE  \A t \in Tasks : Completed(t) \/ t \in gone => Completed(t)' \/ t \in gone'
  <2>1. gone \subseteq gone'
    BY <1>2, DoneEffect
  <2>2. \A t : Entry(t, FinalStatus) => Entry(t, FinalStatus)' \/ t \in gone'
    BY <1>2, DoneEffect
  <2>3. \A t \in Tasks : Completed(t) => Entry(t, FinalStatus)
    <3>1. \A i \in 1 .. Len(completed_tasks) : completed_tasks[i].status \in FinalStatus
      BY DoneTyped
    <3> QED BY <3>1 DEF Completed, Entry
  <2>4. \A t : Entry(t, FinalStatus)' => Completed(t)'
    BY DEF Entry, Completed
  <2> QED BY <2>1, <2>2, <2>3, <2>4
<1>3. ASSUME NEW t \in Tasks, CancelTask(t) PROVE UNCHANGED completed_tasks /\ gone \subseteq gone'
  BY <1>3 DEF CancelTask
<1>4. ASSUME NEW p \in Procs, GoesOn(p) \/ Push(p) PROVE UNCHANGED <<completed_tasks, gone>>
  BY <1>4 DEF GoesOn, ReadRetries, WriteRetries, Reenqueue, EndTask, Push, historyVars
<1>5. ASSUME NEW t \in Tasks, SubmitTask(t) PROVE UNCHANGED <<completed_tasks, gone>>
  BY <1>5 DEF SubmitTask
<1> QED BY <1>1, <1>2, <1>3, <1>4, <1>5, NextKinds DEF Still, TaskRecorded, Taken, Completed

(* What a client takes for the end of its task. *)
ToldInv == \A t \in Waited : poll[t] \in {"ok", "error"} => Completed(t) \/ t \in gone

LEMMA ToldNext ==
  ASSUME IInv, PollTypeOK, ToldInv, [ClientNext]_clientVars
  PROVE  PollTypeOK' /\ ToldInv'
<1> USE DEF PollTypeOK
<1>1. CASE [Next]_vars /\ UNCHANGED poll
  BY <1>1, EndedStay, WaitedAssumption DEF ToldInv
<1>2. ASSUME NEW t \in Waited, NEW from, NEW to \in {"queue", "running", "completed"} \cup Outcome,
             Look(t, from, to), to \in {"ok", "error"} => Completed(t)
      PROVE  PollTypeOK' /\ ToldInv'
  <2>1. UNCHANGED <<completed_tasks, gone>> /\ poll' = [poll EXCEPT ![t] = to]
    BY <1>2 DEF Look, vars, stateVars, historyVars
  <2>2. \A u : Completed(u)' <=> Completed(u)
    BY <2>1 DEF Completed
  <2> QED BY <1>2, <2>1, <2>2 DEF ToldInv
<1>3. ASSUME NEW t \in Waited, LookQueue(t) \/ LookRunning(t) PROVE PollTypeOK' /\ ToldInv'
  <2>1. \E from : Look(t, from, "queue") \/ Look(t, from, "running") \/ Look(t, from, "completed")
    BY <1>3 DEF LookQueue, LookRunning
  <2> QED BY <1>2, <2>1
<1>4. ASSUME NEW t \in Waited, LookCompleted(t) PROVE PollTypeOK' /\ ToldInv'
  <2>1. CASE Look(t, "completed", "not_found")
    BY <1>2, <2>1 DEF Outcome
  <2>2. ASSUME NEW i \in 1 .. Len(completed_tasks), completed_tasks[i].task = t,
               Look(t, "completed", Verdict(completed_tasks[i]))
        PROVE  PollTypeOK' /\ ToldInv'
    <3>1. completed_tasks[i].status \in FinalStatus
      <4>1. completed_tasks[i] \in DoneTask
        BY DEF IInv, TypeOK, AppTypeOK
      <4> QED BY <4>1 DEF DoneTask
    <3>2. Verdict(completed_tasks[i]) \in {"ok", "error"}
      BY <3>1 DEF Verdict, FinalStatus
    <3>3. Completed(t)
      BY <2>2 DEF Completed
    <3> QED BY <1>2, <2>2, <3>2, <3>3 DEF Outcome
  <2> QED BY <1>4, <2>1, <2>2 DEF LookCompleted
<1>5. ([Next]_vars /\ UNCHANGED poll) \/ PollStep
  BY DEF ClientNext, clientVars
<1> QED BY <1>1, <1>3, <1>4, <1>5 DEF PollStep

(* The clients only look. *)
LEMMA ClientsLook == ClientSpec => Spec
<1>1. ClientInit => Init
  BY DEF ClientInit
<1>2. [ClientNext]_clientVars => [Next]_vars
  BY DEF ClientNext, clientVars, PollStep, LookQueue, LookRunning, LookCompleted, Look
<1> QED BY <1>1, <1>2, PTL DEF ClientSpec, Spec

(* A client that was told how its task ended was told the truth, while no  *)
(* handler requeues a task that it no longer has: an ended task is not in  *)
(* the queue, and the dispatcher sends out what is in the queue.           *)
THEOREM ToldHolds == ClientSpec /\ []SnapshotsFresh => ToldIsFinal
<1>1. ClientInit => PollTypeOK /\ ToldInv
  BY DEF ClientInit, PollTypeOK, ToldInv
<1>2. IInv /\ (PollTypeOK /\ ToldInv) /\ [ClientNext]_clientVars => (PollTypeOK /\ ToldInv)'
  BY ToldNext
<1>3. IInv /\ PlaceInv /\ (PollTypeOK /\ ToldInv) /\ [Next]_vars =>
        [\A t \in Waited : poll[t] \in {"ok", "error"} => attempt'[t] = attempt[t]]_clientVars
  <2> SUFFICES ASSUME IInv, PlaceInv, ToldInv, [Next]_vars,
                      NEW t \in Waited, poll[t] \in {"ok", "error"}
               PROVE  attempt'[t] = attempt[t]
    OBVIOUS
  <2>1. t \in Tasks /\ (Completed(t) \/ t \in gone)
    BY WaitedAssumption DEF ToldInv
  <2>2. ~Queued(t)
    BY <2>1 DEF PlaceInv, Elsewhere
  <2> QED BY <2>1, <2>2, SentWereQueued
<1> QED BY <1>1, <1>2, <1>3, ClientsLook, InvariantHolds, PlacesHold, PTL
        DEF ClientSpec, Spec, ToldIsFinal
=============================================================================
