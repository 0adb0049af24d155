--------------------------- MODULE TaskLifecycle ---------------------------
(***************************************************************************)
(* What the server promises the client that submitted a task: the task is  *)
(* in one stage at a time, it goes from the queue to workers and back, it  *)
(* ends once, and how it ended does not change.  Only a queued task can be *)
(* cancelled, only an ended one is forgotten.                              *)
(***************************************************************************)
CONSTANT Tasks

VARIABLE stage

Final == {"completed", "failed"}

Init == stage = [t \in Tasks |-> "new"]

Move(t, from, to) ==
  /\ stage[t] = from
  /\ stage' = [stage EXCEPT ![t] = to]

Submit(t) == Move(t, "new", "queued")

Dispatch(t) == Move(t, "queued", "running")

Requeue(t) == Move(t, "running", "queued")

End(t) == \E outcome \in Final : Move(t, "running", outcome)

Cancel(t) == Move(t, "queued", "cancelled")

(* the oldest of the ended tasks make room, several at once *)
Evict ==
  \E old \in SUBSET {t \in Tasks : stage[t] \in Final} :
    stage' = [t \in Tasks |-> IF t \in old THEN "evicted" ELSE stage[t]]

(* stage' # stage: evicting nothing is a stutter, and none of these steps *)
Next ==
  /\ stage' # stage
  /\ \/ \E t \in Tasks : Submit(t) \/ Dispatch(t) \/ Requeue(t) \/ End(t) \/ Cancel(t)
     \/ Evict

Spec == Init /\ [][Next]_stage
=============================================================================
