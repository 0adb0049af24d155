------------------------------- MODULE Client -------------------------------
(***************************************************************************)
(* A client that waits: submitter.rs, `submit --wait` and `status --wait`, *)
(* polls get_task of router.rs until its answer is final.  get_task looks  *)
(* at the queue, the running map and the completed list one after the      *)
(* other; the server goes on between two looks.  What a poll finds queued  *)
(* or running makes the client poll again.                                 *)
(***************************************************************************)
EXTENDS Refinement

CONSTANT Waited   \* tasks whose client waits

ASSUME WaitedAssumption == Waited \subseteq Tasks

VARIABLE poll   \* the next look of each client's request, or its outcome

Outcome == {"ok", "error", "not_found"}

PollTypeOK == poll \in [Waited -> {"queue", "running", "completed"} \cup Outcome]

clientVars == <<vars, poll>>

ClientInit == Init /\ poll = [t \in Waited |-> "queue"]

(* from one look to the next, nothing of the server changes *)
Look(t, from, to) ==
  /\ poll[t] = from
  /\ poll' = [poll EXCEPT ![t] = to]
  /\ UNCHANGED vars

(* the POST of the task has been answered, and the client knows its id *)
Posted(t) == submitted_at[t] # 0 /\ call[t] = None

(* the dispatcher does not hold the queue *)
LookQueue(t) ==
  /\ Posted(t)
  /\ ~queue_locked
  /\ \A i \in 1 .. Len(pending_tasks) : pending_tasks[i] # t
  /\ Look(t, "queue", "running")

LookRunning(t) ==
  Look(t, "running", IF running_tasks[t] # None THEN "queue" ELSE "completed")

(* poll_until_done: failed ranks make an error of a completed job. *)
Verdict(done) ==
  CASE done.status = "Completed" -> "ok"
    [] done.status = "MpiCompleted" -> IF RanksFailed(done.job) > 0 THEN "error" ELSE "ok"
    [] done.status = "Failed" -> "error"

\* Seeded fault: a task that is found nowhere is taken for a failed one.
LookCompletedStrict(t) ==
  \/ \E i \in 1 .. Len(completed_tasks) :
       /\ completed_tasks[i].task = t
       /\ Look(t, "completed", Verdict(completed_tasks[i]))
  \/ /\ ~Completed(t)
     /\ Look(t, "completed", "error")

\* Seeded fault: a task that is found nowhere is asked for again.
LookCompletedAgain(t) ==
  \/ \E i \in 1 .. Len(completed_tasks) :
       /\ completed_tasks[i].task = t
       /\ Look(t, "completed", Verdict(completed_tasks[i]))
  \/ /\ ~Completed(t)
     /\ Look(t, "completed", "queue")

LookCompleted(t) ==
  \/ \E i \in 1 .. Len(completed_tasks) :
       /\ completed_tasks[i].task = t
       /\ \A k \in 1 .. (i - 1) : completed_tasks[k].task # t
       /\ Look(t, "completed", Verdict(completed_tasks[i]))
  \/ /\ ~Completed(t)
     /\ Look(t, "completed", "not_found")

PollStep == \E t \in Waited : LookQueue(t) \/ LookRunning(t) \/ LookCompleted(t)

ClientNext == (Next /\ UNCHANGED poll) \/ PollStep

ClientSpec == ClientInit /\ [][ClientNext]_clientVars

(* Clients poll every 400 ms; their requests get the queue between scans.  *)
FairClientSpec ==
  /\ ClientSpec
  /\ ServerFairness
  /\ WorkerFairness
  /\ \A t \in Waited : /\ SF_clientVars(LookQueue(t))
                       /\ WF_clientVars(LookRunning(t) \/ LookCompleted(t))

-----------------------------------------------------------------------------
(* A client that was told how its task ended was told the truth: the task  *)
(* is not sent to a worker again, whatever breaks after the answer.        *)
ToldIsFinal ==
  [][\A t \in Waited : poll[t] \in {"ok", "error"} => attempt'[t] = attempt[t]]_clientVars

(* A client that waits gets an outcome: it is not left polling a task that *)
(* is stranded between the collections.                                    *)
WaitEnds == \A t \in Waited : submitted_at[t] # 0 ~> poll[t] \in Outcome

Misjudged(n) ==
  /\ nodes[n] # None
  /\ nodes[n].status \in {"Online", "Busy"}
  /\ nodes[n].active # 0
  /\ ExecsOf(n) = {}
  /\ pending_tasks = <<>>
  /\ \A t \in Tasks : running_tasks[t] = None

(* The load that score_for reads is counted twice, by the dispatcher and   *)
(* the handlers on one side and by the worker on the other, and answers,   *)
(* heartbeats and dispatches cross: a node that is left idle, and may be   *)
(* chosen, does not stay counted as loaded.                                *)
LoadSettles == \A n \in Beats : []<>~Misjudged(n)

(* README 403: --wait blocks until the end of the task.  A task that moves *)
(* between two looks is in none of the three collections when they look.   *)
WaitsForTheEnd ==
  \A t \in Waited : poll[t] = "not_found" => t \in gone \/ Completed(t)
=============================================================================
