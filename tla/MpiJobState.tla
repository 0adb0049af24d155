---------------------------- MODULE MpiJobState ----------------------------
(***************************************************************************)
(* scheduler.rs, MpiJobState: what the server has heard of the ranks of a  *)
(* running MPI job.  A slot holds 0 where the code holds None; an answer   *)
(* is the number of the dispatch it belongs to, which the code does not    *)
(* know (the job id is the task id): the properties use it to tell answers *)
(* to this dispatch from answers to an earlier one.                        *)
(***************************************************************************)
EXTENDS Naturals, FiniteSets

Ranks(np) == 0 .. (np - 1)

MpiJob(nps) ==
  UNION {[results : [Ranks(np) -> Nat], errors : [Ranks(np) -> Nat]] : np \in nps}

NewJob(np) == [results |-> [r \in Ranks(np) |-> 0],
               errors  |-> [r \in Ranks(np) |-> 0]]

\* EXCEPT leaves a function alone outside its domain, as get_mut does.
RecordResult(job, rank, att) == [job EXCEPT !.results[rank] = att]

RecordError(job, rank, att) == [job EXCEPT !.errors[rank] = att]

\* Seeded fault: one answer is enough.
IsCompleteAny(job) ==
  \E r \in DOMAIN job.results : job.results[r] # 0 \/ job.errors[r] # 0

IsComplete(job) ==
  \A r \in DOMAIN job.results : job.results[r] # 0 \/ job.errors[r] # 0

RanksOk(job) == Cardinality({r \in DOMAIN job.results : job.results[r] # 0})

RanksFailed(job) == Cardinality({r \in DOMAIN job.errors : job.errors[r] # 0})
=============================================================================
