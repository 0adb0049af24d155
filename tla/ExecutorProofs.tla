--------------------------- MODULE ExecutorProofs ---------------------------
(***************************************************************************)
(* The result of an execution is all of its process's output, for pipes,   *)
(* payloads and outputs of any size.                                       *)
(***************************************************************************)
EXTENDS Executor, TLAPS

(* Every chunk that was written was read or is in the pipe. *)
NothingDropped ==
  /\ wrote \in Nat /\ read \in Nat /\ stdout \in Nat
  /\ read + stdout = wrote

(* Before the peer is spawned there is none; a result is returned once it  *)
(* has exited and its pipe is empty, and it stays so.                      *)
PhaseInv ==
  /\ pc \in {"start", "write", "await", "answered"}
  /\ pc = "start" => peer = "none"
  /\ pc # "answered" => outcome = "none"
  /\ outcome = "output" => peer = "none" \/ (peer = "exited" /\ stdout = 0)

ExecutorInv == NothingDropped /\ PhaseInv

(* A step of execute. *)
LEMMA ExecutorStepKeeps ==
  ASSUME ExecutorInv, ExecutorStep
  PROVE  ExecutorInv'
<1> USE DEF ExecutorInv, NothingDropped, PhaseInv, Return
<1>1. CASE Delegate
  BY <1>1 DEF Delegate
<1>2. CASE NotStarted
  BY <1>2 DEF NotStarted
<1>3. CASE Spawn
  BY <1>3 DEF Spawn
<1>4. CASE WriteChunk
  BY <1>4 DEF WriteChunk
<1>5. CASE WriteFails
  BY <1>5 DEF WriteFails
<1>6. CASE Collect
  BY <1>6 DEF Collect
<1>7. CASE Complete
  BY <1>7 DEF Complete
<1>8. CASE Timeout
  BY <1>8 DEF Timeout
<1> QED
  BY <1>1, <1>2, <1>3, <1>4, <1>5, <1>6, <1>7, <1>8 DEF ExecutorStep

(* A step of the peer: it writes to the pipe only while it is running, and *)
(* then no result has been returned yet.                                   *)
LEMMA PeerKeeps ==
  ASSUME ExecutorInv, PeerStep \/ PeerDies
  PROVE  ExecutorInv'
<1> USE DEF ExecutorInv, NothingDropped, PhaseInv
<1>1. CASE PeerReads
  BY <1>1 DEF PeerReads
<1>2. CASE PeerWrites
  BY <1>2 DEF PeerWrites
<1>3. CASE PeerExits
  BY <1>3 DEF PeerExits
<1>4. CASE PeerDies
  BY <1>4 DEF PeerDies
<1> QED BY <1>1, <1>2, <1>3, <1>4 DEF PeerStep

(* What a client gets as the output of a command is whole: nothing is left *)
(* in the pipe, and the process has exited.                                *)
THEOREM OutputIsWhole == ExecutorSpec => []OutputWhole
<1>1. ExecutorInit => ExecutorInv
  BY DEF ExecutorInit, ExecutorInv, NothingDropped, PhaseInv
<1>2. ExecutorInv /\ [ExecutorNext]_execVars => ExecutorInv'
  <2> SUFFICES ASSUME ExecutorInv, [ExecutorNext]_execVars PROVE ExecutorInv'
    OBVIOUS
  <2>1. CASE UNCHANGED execVars
    BY <2>1 DEF execVars, ExecutorInv, NothingDropped, PhaseInv
  <2> QED BY <2>1, ExecutorStepKeeps, PeerKeeps DEF ExecutorNext
<1>3. ExecutorInv => OutputWhole
  BY DEF ExecutorInv, NothingDropped, PhaseInv, OutputWhole
<1> QED BY <1>1, <1>2, <1>3, PTL DEF ExecutorSpec
=============================================================================
