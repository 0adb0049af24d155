------------------------------ MODULE Executor ------------------------------
(***************************************************************************)
(* hypercompute-cli/src/executor.rs: one execution that a worker has       *)
(* spawned, from execute or execute_mpi_slot to the result or error that   *)
(* worker.rs sends.  Its peer is a child process, fed and read through     *)
(* pipes of bounded capacity, or the server of an HTTP request.  Worker    *)
(* sees an execution as one step, Finish, that may never come.             *)
(***************************************************************************)
EXTENDS Naturals

CONSTANTS
  Cap,          \* chunks that a pipe holds
  MaxPayload,   \* chunks of payload of a custom task
  MaxOutput     \* chunks that the peer writes of its own

ASSUME ExecutorAssumption == Cap \in Nat \ {0} /\ MaxPayload \in Nat /\ MaxOutput \in Nat

VARIABLES
  job,       \* the task, and how its peer behaves
  pc,        \* where execute waits
  unsent,    \* chunks of payload not yet written to stdin
  stdin,     \* chunks in the pipe to the peer
  stdout,    \* chunks in the pipe from the peer
  peer,      \* the child process, or the server of the request
  got,       \* history: chunks the peer has read
  wrote,     \* history: chunks the peer has written
  read,      \* chunks of output collected
  outcome    \* what execute returns

execVars == <<job, pc, unsent, stdin, stdout, peer, got, wrote, read, outcome>>

(* delegated is a rank other than 0 in mpirun mode.  A handler reads its   *)
(* payload before it writes, answers chunk by chunk, or ignores it.  A     *)
(* process may leave one of its own behind, which holds its output open.   *)
(* stdout stands for either pipe from the peer: stderr is as bounded, and  *)
(* read by the same calls.                                                 *)
Kind == {"shell", "http", "custom", "mpirun", "delegated", "pure"}

Job == [kind : Kind, payload : 0 .. MaxPayload, output : 0 .. MaxOutput,
        habit : {"reads", "streams", "ignores"}, hangs : BOOLEAN, leaves : BOOLEAN]

ExecutorTypeOK ==
  /\ job \in Job
  /\ pc \in {"start", "write", "await", "answered"}
  /\ unsent \in 0 .. MaxPayload
  /\ stdin \in 0 .. Cap
  /\ stdout \in 0 .. Cap
  /\ peer \in {"none", "running", "exited", "broken"}
  /\ got \in Nat /\ wrote \in Nat /\ read \in Nat
  /\ outcome \in {"none", "output", "error", "timeout"}

(* only a custom task has a payload; no other peer reads what is not there *)
ExecutorInit ==
  /\ job \in {k \in Job : k.kind # "custom" => k.payload = 0 /\ k.habit = "ignores"}
  /\ job.kind = "http" => ~job.leaves
  /\ pc = "start"
  /\ unsent = job.payload
  /\ stdin = 0 /\ stdout = 0
  /\ peer = "none"
  /\ got = 0 /\ wrote = 0 /\ read = 0
  /\ outcome = "none"

Return(result) == pc' = "answered" /\ outcome' = result

-----------------------------------------------------------------------------
(* execute, execute_mpi_slot *)

(* The rank is left to rank 0's mpirun, and a placeholder is its result. *)
Delegate ==
  /\ pc = "start"
  /\ job.kind = "delegated"
  /\ Return("output")
  /\ UNCHANGED <<job, unsent, stdin, stdout, peer, got, wrote, read>>

(* spawn fails, find_mpirun finds none, or the HTTP method is unknown *)
NotStarted ==
  /\ pc = "start"
  /\ job.kind # "delegated"
  /\ Return("error")
  /\ UNCHANGED <<job, unsent, stdin, stdout, peer, got, wrote, read>>

(* Without a payload stdin is closed at once.  *)
Spawn ==
  /\ pc = "start"
  /\ job.kind # "delegated"
  /\ peer' = "running"
  /\ pc' = IF job.payload > 0 THEN "write" ELSE "await"
  /\ UNCHANGED <<job, unsent, stdin, stdout, got, wrote, read, outcome>>

(* execute_custom: stdin.write_all, outside of the timeout and before      *)
(* anything reads stdout; stdin is dropped after the last chunk            *)
WriteChunk ==
  /\ pc = "write"
  /\ peer = "running"
  /\ stdin < Cap
  /\ stdin' = stdin + 1
  /\ unsent' = unsent - 1
  /\ pc' = IF unsent = 1 THEN "await" ELSE "write"
  /\ UNCHANGED <<job, stdout, peer, got, wrote, read, outcome>>

(* the handler has exited and the rest of its payload has no reader: the   *)
(* ? of write_all makes an error of it, whatever the handler's exit code   *)
WriteFails ==
  /\ pc = "write"
  /\ peer = "exited"
  /\ Return("error")
  /\ UNCHANGED <<job, unsent, stdin, stdout, peer, got, wrote, read>>

Collect ==
  /\ pc = "await"
  /\ stdout > 0
  /\ stdout' = stdout - 1
  /\ read' = read + 1
  /\ UNCHANGED <<job, pc, unsent, stdin, peer, got, wrote, outcome>>

\* Seeded fault: the exit of the process is taken for the end of its output.
CompleteEarly ==
  /\ pc = "await"
  /\ peer \in {"exited", "broken"}
  /\ Return(IF peer = "exited" THEN "output" ELSE "error")
  /\ UNCHANGED <<job, unsent, stdin, stdout, peer, got, wrote, read>>

(* output, wait_with_output or bytes returns; whatever the exit code, a    *)
(* process that has exited, and whose output is closed, has a result       *)
Complete ==
  /\ pc = "await"
  /\ \/ peer = "exited" /\ ~job.leaves /\ stdout = 0 /\ Return("output")
     \/ peer = "broken" /\ Return("error")
  /\ UNCHANGED <<job, unsent, stdin, stdout, peer, got, wrote, read>>

\* Seeded fault: only a custom task has a timeout.
TimeoutCustomOnly ==
  /\ pc = "await"
  /\ job.kind = "custom"
  /\ Return("timeout")
  /\ UNCHANGED <<job, unsent, stdin, stdout, peer, got, wrote, read>>

(* The future is dropped, and the process, which no one kills, runs on.    *)
Timeout ==
  /\ pc = "await"
  /\ Return("timeout")
  /\ UNCHANGED <<job, unsent, stdin, stdout, peer, got, wrote, read>>

ExecutorStep ==
  \/ Delegate \/ NotStarted \/ Spawn
  \/ WriteChunk \/ WriteFails \/ Collect \/ Complete \/ Timeout

-----------------------------------------------------------------------------
(* the peer *)

EndOfInput == pc # "write" /\ stdin = 0

PeerReads ==
  /\ peer = "running"
  /\ stdin > 0
  /\ \/ job.habit = "reads"
     \/ job.habit = "streams" /\ wrote = got
  /\ stdin' = stdin - 1
  /\ got' = got + 1
  /\ UNCHANGED <<job, pc, unsent, stdout, peer, wrote, read, outcome>>

MoreToWrite ==
  CASE job.habit = "streams" -> wrote < got
    [] job.habit = "reads"   -> EndOfInput /\ wrote < job.output
    [] job.habit = "ignores" -> wrote < job.output

(* once execute has returned, nothing reads the pipe: SIGPIPE *)
PeerWrites ==
  /\ peer = "running"
  /\ MoreToWrite
  /\ \/ /\ pc # "answered"
        /\ stdout < Cap
        /\ stdout' = stdout + 1
        /\ wrote' = wrote + 1
        /\ UNCHANGED peer
     \/ /\ pc = "answered"
        /\ peer' = "exited"
        /\ UNCHANGED <<stdout, wrote>>
  /\ UNCHANGED <<job, pc, unsent, stdin, got, read, outcome>>

PeerExits ==
  /\ peer = "running"
  /\ ~MoreToWrite
  /\ job.habit = "ignores" \/ EndOfInput
  /\ peer' = "exited"
  /\ UNCHANGED <<job, pc, unsent, stdin, stdout, got, wrote, read, outcome>>

(* a process that is killed has exited; a request that breaks is an error *)
PeerDies ==
  /\ peer = "running"
  /\ peer' = IF job.kind = "http" THEN "broken" ELSE "exited"
  /\ UNCHANGED <<job, pc, unsent, stdin, stdout, got, wrote, read, outcome>>

PeerStep == PeerReads \/ PeerWrites \/ PeerExits

ExecutorNext == ExecutorStep \/ PeerStep \/ PeerDies

ExecutorSpec == ExecutorInit /\ [][ExecutorNext]_execVars

(* tokio runs the task whenever it can go on, and its timer fires; a peer  *)
(* that does not hang goes on whenever it can.                             *)
FairExecutorSpec ==
  /\ ExecutorSpec
  /\ WF_execVars(ExecutorStep)
  /\ WF_execVars(Timeout)
  /\ WF_execVars(~job.hangs /\ PeerStep)

-----------------------------------------------------------------------------
(* A result is the whole of what the process wrote before it exited: none  *)
(* is returned with output left in the pipe or with the process running.   *)
OutputWhole ==
  outcome = "output" /\ peer # "none" => peer = "exited" /\ read = wrote

(* A worker's slot comes back: an execution ends, though its process may   *)
(* hang, by result, error or timeout.  The exception is a custom handler   *)
(* that is fed more than a pipe holds and does not read it to the end      *)
(* first: the write has no timeout.                                        *)
Answers ==
  (\/ job.kind # "custom"
   \/ job.payload <= Cap
   \/ job.habit = "reads" /\ ~job.hangs)
  ~> pc = "answered"
=============================================================================
