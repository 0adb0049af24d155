-------------------------------- MODULE Wire --------------------------------
(***************************************************************************)
(* The WebSocket connections (axum and tokio-tungstenite, outside src/) and *)
(* the unbounded channels on either side of them.  Each direction is FIFO. *)
(* When a connection breaks, the server still reads some prefix of what    *)
(* the worker had sent; what was on its way to the worker is lost.  Either *)
(* side notices the break whenever it next touches the connection.         *)
(***************************************************************************)
EXTENDS Proto, SequencesExt

VARIABLES
  link,       \* of each connection: not yet opened, up, or broken
  toServer,   \* WorkerMessages sent and not yet read by the handler
  toWorker,   \* ServerMessages sent and not yet read by the worker
  rxOpen      \* whether the server's end of the outgoing channel exists

wireVars == <<link, toServer, toWorker, rxOpen>>

WireTypeOK ==
  /\ link \in [Sessions -> {"idle", "up", "down"}]
  /\ toServer \in [Sessions -> Seq(WorkerMessage)]
  /\ toWorker \in [Sessions -> Seq(ServerMessage)]
  /\ rxOpen \in [Sessions -> BOOLEAN]

WireInit ==
  /\ link = [s \in Sessions |-> "idle"]
  /\ toServer = [s \in Sessions |-> <<>>]
  /\ toWorker = [s \in Sessions |-> <<>>]
  /\ rxOpen = [s \in Sessions |-> TRUE]

(* What the worker hands to the pump of connection s, lost once it is down. *)
Sent(s, msgs) ==
  IF link[s] = "up" THEN [toServer EXCEPT ![s] = @ \o msgs] ELSE toServer

(* What the worker's queues are after msg is put on connections ss. *)
Delivered(ss, msg) ==
  [s \in Sessions |-> IF s \in ss /\ rxOpen[s] /\ link[s] = "up"
                      THEN Append(toWorker[s], msg)
                      ELSE toWorker[s]]

Break(s) ==
  /\ link[s] = "up"
  /\ link' = [link EXCEPT ![s] = "down"]
  /\ \E n \in 0 .. Len(toServer[s]) :
       toServer' = [toServer EXCEPT ![s] = SubSeq(@, 1, n)]
  /\ toWorker' = [toWorker EXCEPT ![s] = <<>>]
  /\ UNCHANGED rxOpen

(* ws_handler's send_task: a send on a broken socket fails, the task ends   *)
(* and drops rx, and from then on tx.send returns an error.                *)
SendTaskEnds(s) ==
  /\ link[s] = "down"
  /\ rxOpen[s]
  /\ rxOpen' = [rxOpen EXCEPT ![s] = FALSE]
  /\ UNCHANGED <<link, toServer, toWorker>>
=============================================================================
