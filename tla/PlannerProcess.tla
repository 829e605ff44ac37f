--------------------------- MODULE PlannerProcess ---------------------------
(***************************************************************************)
(* The planner child process as the edge node sees it (PlannerProcess of   *)
(* bridge/edge_node.py) and what its end does to the channels.             *)
(*                                                                         *)
(*   new -> spawned -> connected -> exited                                 *)
(*                                                                         *)
(* "connected" is a process whose four sockets have connected.             *)
(***************************************************************************)
EXTENDS Wire

VARIABLES
  proc,  \* stage of the child process
  rc     \* its return code: none while it runs, else zero, error, term or kill

procVars == <<proc, rc>>

ProcTypeOK ==
  /\ proc \in {"new", "spawned", "connected", "exited"}
  /\ rc \in {"none", "zero", "error", "term", "kill"}

ProcInit == proc = "new" /\ rc = "none"

is_alive == proc \in {"spawned", "connected"}

(* Every end of the process.  Frames it had queued but not flushed are     *)
(* gone (the sockets close with linger 0), so each outgoing channel keeps  *)
(* only a prefix; frames under way to it are never read.                   *)
Exit(code, actions, acks) ==
  /\ proc' = "exited"
  /\ rc' = code
  /\ \E n \in 0 .. Len(actions) : actionCh' = SubSeq(actions, 1, n)
  /\ \E n \in 0 .. Len(acks) : ctrlAckCh' = SubSeq(acks, 1, n)
  /\ obsCh' = <<>>
  /\ controlCh' = <<>>

(* A frame sent to the process: it arrives while a peer is connected. *)
Delivered(ch, frame) == IF proc = "connected" THEN Append(ch, frame) ELSE ch

(* send_frame raises BridgeError when no peer takes the frame within the   *)
(* send timeout.  A pipe to an ended process may still swallow frames      *)
(* until the disconnect is noticed, so there both outcomes are possible.   *)
CanSend == proc \in {"connected", "exited"}
CanFailToSend(ch, hwm) == proc # "connected" \/ Len(ch) >= hwm

start ==
  /\ proc = "new"
  /\ proc' = "spawned"
  /\ UNCHANGED rc
=============================================================================
