------------------------------ MODULE AnyPeer -------------------------------
(***************************************************************************)
(* The edge node against a planner that need not use the SDK: any program  *)
(* that connects to the four endpoints and sends frames of its own choice, *)
(* the actions with any sequence number included.  It shows which          *)
(* guarantees are the edge node's own.  The peer is not code of the        *)
(* repository; it runs at most PeerAhead frames ahead of the node in each  *)
(* direction.                                                              *)
(***************************************************************************)
EXTENDS EdgeNode

CONSTANT PeerAhead  \* bound: frames of the peer the node has not consumed

ASSUME PeerAheadAssumption == PeerAhead \in Nat

vars == <<wireVars, procVars, edgeVars>>

Init == WireInit /\ ProcInit /\ EdgeInit

peer_connects ==
  /\ proc = "spawned"
  /\ proc' = "connected"
  /\ UNCHANGED <<rc, wireVars, edgeVars>>

PeerActions ==
  [op : {"action"}, seq : 0 .. MaxSeq + 1, go : BOOLEAN, signal : {FALSE}, episode : {MaxRequests}]

peer_sends_data ==
  /\ proc = "connected"
  /\ Len(actionCh) + Len(actionQ) < PeerAhead
  /\ \E f \in PeerActions \cup ErrorFrames \cup GarbageFrames :
       actionCh' = Append(actionCh, f)
  /\ UNCHANGED <<obsCh, controlCh, ctrlAckCh, procVars, edgeVars>>

peer_sends_control ==
  /\ proc = "connected"
  /\ Len(ctrlAckCh) + Len(ackQ) < PeerAhead
  /\ \E f \in [op : {"init_ack", "reset_ack", "cancel_ack"}, n : {0}]
                \cup ErrorFrames \cup GarbageFrames :
       ctrlAckCh' = Append(ctrlAckCh, f)
  /\ UNCHANGED <<obsCh, actionCh, controlCh, procVars, edgeVars>>

peer_reads ==
  /\ proc = "connected"
  /\ obsCh # <<>> \/ controlCh # <<>>
  /\ obsCh' = <<>> /\ controlCh' = <<>>
  /\ UNCHANGED <<actionCh, ctrlAckCh, procVars, edgeVars>>

(* Its return code is read by teardown alone, for the error it reports. *)
peer_exits ==
  /\ is_alive
  /\ Exit("error", actionCh, ctrlAckCh)
  /\ UNCHANGED edgeVars

Peer == \/ peer_connects \/ peer_sends_data \/ peer_sends_control
        \/ peer_reads \/ peer_exits

Next == EdgeNext \/ Peer

Spec == Init /\ [][Next]_vars

-----------------------------------------------------------------------------
(* A new execution begins only with the answer to the latest observation:  *)
(* it never starts from an action numbered before or after it.             *)
ExecutionAnswersLatestObs ==
  [][execution = 0 /\ execution' # 0 => Head(actionQ).seq = seq]_vars
=============================================================================
