--------------------------- MODULE AnyPeerProofs ----------------------------
(***************************************************************************)
(* What the edge node guarantees by itself: theorems about AnyPeer, for    *)
(* every value of its constants.  The peer may send any frame in any       *)
(* order, so nothing here rests on what the SDK does.                      *)
(***************************************************************************)
EXTENDS AnyPeer, EdgeProofs

(* Every step is one of the node, or leaves the node alone. *)
LEMMA PeerNodeSteps == [Next]_vars => EdgeNext \/ UNCHANGED edgeVars
BY DEF Next, Peer, peer_connects, peer_sends_data, peer_sends_control, peer_reads,
       peer_exits, vars

-----------------------------------------------------------------------------
(* Types *)

(* The peer's frames are frames of the wire. *)
LEMMA PeerFrames ==
  /\ PeerActions \cup ErrorFrames \cup GarbageFrames \subseteq DataIn
  /\ [op : {"init_ack", "reset_ack", "cancel_ack"}, n : {0}]
       \cup ErrorFrames \cup GarbageFrames \subseteq ControlIn
<1> DEFINE PeerAcks == [op : {"init_ack", "reset_ack", "cancel_ack"}, n : {0}]
<1>1. PeerActions \subseteq ActionFrames
  <2>1. 0 .. MaxSeq + 1 \subseteq Int /\ {MaxRequests} \subseteq RequestId
    BY MaxSeqAssumption, MaxRequestsAssumption DEF RequestId
  <2>2. {FALSE} \subseteq BOOLEAN
    OBVIOUS
  <2> QED
    BY <2>1, <2>2, Zenon DEF PeerActions, ActionFrames
<1>2. PeerAcks \subseteq AckFrames
  BY MaxRequestsAssumption DEF AckFrames, RequestId
<1> HIDE DEF PeerAcks
<1>3. PeerAcks \cup ErrorFrames \cup GarbageFrames \subseteq ControlIn
  BY <1>2 DEF ControlIn
<1> QED
  BY <1>1, <1>3 DEF DataIn, PeerAcks

LEMMA PeerType == NodeTypeOK /\ Peer => NodeTypeOK'
<1> SUFFICES ASSUME NodeTypeOK, Peer PROVE NodeTypeOK'
  OBVIOUS
<1> USE DEF NodeTypeOK
<1>1. EdgeTypeOK'
  BY DEF Peer, peer_connects, peer_sends_data, peer_sends_control, peer_reads, peer_exits,
         EdgeTypeOK, edgeVars, lifeVars, ioVars, loopVars, robotVars, callVars
<1>2. CASE peer_connects
  BY <1>1, <1>2 DEF peer_connects, WireTypeOK, ProcTypeOK, wireVars
<1>3. CASE peer_sends_data
  <2>1. actionCh' \in Seq(DataIn)
    BY <1>3, PeerFrames, ChannelTypes DEF peer_sends_data
  <2> QED
    BY <1>1, <1>3, <2>1 DEF peer_sends_data, WireTypeOK, ProcTypeOK, procVars
<1>4. CASE peer_sends_control
  <2>1. ctrlAckCh' \in Seq(ControlIn)
    BY <1>4, PeerFrames, ChannelTypes DEF peer_sends_control
  <2> QED
    BY <1>1, <1>4, <2>1 DEF peer_sends_control, WireTypeOK, ProcTypeOK, procVars
<1>5. CASE peer_reads
  BY <1>1, <1>5, EmptySeq DEF peer_reads, WireTypeOK, ProcTypeOK, procVars
<1>6. CASE peer_exits
  BY <1>1, <1>6, ExitType DEF peer_exits, WireTypeOK
<1> QED
  BY <1>2, <1>3, <1>4, <1>5, <1>6 DEF Peer

(* No frame of a foreign planner takes the node, its channels or its       *)
(* process handle out of their types.                                      *)
THEOREM PeerTypeCorrect == Spec => []NodeTypeOK
<1>1. Init => NodeTypeOK
  BY NodeInitType DEF Init
<1>2. NodeTypeOK /\ [Next]_vars => NodeTypeOK'
  BY EdgeTypeStep, PeerType, NodeTypeStutter DEF Next, vars
<1> QED
  BY <1>1, <1>2, PTL DEF Spec

-----------------------------------------------------------------------------
(* The robot *)

(* A foreign planner cannot move a robot that is not driven, nor have one  *)
(* follow a move or chunk while the run loop waits for its next action.    *)
THEOREM PeerStandstill == Spec => [](StandstillUnlessDriving /\ NoExecutionWhileWaiting)
<1>1. Init => StandstillUnlessDriving /\ NoExecutionWhileWaiting
  BY DEF Init, EdgeInit, StandstillUnlessDriving, NoExecutionWhileWaiting
<1>2. StandstillUnlessDriving /\ NoExecutionWhileWaiting /\ [Next]_vars
        => StandstillUnlessDriving' /\ NoExecutionWhileWaiting'
  BY PeerNodeSteps, StandstillEdge, WaitingEdge
<1> QED
  BY <1>1, <1>2, PTL DEF Spec

(* Whatever the planner sends, the robot sees only what module Robot       *)
(* allows: engage, ask, follow and halt are the node's own doing.          *)
THEOREM PeerImplementsRobot == Spec => RobotPromise
<1>1. NodeTypeOK /\ [Next]_vars => [R!Next]_R!vars
  BY PeerNodeSteps, RobotStep DEF NodeTypeOK
<1> QED
  BY <1>1, RobotInit, PeerTypeCorrect, PTL DEF Spec, Init, RobotPromise, R!Spec

-----------------------------------------------------------------------------
(* What starts an execution *)

(* Only an action taken from the queue starts one. *)
LEMMA StartSteps ==
  ASSUME EdgeNext \/ UNCHANGED edgeVars, execution = 0, execution' # 0
  PROVE  await_action
<1>1. ~UNCHANGED Drive
  BY DEF Drive
<1>2. ~(tick_executing \/ follow_loop)
  BY DEF tick_executing, follow_loop
<1>3. ~tick_obs
  BY DEF tick_obs, execution_over
<1>4. ASSUME NEW c \in Callers, request_cancel(c) \/ request_reset(c) \/ reset_returns(c)
      PROVE  FALSE
  BY <1>4 DEF request_cancel, request_reset, reset_returns, stop_execution
<1>5. ~UNCHANGED edgeVars
  BY DEF edgeVars, robotVars
<1> QED
  BY <1>1, <1>2, <1>3, <1>4, <1>5, DriveSteps

(* A new execution begins only with an action numbered like the latest     *)
(* observation: an older one is dropped as stale, a newer one is refused,  *)
(* whatever numbers the planner makes up.                                  *)
THEOREM AnswersLatest == Spec => ExecutionAnswersLatestObs
<1>1. NodeTypeOK /\ [Next]_vars =>
        [execution = 0 /\ execution' # 0 => Head(actionQ).seq = seq]_vars
  <2> SUFFICES ASSUME NodeTypeOK, [Next]_vars, execution = 0, execution' # 0
               PROVE  Head(actionQ).seq = seq
    OBVIOUS
  <2>1. await_action
    BY PeerNodeSteps, StartSteps
  <2>2. Head(actionQ).op = "action" /\ ~stale(Head(actionQ)) /\ ~(Head(actionQ).seq > seq)
    BY <2>1 DEF await_action, robotVars
  <2>3. Head(actionQ).seq \in Int /\ seq \in Int
    BY <2>1, <2>2, QueueTypes, FieldTypes, MaxSeqAssumption
       DEF await_action, NodeTypeOK, EdgeTypeOK, Seq0
  <2> QED
    BY <2>2, <2>3 DEF stale
<1> QED
  BY <1>1, PeerTypeCorrect, PTL DEF Spec, ExecutionAnswersLatestObs
=============================================================================
