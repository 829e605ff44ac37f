----------------------------- MODULE EdgeProofs -----------------------------
(***************************************************************************)
(* What every step of the edge node keeps, whatever planner is at the      *)
(* other end of its sockets: the types, the standstill of a robot that is  *)
(* not driven, the quiet wait for an action, and the promise of Robot.     *)
(* The two systems that run the node, Bridge and AnyPeer, rest on these.   *)
(***************************************************************************)
EXTENDS EdgeNode, TLAPS, SequenceTheorems

(* The types of the node, of its channels and of the planner process. *)
NodeTypeOK == WireTypeOK /\ ProcTypeOK /\ EdgeTypeOK

(* The constructors of the wire build frames of the wire. *)
LEMMA FrameTypes ==
  /\ \A s \in Seq0 : Obs(s) \in ObsFrames
  /\ \A s \in Int, go, sig \in BOOLEAN, e \in RequestId :
       Action(s, go, sig, e) \in DataIn
  /\ Error \in DataIn /\ Error \in ControlIn
  /\ \A n \in RequestId : /\ Control("reset", n) \in ControlFrames
                          /\ Control("cancel", n) \in ControlFrames
                          /\ Ack("reset_ack", n) \in ControlIn
                          /\ Ack("cancel_ack", n) \in ControlIn
  /\ Control("init", 0) \in ControlFrames /\ Control("shutdown", 0) \in ControlFrames
  /\ \A op \in {"init_ack", "bye", "heartbeat"} : Ack(op, 0) \in ControlIn
BY MaxRequestsAssumption
   DEF Obs, ObsFrames, Action, ActionFrames, DataIn, Error, ErrorFrames, ControlIn,
       Control, ControlFrames, Ack, AckFrames, RequestId, Seq0

(* What a frame's fields may hold. *)
LEMMA FieldTypes ==
  /\ \A f \in ObsFrames : f.seq \in Seq0
  /\ \A f \in DataIn : f.op = "action" => f \in ActionFrames
  /\ \A f \in ActionFrames : /\ f.op = "action" /\ f.seq \in Int /\ f.go \in BOOLEAN
                             /\ f.signal \in BOOLEAN /\ f.episode \in RequestId
  /\ \A f \in ControlFrames : f.n \in RequestId
  /\ \A f \in ControlIn : f.op \notin {"heartbeat", "garbage"} => f \in AckFrames \cup ErrorFrames
  /\ \A f \in ActionFrames \cup {Died} : f.op = "action" => f \in ActionFrames
  /\ 0 \in RequestId /\ 0 \in Seq0
BY MaxRequestsAssumption, MaxSeqAssumption
   DEF Obs, ObsFrames, Action, ActionFrames, DataIn, ErrorFrames, ControlIn, GarbageFrames,
       ControlFrames, AckFrames, RequestId, Seq0, Died

(* A prefix of a sequence has the type of the sequence. *)
LEMMA PrefixType ==
  ASSUME NEW S, NEW s \in Seq(S), NEW n \in 0 .. Len(s)
  PROVE  SubSeq(s, 1, n) \in Seq(S)
BY SubSeqProperties, ElementOfSeq

(* Taking a frame from a typed sequence, or adding one to it. *)
LEMMA SeqTypes ==
  ASSUME NEW S, NEW s \in Seq(S)
  PROVE  /\ \A e \in S : Append(s, e) \in Seq(S)
         /\ s # <<>> => Head(s) \in S /\ Tail(s) \in Seq(S)
BY HeadTailProperties, AppendProperties

LEMMA ChannelTypes ==
  ASSUME WireTypeOK
  PROVE  /\ \A f \in ObsFrames : Append(obsCh, f) \in Seq(ObsFrames)
         /\ \A f \in DataIn : Append(actionCh, f) \in Seq(DataIn)
         /\ \A f \in ControlFrames : Append(controlCh, f) \in Seq(ControlFrames)
         /\ \A f \in ControlIn : Append(ctrlAckCh, f) \in Seq(ControlIn)
         /\ obsCh # <<>> => Head(obsCh) \in ObsFrames /\ Tail(obsCh) \in Seq(ObsFrames)
         /\ actionCh # <<>> => Head(actionCh) \in DataIn /\ Tail(actionCh) \in Seq(DataIn)
         /\ controlCh # <<>> => /\ Head(controlCh) \in ControlFrames
                                /\ Tail(controlCh) \in Seq(ControlFrames)
         /\ ctrlAckCh # <<>> => /\ Head(ctrlAckCh) \in ControlIn
                                /\ Tail(ctrlAckCh) \in Seq(ControlIn)
BY SeqTypes DEF WireTypeOK

LEMMA NodeInitType == WireInit /\ ProcInit /\ EdgeInit => NodeTypeOK
<1> SUFFICES ASSUME WireInit, ProcInit, EdgeInit PROVE NodeTypeOK
  OBVIOUS
<1> USE FieldTypes
<1>1. \A S : <<>> \in Seq(S)
  BY EmptySeq
<1>2. Idle \in Requests
  BY DEF Idle, Requests
<1>3. WireTypeOK
  BY <1>1 DEF WireInit, WireTypeOK
<1>4. EdgeTypeOK
  BY <1>1, <1>2 DEF EdgeInit, EdgeTypeOK
<1> QED
  BY <1>3, <1>4 DEF NodeTypeOK, ProcInit, ProcTypeOK

(* The end of the process keeps the types, whatever it had queued. *)
LEMMA ExitType ==
  ASSUME WireTypeOK, NEW code \in {"zero", "error", "term", "kill"},
         NEW actions \in Seq(DataIn), NEW acks \in Seq(ControlIn),
         Exit(code, actions, acks)
  PROVE  WireTypeOK' /\ ProcTypeOK'
BY PrefixType, EmptySeq DEF Exit, WireTypeOK, ProcTypeOK

(* What the outcomes of an execution step may hold. *)
LEMMA OutcomeTypes ==
  ASSUME EdgeTypeOK
  PROVE  /\ \A e \in RequestId : \A r \in advance_execution(e) :
              r.execution \in RequestId /\ r.cmdVel \in {"zero", "moving"}
         /\ \A f \in ActionFrames : \A r \in robot_response(f) :
              r.execution \in RequestId /\ r.cmdVel \in {"zero", "moving"}
<1> USE FieldTypes DEF EdgeTypeOK
<1>1. \A e \in RequestId : \A r \in advance_execution(e) :
        r.execution \in RequestId /\ r.cmdVel \in {"zero", "moving"}
  BY DEF advance_execution
<1>2. \A f \in ActionFrames : \A r \in start_execution(f) :
        r.execution \in RequestId /\ r.cmdVel \in {"zero", "moving"}
  BY <1>1 DEF start_execution
<1>3. \A f \in ActionFrames : \A r \in velocity_twist(f) :
        r.execution \in RequestId /\ r.cmdVel \in {"zero", "moving"}
  BY DEF velocity_twist
<1> QED
  BY <1>1, <1>2, <1>3 DEF robot_response, follow_action

LEMMA QueueTypes ==
  ASSUME EdgeTypeOK
  PROVE  /\ mark_dead => /\ dead' \in BOOLEAN
                         /\ actionQ' \in Seq(ActionFrames \cup {Died})
         /\ \A f \in ActionFrames : Append(actionQ, f) \in Seq(ActionFrames \cup {Died})
         /\ actionQ # <<>> => /\ Head(actionQ) \in ActionFrames \cup {Died}
                              /\ Tail(actionQ) \in Seq(ActionFrames \cup {Died})
         /\ \A f \in AckFrames \cup ErrorFrames :
              Append(ackQ, f) \in Seq(AckFrames \cup ErrorFrames)
         /\ ackQ # <<>> => Tail(ackQ) \in Seq(AckFrames \cup ErrorFrames)
<1> DEFINE Q == ActionFrames \cup {Died}
           A == AckFrames \cup ErrorFrames
<1>1. actionQ \in Seq(Q) /\ ackQ \in Seq(A) /\ dead \in BOOLEAN
  BY DEF EdgeTypeOK
<1>2. /\ \A f \in Q : Append(actionQ, f) \in Seq(Q)
      /\ actionQ # <<>> => Head(actionQ) \in Q /\ Tail(actionQ) \in Seq(Q)
  BY <1>1, SeqTypes
<1>3. /\ \A f \in A : Append(ackQ, f) \in Seq(A)
      /\ ackQ # <<>> => Tail(ackQ) \in Seq(A)
  BY <1>1, SeqTypes
<1>4. mark_dead => dead' \in BOOLEAN /\ actionQ' \in Seq(Q)
  BY <1>1, <1>2 DEF mark_dead
<1> QED
  BY <1>2, <1>3, <1>4

LEMMA SetupType ==
  ASSUME NodeTypeOK, Setup
  PROVE  NodeTypeOK'
<1> USE FrameTypes, FieldTypes DEF NodeTypeOK
<1> USE DEF wireVars, procVars, edgeVars, lifeVars, ioVars, loopVars, robotVars, callVars
<1>1. CASE setup_start
  BY <1>1 DEF setup_start, start, WireTypeOK, ProcTypeOK, EdgeTypeOK
<1>2. CASE setup_connected
  BY <1>2, ChannelTypes DEF setup_connected, WireTypeOK, ProcTypeOK, EdgeTypeOK
<1>3. CASE setup_init_ack
  BY <1>3, ChannelTypes DEF setup_init_ack, WireTypeOK, ProcTypeOK, EdgeTypeOK
<1>4. CASE setup_gives_up
  BY <1>4 DEF setup_gives_up, WireTypeOK, ProcTypeOK, EdgeTypeOK
<1> QED
  BY <1>1, <1>2, <1>3, <1>4 DEF Setup

LEMMA IoThreadType ==
  ASSUME NodeTypeOK, IoThread
  PROVE  NodeTypeOK'
<1> USE FrameTypes, FieldTypes DEF NodeTypeOK
<1> USE DEF wireVars, procVars, edgeVars, lifeVars, ioVars, loopVars, robotVars, callVars
<1>1. CASE io_data
  <2>1. /\ dead' \in BOOLEAN
        /\ actionQ' \in Seq(ActionFrames \cup {Died})
    BY <1>1, ChannelTypes, QueueTypes DEF io_data, route_data, EdgeTypeOK
  <2> QED
    BY <1>1, <2>1, ChannelTypes DEF io_data, WireTypeOK, ProcTypeOK, EdgeTypeOK
<1>2. CASE io_control
  BY <1>2, ChannelTypes, QueueTypes DEF io_control, WireTypeOK, ProcTypeOK, EdgeTypeOK
<1>3. CASE io_process_exited
  BY <1>3, QueueTypes DEF io_process_exited, WireTypeOK, ProcTypeOK, EdgeTypeOK
<1>4. CASE io_stop
  BY <1>4 DEF io_stop, WireTypeOK, ProcTypeOK, EdgeTypeOK
<1> QED
  BY <1>1, <1>2, <1>3, <1>4 DEF IoThread

LEMMA RunLoopType ==
  ASSUME NodeTypeOK, RunLoop
  PROVE  NodeTypeOK'
<1> USE FrameTypes, FieldTypes DEF NodeTypeOK
<1> USE DEF wireVars, procVars, edgeVars, lifeVars, ioVars, loopVars, robotVars, callVars
<1>1. CASE run_loop
  BY <1>1 DEF run_loop, WireTypeOK, ProcTypeOK, EdgeTypeOK
<1>2. CASE beat_acquired
  BY <1>2 DEF beat_acquired, WireTypeOK, ProcTypeOK, EdgeTypeOK
<1>3. CASE tick_executing
  <2>1. execution \in RequestId
    BY DEF EdgeTypeOK
  <2>2. execution' \in RequestId /\ cmdVel' \in {"zero", "moving"}
    BY <1>3, <2>1, OutcomeTypes DEF tick_executing
  <2> QED
    BY <1>3, <2>2 DEF tick_executing, WireTypeOK, ProcTypeOK, EdgeTypeOK
<1>4. CASE follow_loop
  <2>1. execution \in RequestId
    BY DEF EdgeTypeOK
  <2>2. execution' \in RequestId /\ cmdVel' \in {"zero", "moving"}
    BY <1>4, <2>1, OutcomeTypes DEF follow_loop
  <2> QED
    BY <1>4, <2>2 DEF follow_loop, WireTypeOK, ProcTypeOK, EdgeTypeOK
<1>5. CASE tick_obs
  <2>1. execution \in RequestId /\ cmdVel \in {"zero", "moving"}
    BY DEF EdgeTypeOK
  <2>2. execution' \in RequestId /\ cmdVel' \in {"zero", "moving"}
    BY <1>5, <2>1, OutcomeTypes DEF tick_obs, execution_over
  <2>3. seq' \in Seq0
    BY <1>5, MaxSeqAssumption DEF tick_obs, EdgeTypeOK, Seq0
  <2>4. obsCh' \in Seq(ObsFrames)
    BY <1>5, <2>3, ChannelTypes DEF tick_obs, Delivered, WireTypeOK
  <2>5. dead' \in BOOLEAN /\ actionQ' \in Seq(ActionFrames \cup {Died})
    BY <1>5, QueueTypes DEF tick_obs, EdgeTypeOK
  <2> QED
    BY <1>5, <2>2, <2>3, <2>4, <2>5 DEF tick_obs, WireTypeOK, ProcTypeOK, EdgeTypeOK
<1>6. CASE await_action
  <2>1. /\ Head(actionQ) \in ActionFrames \cup {Died}
        /\ actionQ' \in Seq(ActionFrames \cup {Died})
    BY <1>6, QueueTypes DEF await_action
  <2>2. ASSUME NEW f \in ActionFrames, publish_action(f)
        PROVE  /\ driving' \in BOOLEAN /\ signal' \in RequestId
               /\ execution' \in RequestId /\ cmdVel' \in {"zero", "moving"}
    BY <2>2, OutcomeTypes DEF publish_action, EdgeTypeOK
  <2>3. /\ driving' \in BOOLEAN /\ signal' \in RequestId
        /\ execution' \in RequestId /\ cmdVel' \in {"zero", "moving"}
        /\ loop' \in {"idle", "await", "crashed"}
    BY <1>6, <2>1, <2>2 DEF await_action, EdgeTypeOK
  <2> QED
    BY <1>6, <2>1, <2>3 DEF await_action, WireTypeOK, ProcTypeOK, EdgeTypeOK
<1>7. CASE await_gives_up
  BY <1>7 DEF await_gives_up, WireTypeOK, ProcTypeOK, EdgeTypeOK
<1>8. CASE run_loop_ends
  BY <1>8 DEF run_loop_ends, WireTypeOK, ProcTypeOK, EdgeTypeOK
<1> QED
  BY <1>1, <1>2, <1>3, <1>4, <1>5, <1>6, <1>7, <1>8 DEF RunLoop

LEMMA RequestingType ==
  ASSUME NodeTypeOK, Requesting
  PROVE  NodeTypeOK'
<1> USE FrameTypes, FieldTypes DEF NodeTypeOK
<1> USE DEF wireVars, procVars, edgeVars, lifeVars, ioVars, loopVars, robotVars, callVars
<1>0. Idle \in Requests
  BY DEF Idle, Requests
<1>1. ASSUME NEW c \in Callers, NEW op \in {"cancel", "reset"},
             requests < MaxRequests, send_control(c, op)
      PROVE  /\ requests' \in RequestId /\ controlCh' \in Seq(ControlFrames)
             /\ waiting' \in [Callers -> Requests]
             /\ dead' \in BOOLEAN /\ actionQ' \in Seq(ActionFrames \cup {Died})
  <2>1. requests + 1 \in RequestId
    BY <1>1, MaxRequestsAssumption DEF EdgeTypeOK, RequestId
  <2>2. Control(op, requests + 1) \in ControlFrames
    BY <2>1
  <2>3. [op |-> op, n |-> requests + 1] \in Requests
    BY <2>1 DEF Requests
  <2>4. controlCh' \in Seq(ControlFrames)
    BY <1>1, <2>2, ChannelTypes DEF send_control, Delivered, WireTypeOK
  <2>5. waiting' \in [Callers -> Requests]
    BY <1>1, <2>3 DEF send_control, EdgeTypeOK
  <2>6. dead' \in BOOLEAN /\ actionQ' \in Seq(ActionFrames \cup {Died})
    BY <1>1, QueueTypes DEF send_control, EdgeTypeOK
  <2> QED
    BY <1>1, <2>1, <2>4, <2>5, <2>6 DEF send_control
<1>2. ASSUME NEW c \in Callers, request_cancel(c)
      PROVE  NodeTypeOK'
  <2>1. requests < MaxRequests /\ send_control(c, "cancel")
    BY <1>2 DEF request_cancel
  <2> QED
    BY <1>1, <1>2, <2>1, ZenonT(40)
       DEF request_cancel, stop_execution, WireTypeOK, ProcTypeOK, EdgeTypeOK
<1>3. ASSUME NEW c \in Callers, request_reset(c)
      PROVE  NodeTypeOK'
  <2>1. requests < MaxRequests /\ send_control(c, "reset")
    BY <1>3 DEF request_reset
  <2> QED
    BY <1>1, <1>3, <2>1
       DEF request_reset, stop_execution, WireTypeOK, ProcTypeOK, EdgeTypeOK
<1>4. ASSUME NEW c \in Callers, drain_discards(c)
      PROVE  NodeTypeOK'
  BY <1>4, QueueTypes DEF drain_discards, WireTypeOK, ProcTypeOK, EdgeTypeOK
<1>5. ASSUME NEW c \in Callers, cancel_returns(c)
      PROVE  NodeTypeOK'
  BY <1>0, <1>5, QueueTypes DEF cancel_returns, WireTypeOK, ProcTypeOK, EdgeTypeOK
<1>6. ASSUME NEW c \in Callers, reset_returns(c)
      PROVE  NodeTypeOK'
  <2>1. waiting[c].n \in RequestId
    BY DEF EdgeTypeOK, Requests
  <2> QED
    BY <1>0, <1>6, <2>1, QueueTypes DEF reset_returns, WireTypeOK, ProcTypeOK, EdgeTypeOK
<1>7. ASSUME NEW c \in Callers, drain_gives_up(c)
      PROVE  NodeTypeOK'
  BY <1>0, <1>7 DEF drain_gives_up, WireTypeOK, ProcTypeOK, EdgeTypeOK
<1> QED
  BY <1>2, <1>3, <1>4, <1>5, <1>6, <1>7 DEF Requesting

LEMMA TeardownType ==
  ASSUME NodeTypeOK, Teardown
  PROVE  NodeTypeOK'
<1> USE FrameTypes, FieldTypes DEF NodeTypeOK
<1> USE DEF wireVars, procVars, edgeVars, lifeVars, ioVars, loopVars, robotVars, callVars
<1>1. CASE owner_stops
  BY <1>1 DEF owner_stops, WireTypeOK, ProcTypeOK, EdgeTypeOK
<1>2. CASE teardown
  <2>1. controlCh' \in Seq(ControlFrames)
    BY <1>2, ChannelTypes DEF teardown, Delivered, WireTypeOK
  <2> QED
    BY <1>2, <2>1 DEF teardown, WireTypeOK, ProcTypeOK, EdgeTypeOK
<1>3. CASE await_bye
  <2>1. ctrlAckCh' \in Seq(ControlIn)
    BY <1>3, ChannelTypes DEF await_bye, WireTypeOK
  <2>2. ackQ' \in Seq(AckFrames \cup ErrorFrames)
    BY <1>3, QueueTypes DEF await_bye, EdgeTypeOK
  <2> QED
    BY <1>3, <2>1, <2>2 DEF await_bye, WireTypeOK, ProcTypeOK, EdgeTypeOK
<1>4. CASE join_io
  BY <1>4 DEF join_io, WireTypeOK, ProcTypeOK, EdgeTypeOK
<1>5. CASE stop
  <2>1. actionCh \in Seq(DataIn) /\ ctrlAckCh \in Seq(ControlIn)
    BY DEF WireTypeOK
  <2>2. WireTypeOK' /\ ProcTypeOK'
    BY <1>5, <2>1, ExitType DEF stop, WireTypeOK, ProcTypeOK
  <2> QED
    BY <1>5, <2>2 DEF stop, EdgeTypeOK
<1> QED
  BY <1>1, <1>2, <1>3, <1>4, <1>5 DEF Teardown

LEMMA EdgeTypeStep == NodeTypeOK /\ EdgeNext => NodeTypeOK'
BY SetupType, IoThreadType, RunLoopType, RequestingType, TeardownType DEF EdgeNext

LEMMA NodeTypeStutter ==
  NodeTypeOK /\ UNCHANGED <<wireVars, procVars, edgeVars>> => NodeTypeOK'
BY DEF NodeTypeOK, WireTypeOK, ProcTypeOK, EdgeTypeOK, wireVars, procVars, edgeVars,
       lifeVars, ioVars, loopVars, robotVars, callVars

-----------------------------------------------------------------------------
(* Standstill *)

(* What the robot does is decided by these alone. *)
Drive == <<driving, execution, cmdVel>>

(* Every step but the ones below leaves the robot alone. *)
LEMMA DriveSteps ==
  EdgeNext =>
    \/ UNCHANGED Drive
    \/ tick_executing \/ follow_loop \/ tick_obs \/ await_action
    \/ \E c \in Callers : request_cancel(c) \/ request_reset(c) \/ reset_returns(c)
<1> USE DEF Drive, robotVars
<1>1. Setup \/ IoThread \/ Teardown => UNCHANGED Drive
  BY DEF Setup, setup_start, setup_connected, setup_init_ack, setup_gives_up,
         IoThread, io_data, io_control, io_process_exited, io_stop,
         Teardown, owner_stops, teardown, await_bye, join_io, stop
<1>2. run_loop \/ beat_acquired \/ await_gives_up \/ run_loop_ends => UNCHANGED Drive
  BY DEF run_loop, beat_acquired, await_gives_up, run_loop_ends
<1>3. \A c \in Callers : drain_discards(c) \/ cancel_returns(c) \/ drain_gives_up(c)
        => UNCHANGED Drive
  BY DEF drain_discards, cancel_returns, drain_gives_up
<1> QED
  BY <1>1, <1>2, <1>3 DEF EdgeNext, RunLoop, Requesting

LEMMA StandstillEdge ==
  StandstillUnlessDriving /\ (EdgeNext \/ UNCHANGED edgeVars) => StandstillUnlessDriving'
<1> SUFFICES ASSUME StandstillUnlessDriving, EdgeNext \/ UNCHANGED edgeVars
             PROVE  StandstillUnlessDriving'
  OBVIOUS
<1> USE DEF StandstillUnlessDriving, Drive
<1>1. CASE UNCHANGED Drive
  BY <1>1
<1>2. CASE tick_executing \/ follow_loop
  BY <1>2 DEF tick_executing, follow_loop
<1>3. CASE tick_obs
  BY <1>3 DEF tick_obs, execution_over
<1>4. CASE await_action
  <2>1. CASE UNCHANGED robotVars
    BY <2>1 DEF robotVars
  <2>2. CASE publish_action(Head(actionQ))
    BY <2>2 DEF publish_action, robot_response
  <2> QED
    BY <1>4, <2>1, <2>2 DEF await_action
<1>5. ASSUME NEW c \in Callers, request_cancel(c) \/ request_reset(c) \/ reset_returns(c)
      PROVE  StandstillUnlessDriving'
  BY <1>5 DEF request_cancel, request_reset, reset_returns, stop_execution
<1>6. CASE UNCHANGED edgeVars
  BY <1>1, <1>6 DEF edgeVars, robotVars
<1> QED
  BY <1>1, <1>2, <1>3, <1>4, <1>5, <1>6, DriveSteps

-----------------------------------------------------------------------------
(* No execution while the loop waits *)

LEMMA WaitingEdge ==
  NoExecutionWhileWaiting /\ (EdgeNext \/ UNCHANGED edgeVars) => NoExecutionWhileWaiting'
<1> SUFFICES ASSUME NoExecutionWhileWaiting, EdgeNext \/ UNCHANGED edgeVars
             PROVE  NoExecutionWhileWaiting'
  OBVIOUS
<1> USE DEF NoExecutionWhileWaiting
<1>1. CASE UNCHANGED <<loop, execution>>
  BY <1>1
<1>2. CASE tick_executing \/ follow_loop
  BY <1>2 DEF tick_executing, follow_loop, loopVars
<1>3. CASE tick_obs
  BY <1>3 DEF tick_obs, execution_over
<1>4. CASE await_action
  BY <1>4 DEF await_action, robotVars
<1>5. ASSUME NEW c \in Callers, request_cancel(c) \/ request_reset(c) \/ reset_returns(c)
      PROVE  NoExecutionWhileWaiting'
  BY <1>5 DEF request_cancel, request_reset, reset_returns, stop_execution, loopVars
<1>6. CASE run_loop \/ beat_acquired \/ await_gives_up \/ run_loop_ends
  BY <1>6 DEF run_loop, beat_acquired, await_gives_up, run_loop_ends
<1>7. ASSUME NEW c \in Callers, drain_discards(c) \/ cancel_returns(c) \/ drain_gives_up(c)
      PROVE  NoExecutionWhileWaiting'
  BY <1>7 DEF drain_discards, cancel_returns, drain_gives_up, loopVars, robotVars
<1>8. CASE Setup \/ IoThread \/ Teardown
  BY <1>8 DEF Setup, setup_start, setup_connected, setup_init_ack, setup_gives_up,
       IoThread, io_data, io_control, io_process_exited, io_stop,
       Teardown, owner_stops, teardown, await_bye, join_io, stop, loopVars, robotVars
<1>9. CASE UNCHANGED edgeVars
  BY <1>9 DEF edgeVars, loopVars, robotVars
<1> QED
  BY <1>2, <1>3, <1>4, <1>5, <1>6, <1>7, <1>8, <1>9 DEF EdgeNext, RunLoop, Requesting

-----------------------------------------------------------------------------
(* The node implements Robot *)

(* The steps that keep the abstract state. *)
LEMMA HiddenSteps ==
  ASSUME Setup \/ IoThread \/ Teardown
  PROVE  UNCHANGED <<loop, driving, execution, cmdVel>>
BY DEF Setup, setup_start, setup_connected, setup_init_ack, setup_gives_up,
       IoThread, io_data, io_control, io_process_exited, io_stop,
       Teardown, owner_stops, teardown, await_bye, join_io, stop, loopVars, robotVars

LEMMA RobotInit == EdgeInit => R!Init
BY DEF EdgeInit, R!Init

(* An action taken from the queue answers, or is stale, or ends the loop.  *)
LEMMA AnswerStep ==
  ASSUME EdgeTypeOK, await_action
  PROVE  R!Next \/ UNCHANGED R!vars
<1>0. loop = "await"
  BY DEF await_action
<1>1. CASE UNCHANGED robotVars /\ UNCHANGED loop
  BY <1>1 DEF robotVars, R!vars
<1>2. CASE UNCHANGED robotVars /\ loop' \in {"crashed", "idle"}
  <2>1. R!Drop
    BY <1>0, <1>2 DEF robotVars, R!Drop
  <2> QED
    BY <2>1 DEF R!Next
<1>3. CASE loop' = "idle" /\ publish_action(Head(actionQ))
  <2>1. driving' = driving
    BY <1>3 DEF publish_action
  <2>2. CASE driving
    <3>1. R!Answer
      BY <1>0, <1>3, <2>1, <2>2 DEF R!Answer
    <3> QED
      BY <3>1 DEF R!Next
  <2>3. CASE ~driving
    <3>1. execution' = execution /\ cmdVel' = "zero"
      BY <1>3, <2>3 DEF publish_action, robot_response
    <3>2. R!Answer
      BY <1>0, <1>3, <2>1, <2>3, <3>1 DEF R!Answer, EdgeTypeOK
    <3> QED
      BY <3>2 DEF R!Next
  <2> QED
    BY <2>2, <2>3 DEF EdgeTypeOK
<1> QED
  BY <1>1, <1>2, <1>3 DEF await_action

LEMMA LoopStep ==
  ASSUME EdgeTypeOK, RunLoop
  PROVE  R!Next \/ UNCHANGED R!vars
<1>1. CASE run_loop \/ beat_acquired
  BY <1>1 DEF run_loop, beat_acquired, LoopRunning, robotVars, R!vars
<1>2. CASE tick_executing \/ follow_loop
  <2>1. R!Follow
    BY <1>2 DEF tick_executing, follow_loop, loopVars, R!Follow
  <2> QED
    BY <2>1 DEF R!Next
<1>3. CASE tick_obs
  <2>1. R!Ask
    BY <1>3 DEF tick_obs, execution_over, R!Ask
  <2> QED
    BY <2>1 DEF R!Next
<1>4. CASE await_action
  BY <1>4, AnswerStep
<1>5. CASE await_gives_up \/ run_loop_ends
  <2>1. R!Drop \/ UNCHANGED R!vars
    BY <1>5 DEF await_gives_up, run_loop_ends, robotVars, R!Drop, R!vars
  <2> QED
    BY <2>1 DEF R!Next
<1> QED
  BY <1>1, <1>2, <1>3, <1>4, <1>5 DEF RunLoop

LEMMA RequestsHalt ==
  ASSUME EdgeTypeOK, NEW c \in Callers,
         request_cancel(c) \/ request_reset(c) \/ drain_discards(c) \/ cancel_returns(c)
           \/ reset_returns(c) \/ drain_gives_up(c)
  PROVE  R!Next \/ UNCHANGED R!vars
<1>1. CASE request_cancel(c) \/ request_reset(c)
  <2>1. R!Halt
    BY <1>1 DEF request_cancel, request_reset, stop_execution, loopVars, R!Halt
  <2> QED
    BY <2>1 DEF R!Next
<1>2. CASE reset_returns(c)
  <2>1. R!Engage
    BY <1>2 DEF reset_returns, loopVars, R!Engage
  <2> QED
    BY <2>1 DEF R!Next
<1>3. CASE drain_discards(c) \/ cancel_returns(c) \/ drain_gives_up(c)
  BY <1>3 DEF drain_discards, cancel_returns, drain_gives_up, loopVars, robotVars, R!vars
<1> QED
  BY <1>1, <1>2, <1>3

LEMMA RobotStep ==
  ASSUME EdgeTypeOK, EdgeNext \/ UNCHANGED edgeVars
  PROVE  R!Next \/ UNCHANGED R!vars
<1>1. CASE Setup \/ IoThread \/ Teardown
  BY <1>1, HiddenSteps DEF R!vars
<1>2. CASE RunLoop
  BY <1>2, LoopStep
<1>3. CASE Requesting
  BY <1>3, RequestsHalt DEF Requesting
<1>4. CASE UNCHANGED edgeVars
  BY <1>4 DEF edgeVars, loopVars, robotVars, R!vars
<1> QED
  BY <1>1, <1>2, <1>3, <1>4 DEF EdgeNext
=============================================================================
