-------------------------------- MODULE Wire --------------------------------
(***************************************************************************)
(* The frames of bridge/protocol.py and the four one-way channels of       *)
(* bridge/transport.py between the edge node and its planner subprocess.   *)
(* ZMQ keeps the order within one channel and none between two of them.    *)
(*                                                                         *)
(* Data is abstracted to what the properties tell apart.  A request is     *)
(* known by its number: it is the episode_id of a Reset, and a history     *)
(* field of Cancel and of both acks, whose real frames carry no id.  The   *)
(* episode of an Action is the last Reset its planner had handled; the     *)
(* signal of an Action is present or not.                                  *)
(***************************************************************************)
EXTENDS Integers, Sequences

CONSTANTS
  MaxSeq,       \* bound: observations sent in one session
  MaxRequests,  \* bound: cancel and reset requests of one session
  ControlHWM    \* frames a control pipe takes before a send blocks

ASSUME MaxSeqAssumption == MaxSeq \in Nat
ASSUME MaxRequestsAssumption == MaxRequests \in Nat
ASSUME ControlHWMAssumption == ControlHWM \in Nat \ {0}

VARIABLES
  obsCh,      \* edge to planner: Obs
  actionCh,   \* planner to edge: Action and Error
  controlCh,  \* edge to planner: Init, Reset, Cancel, Shutdown
  ctrlAckCh   \* planner to edge: InitAck, the acks, Bye, Heartbeat, Error

wireVars == <<obsCh, actionCh, controlCh, ctrlAckCh>>

RequestId == 0 .. MaxRequests
Seq0 == 0 .. MaxSeq

(* One record set per frame class. *)
ObsFrames == [op : {"obs"}, seq : Seq0]
ActionFrames == [op : {"action"}, seq : Int, go : BOOLEAN, signal : BOOLEAN,
                 episode : RequestId]
ErrorFrames == [op : {"error"}]
GarbageFrames == [op : {"garbage"}]  \* decode_frame raises on these
ControlFrames == [op : {"init", "reset", "cancel", "shutdown"}, n : RequestId]
AckFrames == [op : {"init_ack", "reset_ack", "cancel_ack", "bye", "heartbeat"},
              n : RequestId]

DataIn == ActionFrames \cup ErrorFrames \cup GarbageFrames
ControlIn == AckFrames \cup ErrorFrames \cup GarbageFrames

Obs(s) == [op |-> "obs", seq |-> s]
Action(s, go, sig, e) ==
  [op |-> "action", seq |-> s, go |-> go, signal |-> sig, episode |-> e]
Error == [op |-> "error"]
Garbage == [op |-> "garbage"]
Control(op, n) == [op |-> op, n |-> n]
Ack(op, n) == [op |-> op, n |-> n]

WireTypeOK ==
  /\ obsCh \in Seq(ObsFrames)
  /\ actionCh \in Seq(DataIn)
  /\ controlCh \in Seq(ControlFrames)
  /\ ctrlAckCh \in Seq(ControlIn)

WireInit ==
  /\ obsCh = <<>>
  /\ actionCh = <<>>
  /\ controlCh = <<>>
  /\ ctrlAckCh = <<>>
=============================================================================
