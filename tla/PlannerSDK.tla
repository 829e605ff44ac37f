----------------------------- MODULE PlannerSDK -----------------------------
(***************************************************************************)
(* PlannerSDK of sdk.py: the wire client inside the planner subprocess.    *)
(*                                                                         *)
(* It is single-threaded.  Each round of its loop may emit a heartbeat,    *)
(* polls both incoming sockets once, and then handles at most one control  *)
(* frame before at most one observation.  A frame that arrives after the   *)
(* poll waits for the next round, whatever its priority.                   *)
(***************************************************************************)
EXTENDS PlannerProcess

CONSTANTS
  Heartbeats,    \* heartbeat_period_s > 0
  StepsCanFail,  \* step() or _as_step may raise
  Crashes,       \* the process may die at any point
  MixedVersions  \* the edge may speak another protocol version

ASSUME HeartbeatsAssumption == Heartbeats \in BOOLEAN
ASSUME StepsCanFailAssumption == StepsCanFail \in BOOLEAN
ASSUME CrashesAssumption == Crashes \in BOOLEAN
ASSUME MixedVersionsAssumption == MixedVersions \in BOOLEAN

VARIABLES
  sdk,     \* off, handshake, or run
  events,  \* sockets of this round's poll still to be handled
  active,  \* _active
  reset    \* the episode_id on_reset was last called with, 0 before any

sdkVars == <<sdk, events, active, reset>>

SdkTypeOK ==
  /\ sdk \in {"off", "handshake", "run"}
  /\ events \in SUBSET {"control", "data"}
  /\ active \in BOOLEAN
  /\ reset \in RequestId

SdkInit == sdk = "off" /\ events = {} /\ active = FALSE /\ reset = 0

sdk_exit == sdk' = "off" /\ events' = {}

(* The constructor connects the four sockets. *)
sdk_connect ==
  /\ proc = "spawned"
  /\ proc' = "connected"
  /\ sdk' = "handshake"
  /\ UNCHANGED <<rc, wireVars, events, active, reset>>

(* _handshake: anything but an Init of our version ends the process. *)
handshake ==
  /\ sdk = "handshake"
  /\ controlCh # <<>>
  /\ \/ /\ Head(controlCh).op = "init"
        /\ sdk' = "run"
        /\ ctrlAckCh' = Append(ctrlAckCh, Ack("init_ack", 0))
        /\ controlCh' = Tail(controlCh)
        /\ UNCHANGED <<obsCh, actionCh, procVars, events>>
     \/ /\ Head(controlCh).op = "init" /\ MixedVersions
        /\ Exit("error", actionCh, Append(ctrlAckCh, Error))
        /\ sdk_exit
     \/ /\ Head(controlCh).op # "init"
        /\ Exit("error", actionCh, ctrlAckCh)
        /\ sdk_exit
  /\ UNCHANGED <<active, reset>>

(* The period is real time; one unread heartbeat is enough for the model. *)
emit_heartbeat ==
  /\ sdk = "run" /\ events = {}
  /\ Heartbeats
  /\ \A i \in 1 .. Len(ctrlAckCh) : ctrlAckCh[i].op # "heartbeat"
  /\ ctrlAckCh' = Append(ctrlAckCh, Ack("heartbeat", 0))
  /\ UNCHANGED <<obsCh, actionCh, controlCh, procVars, sdkVars>>

(* One poll; a frame still under way on its own socket may be missed. *)
poll ==
  /\ sdk = "run" /\ events = {}
  /\ \E ready \in (SUBSET {"control", "data"}) \ {{}} :
       /\ "control" \in ready => controlCh # <<>>
       /\ "data" \in ready => obsCh # <<>>
       /\ events' = ready
  /\ UNCHANGED <<wireVars, procVars, sdk, active, reset>>

handle_reset ==
  /\ "control" \in events /\ controlCh # <<>>
  /\ Head(controlCh).op = "reset"
  /\ reset' = Head(controlCh).n
  /\ active' = TRUE
  /\ ctrlAckCh' = Append(ctrlAckCh, Ack("reset_ack", Head(controlCh).n))
  /\ controlCh' = Tail(controlCh)
  /\ events' = events \ {"control"}
  /\ UNCHANGED <<obsCh, actionCh, procVars, sdk>>

handle_cancel ==
  /\ "control" \in events /\ controlCh # <<>>
  /\ Head(controlCh).op = "cancel"
  /\ active' = FALSE
  /\ ctrlAckCh' = Append(ctrlAckCh, Ack("cancel_ack", Head(controlCh).n))
  /\ controlCh' = Tail(controlCh)
  /\ events' = events \ {"control"}
  /\ UNCHANGED <<obsCh, actionCh, procVars, sdk, reset>>

handle_shutdown ==
  /\ "control" \in events /\ controlCh # <<>>
  /\ Head(controlCh).op = "shutdown"
  /\ Exit("zero", actionCh, Append(ctrlAckCh, Ack("bye", 0)))
  /\ sdk_exit
  /\ UNCHANGED <<active, reset>>

(* _handle_obs: standstill while inactive, else what step() returned, or   *)
(* an Error and the end of the process when it raised.                     *)
handle_obs ==
  /\ "data" \in events /\ "control" \notin events /\ obsCh # <<>>
  /\ \/ \E go, sig \in BOOLEAN :
          /\ go \/ sig => active
          /\ actionCh' = Append(actionCh, Action(Head(obsCh).seq, go, sig, reset))
          /\ obsCh' = Tail(obsCh)
          /\ events' = events \ {"data"}
          /\ UNCHANGED <<controlCh, ctrlAckCh, procVars, sdk>>
     \/ /\ active /\ StepsCanFail
        /\ Exit("error", Append(actionCh, Error), ctrlAckCh)
        /\ sdk_exit
  /\ UNCHANGED <<active, reset>>

(* The process dies for a reason of its own: a segfault, the OOM killer,   *)
(* an exception in a callback.                                             *)
crash ==
  /\ Crashes
  /\ is_alive
  /\ \E code \in {"error", "kill"} : Exit(code, actionCh, ctrlAckCh)
  /\ sdk_exit
  /\ UNCHANGED <<active, reset>>

SdkNext == \/ sdk_connect \/ handshake \/ emit_heartbeat \/ poll \/ handle_reset
           \/ handle_cancel \/ handle_shutdown \/ handle_obs \/ crash
=============================================================================
