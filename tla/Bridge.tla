------------------------------- MODULE Bridge -------------------------------
(***************************************************************************)
(* The edge node and the planner subprocess joined by the wire.            *)
(***************************************************************************)
EXTENDS EdgeNode, PlannerSDK, FiniteSets

vars == <<wireVars, procVars, edgeVars, sdkVars>>

Init == WireInit /\ ProcInit /\ EdgeInit /\ SdkInit

(* When the edge node ends the process, the SDK inside it ends too. *)
WithSdk(A) ==
  /\ A
  /\ IF proc' = "exited" /\ proc # "exited"
       THEN sdk_exit /\ UNCHANGED <<active, reset>>
       ELSE UNCHANGED sdkVars

EdgeStep == WithSdk(EdgeNext)

SdkStep == SdkNext /\ UNCHANGED edgeVars

Next == EdgeStep \/ SdkStep

Spec == Init /\ [][Next]_vars

-----------------------------------------------------------------------------
(* Fairness.  The event loop runs every callback that stays ready, the I/O *)
(* thread polls both sockets in every round, and the owner that stops      *)
(* cancels its tasks.  Nothing makes the owner call anything, the          *)
(* simulation tick, or a planner crash.                                    *)
EdgeFairness ==
  /\ WF_vars(WithSdk(setup_connected)) /\ WF_vars(WithSdk(setup_init_ack))
  /\ WF_vars(WithSdk(setup_gives_up))
  /\ WF_vars(WithSdk(io_data)) /\ WF_vars(WithSdk(io_control))
  /\ WF_vars(WithSdk(io_process_exited)) /\ WF_vars(WithSdk(io_stop))
  /\ WF_vars(WithSdk(await_action)) /\ WF_vars(WithSdk(await_gives_up))
  /\ \A c \in Callers : /\ WF_vars(WithSdk(drain_discards(c)))
                        /\ WF_vars(WithSdk(cancel_returns(c)))
                        /\ WF_vars(WithSdk(reset_returns(c)))
                        /\ WF_vars(WithSdk(drain_gives_up(c)))
  /\ WF_vars(WithSdk(stage = "stopping" /\ run_loop_ends))
  /\ WF_vars(WithSdk(teardown)) /\ WF_vars(WithSdk(await_bye))
  /\ WF_vars(WithSdk(join_io)) /\ WF_vars(WithSdk(stop))

(* The planner keeps running its loop and its step() returns.  A socket    *)
(* that stays readable is seen by one of the polls.                        *)
SdkFairness ==
  /\ WF_vars(sdk_connect /\ UNCHANGED edgeVars)
  /\ WF_vars(handshake /\ UNCHANGED edgeVars)
  /\ SF_vars(poll /\ "control" \in events' /\ UNCHANGED edgeVars)
  /\ SF_vars(poll /\ "data" \in events' /\ UNCHANGED edgeVars)
  /\ WF_vars(handle_reset /\ UNCHANGED edgeVars)
  /\ WF_vars(handle_cancel /\ UNCHANGED edgeVars)
  /\ WF_vars(handle_shutdown /\ UNCHANGED edgeVars)
  /\ WF_vars(handle_obs /\ UNCHANGED edgeVars)

(* A planner that may stop answering, and one that answers or dies. *)
HangingSpec == Spec /\ EdgeFairness
FairSpec == Spec /\ EdgeFairness /\ SdkFairness

-----------------------------------------------------------------------------
(* Every variable stays in its type. *)
TypeOK == WireTypeOK /\ ProcTypeOK /\ EdgeTypeOK /\ SdkTypeOK

Count(ch, ops) == Cardinality({i \in DOMAIN ch : ch[i].op \in ops})
InFlight == Len(obsCh) + Count(actionCh, {"action"}) + Count(actionQ, {"action"})

(* The loop never skips a tick: each observation is answered before the    *)
(* next is sent, so observations and actions under way never outnumber the *)
(* runs of the loop, whose waits alone can be broken off.  A data pipe     *)
(* therefore never reaches its high-water mark.                            *)
BoundedInFlight ==
  InFlight <= IF loop \in {"acquire", "idle"} THEN runs - 1 ELSE runs

(* A robot is driven only by a planner that is in an episode: with one     *)
(* caller and no deadline, while _driving is set and the planner lives, it *)
(* is active and has handled the reset that set it.                        *)
DrivingImpliesActive ==
  driving /\ proc = "connected" => active /\ reset >= episode

(* A request returns on its own ack: the acks carry no id, so this rests   *)
(* on the order of the pipes and on every request being waited for.        *)
AckAnswersRequest ==
  [][\A c \in Callers :
       waiting[c] # Idle /\ waiting'[c] = Idle /\ ackQ' # ackQ
         => Head(ackQ).n = waiting[c].n]_vars

(* The run loop ends with the died error only for a planner the node has   *)
(* declared dead, and from then on request_cancel and request_reset are    *)
(* refused: no caller starts to wait again.                                *)
DiedLoopRefusesRequests ==
  [][loop = "crashed" =>
       \A c \in Callers : waiting[c] = Idle => waiting'[c] = Idle]_vars

(* Once setup has ended, a planner that neither fails nor crashes is torn  *)
(* down without an error, whatever requests and ticks were cut short and   *)
(* even if it hangs.  (One whose setup was given up reads the Shutdown     *)
(* where it expects the Init, and exits with an error.)                    *)
HealthyTeardown == outcome = "raised" => io = "off"

(* Once a reset returned, the signal read is not one sent before it, and   *)
(* what the robot executes was not computed before it.  The code promises  *)
(* both, in two places; this is the weaker promise that one of them holds. *)
ResetStartsAfresh ==
  (\A c \in Callers : waiting[c].op # "reset")
    => signal \in {0} \cup episode .. requests
         \/ execution \in {0} \cup episode .. requests

-----------------------------------------------------------------------------
(* The run loop never waits for an action for ever: under lockstep the     *)
(* simulation is frozen meanwhile and could not wake it.                   *)
AwaitEnds == loop = "await" ~> loop # "await"

(* Every request comes back to its caller, acknowledged or refused. *)
RequestsReturn == \A c \in Callers : waiting[c] # Idle ~> waiting[c] = Idle

(* A teardown ends, and with it the planner process. *)
TeardownCompletes == stage = "stopping" ~> stage = "down" /\ ~is_alive
=============================================================================
