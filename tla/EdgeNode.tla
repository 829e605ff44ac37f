------------------------------ MODULE EdgeNode ------------------------------
(***************************************************************************)
(* PlannerEdgeNode of bridge/edge_node.py: the edge side of the bridge.    *)
(*                                                                         *)
(* Three activities share the node.  Everything on the asyncio event loop  *)
(* (setup, teardown, run_loop, the follow loop, request_cancel and         *)
(* request_reset) runs from one await to the next without interruption, so *)
(* each such stretch is one action.  The I/O thread moves frames from the  *)
(* two incoming sockets to the two queues; its polls may miss a frame that *)
(* is still under way, so its three branches are independent actions.      *)
(***************************************************************************)
EXTENDS PlannerProcess

CONSTANTS
  Callers,     \* tasks that call request_cancel and request_reset
  ActionType,  \* "velocity", "discrete" or "chunk"
  Deadline,    \* deadline_s > 0: a wait on the planner may give up
  MaxRuns      \* bound: how often the owner may enter run_loop

ASSUME ActionTypeAssumption == ActionType \in {"velocity", "discrete", "chunk"}
ASSUME DeadlineAssumption == Deadline \in BOOLEAN
ASSUME MaxRunsAssumption == MaxRuns \in Nat

VARIABLES
  stage,      \* lifecycle of the node: setup, ready, teardown
  outcome,    \* how teardown ended
  io,         \* the I/O thread
  dead,       \* _dead is set
  actionQ,    \* _action_queue: actions, and the died error
  ackQ,       \* _ack_queue
  loop,       \* where run_loop stands
  runs,       \* times run_loop was entered
  seq,        \* _seq
  driving,    \* _driving
  execution,  \* _execution: 0 = None, else the episode of its Action
  cmdVel,     \* last twist published: zero or moving
  signal,     \* _signal: 0 = empty, else the episode it was sent in
  requests,   \* requests made so far, the number of the latest
  waiting,    \* per caller, the request whose ack it waits for
  episode     \* history: number of the last reset that returned

lifeVars == <<stage, outcome>>
ioVars == <<io, dead, actionQ, ackQ>>
loopVars == <<loop, runs, seq>>
robotVars == <<driving, execution, cmdVel, signal>>
callVars == <<requests, waiting, episode>>
edgeVars == <<lifeVars, ioVars, loopVars, robotVars, callVars>>

Idle == [op |-> "none", n |-> 0]
Died == [op |-> "died"]
Requests == [op : {"none", "cancel", "reset"}, n : RequestId]

EdgeTypeOK ==
  /\ stage \in {"new", "connecting", "init_ack", "ready", "failed",
                "stopping", "bye", "closing", "joined", "down"}
  /\ outcome \in {"none", "ok", "raised"}
  /\ io \in {"off", "running", "stopped"}
  /\ dead \in BOOLEAN
  /\ actionQ \in Seq(ActionFrames \cup {Died})
  /\ ackQ \in Seq(AckFrames \cup ErrorFrames)
  /\ loop \in {"off", "acquire", "idle", "await", "ended", "crashed"}
  /\ runs \in Nat
  /\ seq \in Seq0
  /\ driving \in BOOLEAN
  /\ execution \in RequestId
  /\ cmdVel \in {"zero", "moving"}
  /\ signal \in RequestId
  /\ requests \in RequestId
  /\ waiting \in [Callers -> Requests]
  /\ episode \in RequestId

EdgeInit ==
  /\ stage = "new" /\ outcome = "none"
  /\ io = "off" /\ dead = FALSE /\ actionQ = <<>> /\ ackQ = <<>>
  /\ loop = "off" /\ runs = 0 /\ seq = 0
  /\ driving = FALSE /\ execution = 0 /\ cmdVel = "zero" /\ signal = 0
  /\ requests = 0 /\ waiting = [c \in Callers |-> Idle] /\ episode = 0

(* When a wait on the planner that timed out raises instead of waiting on: *)
(* the planner is dead, or _Patience.check finds the deadline passed.      *)
WaitIgnoringDeadline == dead  \* mutant
WaitIgnoringDeath == Deadline  \* mutant
WaitWithoutPatience == TRUE  \* mutant
patience_over == dead \/ Deadline

LoopRunning == loop \in {"acquire", "idle", "await"}

(* _mark_dead: the first reason wins and wakes the run loop.               *)
mark_dead ==
  /\ dead' = TRUE
  /\ actionQ' = IF dead THEN actionQ ELSE Append(actionQ, Died)

-----------------------------------------------------------------------------
(* Setup *)

setup_start ==
  /\ stage = "new"
  /\ start
  /\ stage' = "connecting"
  /\ UNCHANGED <<outcome, wireVars, ioVars, loopVars, robotVars, callVars>>

(* control_push became writable: send Init, or lose the peer meanwhile.    *)
setup_connected ==
  /\ stage = "connecting"
  /\ proc = "connected"
  /\ controlCh' = Append(controlCh, Control("init", 0))
  /\ stage' = "init_ack"
  /\ UNCHANGED <<obsCh, actionCh, ctrlAckCh, procVars, outcome,
                 ioVars, loopVars, robotVars, callVars>>

(* The first control frame ends the handshake; only then may the I/O       *)
(* thread own the socket.                                                  *)
setup_init_ack ==
  /\ stage = "init_ack"
  /\ ctrlAckCh # <<>>
  /\ ctrlAckCh' = Tail(ctrlAckCh)
  /\ IF Head(ctrlAckCh).op = "init_ack"
       THEN stage' = "ready" /\ io' = "running"
       ELSE stage' = "failed" /\ UNCHANGED io
  /\ UNCHANGED <<obsCh, actionCh, controlCh, procVars, outcome, dead, actionQ,
                 ackQ, loopVars, robotVars, callVars>>

(* A process that ended, or a deadline, makes setup raise.                 *)
setup_gives_up ==
  /\ stage \in {"connecting", "init_ack"}
  /\ proc = "exited" \/ Deadline
  /\ stage' = "failed"
  /\ UNCHANGED <<outcome, wireVars, procVars, ioVars, loopVars, robotVars, callVars>>

-----------------------------------------------------------------------------
(* The I/O thread *)

RouteEverything(frame) ==  \* mutant
  actionQ' = Append(actionQ, frame) /\ UNCHANGED dead

route_data(frame) ==
  \/ frame.op = "action" /\ actionQ' = Append(actionQ, frame) /\ UNCHANGED dead
  \/ frame.op = "error" /\ mark_dead
  \/ frame.op = "garbage" /\ UNCHANGED <<dead, actionQ>>

io_data ==
  /\ io = "running"
  /\ actionCh # <<>>
  /\ actionCh' = Tail(actionCh)
  /\ route_data(Head(actionCh))
  /\ UNCHANGED <<obsCh, controlCh, ctrlAckCh, procVars, lifeVars, io, ackQ,
                 loopVars, robotVars, callVars>>

io_control ==
  /\ io = "running"
  /\ ctrlAckCh # <<>>
  /\ ctrlAckCh' = Tail(ctrlAckCh)
  /\ ackQ' = IF Head(ctrlAckCh).op \in {"heartbeat", "garbage"}
               THEN ackQ ELSE Append(ackQ, Head(ctrlAckCh))
  /\ UNCHANGED <<obsCh, actionCh, controlCh, procVars, lifeVars, io, dead, actionQ,
                 loopVars, robotVars, callVars>>

ExitUnnoticed ==  \* mutant
  /\ io = "running" /\ ~is_alive /\ io' = "stopped"
  /\ UNCHANGED <<wireVars, procVars, lifeVars, dead, actionQ, ackQ, loopVars,
                 robotVars, callVars>>

(* The thread stops on the dead process it finds; frames it has not read   *)
(* by then are never read.                                                 *)
io_process_exited ==
  /\ io = "running"
  /\ ~is_alive
  /\ mark_dead
  /\ io' = "stopped"
  /\ UNCHANGED <<wireVars, procVars, lifeVars, ackQ, loopVars, robotVars, callVars>>

io_stop ==
  /\ io = "running"
  /\ stage = "closing"
  /\ io' = "stopped"
  /\ UNCHANGED <<wireVars, procVars, lifeVars, dead, actionQ, ackQ,
                 loopVars, robotVars, callVars>>

-----------------------------------------------------------------------------
(* Driving the robot *)

(* _advance_execution for the execution e: the value is a set of outcomes, *)
(* since when a move or chunk ends depends on the pose and the clock.      *)
(* Only a chunk that ends by itself keeps the last twist.                  *)
advance_execution(e) ==
  {[execution |-> e, cmdVel |-> v] : v \in {"zero", "moving"}}
    \cup {[execution |-> 0, cmdVel |-> "zero"]}
    \cup (IF ActionType = "chunk" THEN {[execution |-> 0, cmdVel |-> cmdVel]} ELSE {})

(* _start_move and _start_chunk: hold still for an empty or unusable one.  *)
start_execution(frame) ==
  {[execution |-> execution, cmdVel |-> "zero"]}
    \cup (IF frame.go THEN advance_execution(frame.episode) ELSE {})

(* A velocity twist, or nothing when the vector or the pose is unusable.   *)
velocity_twist(frame) ==
  {[execution |-> execution, cmdVel |-> IF frame.go THEN "moving" ELSE "zero"],
   [execution |-> execution, cmdVel |-> cmdVel]}

follow_action(frame) ==
  IF ActionType = "velocity" THEN velocity_twist(frame) ELSE start_execution(frame)

FollowAlways(frame) == follow_action(frame)  \* mutant
robot_response(frame) ==
  IF driving THEN follow_action(frame) ELSE {[execution |-> execution, cmdVel |-> "zero"]}

publish_action(frame) ==
  /\ signal' = IF frame.signal THEN frame.episode ELSE signal
  /\ \E r \in robot_response(frame) : execution' = r.execution /\ cmdVel' = r.cmdVel
  /\ UNCHANGED driving

DropExecution == execution' = 0 /\ UNCHANGED cmdVel  \* mutant
stop_execution ==
  /\ execution' = 0
  /\ cmdVel' = "zero"

-----------------------------------------------------------------------------
(* run_loop and the follow loop *)

run_loop ==
  /\ stage = "ready"
  /\ ~LoopRunning
  /\ runs < MaxRuns
  /\ runs' = runs + 1
  /\ loop' = "acquire"
  /\ UNCHANGED <<wireVars, procVars, lifeVars, ioVars, seq, robotVars, callVars>>

beat_acquired ==
  /\ loop = "acquire"
  /\ loop' = "idle"
  /\ UNCHANGED <<wireVars, procVars, lifeVars, ioVars, runs, seq, robotVars, callVars>>

(* A tick during a move or chunk that goes on: no observation, the beat is *)
(* pulsed at once.  The follow loop does the same between ticks, and may   *)
(* also be the one that ends it.                                           *)
tick_executing ==
  /\ loop = "idle"
  /\ execution # 0
  /\ \E r \in advance_execution(execution) :
       r.execution # 0 /\ execution' = r.execution /\ cmdVel' = r.cmdVel
  /\ UNCHANGED <<wireVars, procVars, lifeVars, ioVars, loopVars, driving, signal, callVars>>

follow_loop ==
  /\ LoopRunning
  /\ execution # 0
  /\ \E r \in advance_execution(execution) :
       execution' = r.execution /\ cmdVel' = r.cmdVel
  /\ UNCHANGED <<wireVars, procVars, lifeVars, ioVars, loopVars, driving, signal, callVars>>

ExecutionIgnored == UNCHANGED <<execution, cmdVel>>  \* mutant
execution_over ==
  \/ execution = 0 /\ UNCHANGED <<execution, cmdVel>>
  \/ /\ execution # 0
     /\ \E r \in advance_execution(execution) :
          r.execution = 0 /\ execution' = r.execution /\ cmdVel' = r.cmdVel

(* A tick with nothing to execute, or one that ends the execution: send    *)
(* the observation and wait.  A failed send is noted, the wait starts.     *)
tick_obs ==
  /\ loop = "idle"
  /\ seq < MaxSeq
  /\ execution_over
  /\ seq' = seq + 1
  /\ loop' = "await"
  /\ \/ /\ CanSend
        /\ obsCh' = Delivered(obsCh, Obs(seq + 1))
        /\ UNCHANGED <<dead, actionQ>>
     \/ /\ proc # "connected"
        /\ mark_dead
        /\ UNCHANGED obsCh
  /\ UNCHANGED <<actionCh, controlCh, ctrlAckCh, procVars, lifeVars, io, ackQ,
                 runs, driving, signal, callVars>>

NothingStale(frame) == FALSE  \* mutant
stale(frame) == frame.seq < seq

(* _await_action takes one frame from the queue: the died error ends the   *)
(* loop, a stale action is dropped, and any other ends the tick.           *)
await_action ==
  /\ loop = "await"
  /\ actionQ # <<>>
  /\ actionQ' = Tail(actionQ)
  /\ LET frame == Head(actionQ) IN
       \/ frame.op = "died" /\ loop' = "crashed" /\ UNCHANGED robotVars
       \/ frame.op = "action" /\ stale(frame) /\ UNCHANGED <<loop, robotVars>>
       \/ /\ frame.op = "action" /\ ~stale(frame)
          /\ loop' = "idle"
          /\ IF frame.seq > seq THEN UNCHANGED robotVars ELSE publish_action(frame)
  /\ UNCHANGED <<wireVars, procVars, lifeVars, io, dead, ackQ, runs, seq, callVars>>

SkipTick ==  \* mutant
  /\ loop = "await" /\ loop' = "idle"
  /\ UNCHANGED <<wireVars, procVars, lifeVars, ioVars, runs, seq, robotVars, callVars>>

await_gives_up ==
  /\ loop = "await"
  /\ patience_over
  /\ loop' = "crashed"
  /\ UNCHANGED <<wireVars, procVars, lifeVars, ioVars, runs, seq, robotVars, callVars>>

(* The owner's done event, or the cancellation of the task at an await.    *)
run_loop_ends ==
  /\ LoopRunning
  /\ loop' = "ended"
  /\ UNCHANGED <<wireVars, procVars, lifeVars, ioVars, runs, seq, robotVars, callVars>>

-----------------------------------------------------------------------------
(* request_cancel and request_reset *)

NeverRefused == FALSE  \* mutant
refused == dead

(* _send_control: refused once dead, and a failed send is the planner's    *)
(* death.  A caller whose send raised is idle again.                       *)
send_control(c, op) ==
  /\ requests' = requests + 1
  /\ \/ /\ refused
        /\ UNCHANGED <<controlCh, dead, actionQ, waiting>>
     \/ /\ ~refused /\ CanSend
        /\ controlCh' = Delivered(controlCh, Control(op, requests + 1))
        /\ waiting' = [waiting EXCEPT ![c] = [op |-> op, n |-> requests + 1]]
        /\ UNCHANGED <<dead, actionQ>>
     \/ /\ ~refused /\ CanFailToSend(controlCh, ControlHWM)
        /\ mark_dead
        /\ UNCHANGED <<controlCh, waiting>>

request_cancel(c) ==
  /\ stage = "ready" /\ requests < MaxRequests /\ waiting[c] = Idle
  /\ driving' = FALSE
  /\ stop_execution
  /\ send_control(c, "cancel")
  /\ UNCHANGED <<obsCh, actionCh, ctrlAckCh, procVars, lifeVars, io, ackQ,
                 loopVars, signal, episode>>

DriveAtOnce(c) ==  \* mutant
  /\ stage = "ready" /\ requests < MaxRequests /\ waiting[c] = Idle
  /\ driving' = TRUE
  /\ stop_execution
  /\ send_control(c, "reset")
  /\ UNCHANGED <<obsCh, actionCh, ctrlAckCh, procVars, lifeVars, io, ackQ,
                 loopVars, signal, episode>>

request_reset(c) ==
  /\ stage = "ready" /\ requests < MaxRequests /\ waiting[c] = Idle
  /\ stop_execution
  /\ send_control(c, "reset")
  /\ UNCHANGED <<obsCh, actionCh, ctrlAckCh, procVars, lifeVars, io, ackQ,
                 loopVars, driving, signal, episode>>

(* _drain_until takes one frame from the queue: anything but the ack it    *)
(* waits for is discarded.                                                 *)
drain_discards(c) ==
  /\ waiting[c] # Idle
  /\ ackQ # <<>>
  /\ \/ waiting[c].op = "cancel" /\ Head(ackQ).op # "cancel_ack"
     \/ waiting[c].op = "reset" /\ Head(ackQ).op # "reset_ack"
  /\ ackQ' = Tail(ackQ)
  /\ UNCHANGED <<wireVars, procVars, lifeVars, io, dead, actionQ, loopVars,
                 robotVars, callVars>>

cancel_returns(c) ==
  /\ waiting[c].op = "cancel"
  /\ ackQ # <<>> /\ Head(ackQ).op = "cancel_ack"
  /\ ackQ' = Tail(ackQ)
  /\ waiting' = [waiting EXCEPT ![c] = Idle]
  /\ UNCHANGED <<wireVars, procVars, lifeVars, io, dead, actionQ, loopVars,
                 robotVars, requests, episode>>

reset_returns(c) ==
  /\ waiting[c].op = "reset"
  /\ ackQ # <<>> /\ Head(ackQ).op = "reset_ack"
  /\ ackQ' = Tail(ackQ)
  /\ waiting' = [waiting EXCEPT ![c] = Idle]
  /\ episode' = waiting[c].n
  /\ signal' = 0
  /\ driving' = TRUE
  /\ UNCHANGED <<wireVars, procVars, lifeVars, io, dead, actionQ, loopVars,
                 execution, cmdVel, requests>>

(* The wait timed out on a dead planner or past the deadline (_dead is     *)
(* left as it is), or the owner cancels the waiting task before teardown.  *)
drain_gives_up(c) ==
  /\ waiting[c] # Idle
  /\ patience_over \/ stage = "stopping"
  /\ waiting' = [waiting EXCEPT ![c] = Idle]
  /\ UNCHANGED <<wireVars, procVars, lifeVars, ioVars, loopVars, robotVars,
                 requests, episode>>

-----------------------------------------------------------------------------
(* Teardown *)

(* The owner decides to stop: no new request and no new run of the loop,   *)
(* and teardown is called once the running tasks are gone.                 *)
owner_stops ==
  /\ stage \in {"ready", "failed"}
  /\ stage' = "stopping"
  /\ UNCHANGED <<outcome, wireVars, procVars, ioVars, loopVars, robotVars, callVars>>

TasksGone == ~LoopRunning /\ \A c \in Callers : waiting[c] = Idle

(* Ask for a clean exit unless the planner is known to be dead.            *)
teardown ==
  /\ stage = "stopping"
  /\ TasksGone
  /\ \/ /\ ~dead /\ CanSend
        /\ controlCh' = Delivered(controlCh, Control("shutdown", 0))
        /\ stage' = "bye"
     \/ /\ dead \/ CanFailToSend(controlCh, ControlHWM)
        /\ stage' = "closing"
        /\ UNCHANGED controlCh
  /\ UNCHANGED <<obsCh, actionCh, ctrlAckCh, procVars, outcome, ioVars, loopVars,
                 robotVars, callVars>>

ByeForEver ==  \* mutant
  /\ stage = "bye" /\ stage' = "closing"
  /\ io = "running" /\ ackQ # <<>> /\ ackQ' = Tail(ackQ)
  /\ UNCHANGED <<wireVars, procVars, outcome, io, dead, actionQ, loopVars,
                 robotVars, callVars>>

(* _await_bye takes the first frame there is, or gives up after a while.   *)
(* Without an I/O thread it reads the socket itself.                       *)
await_bye ==
  /\ stage = "bye"
  /\ stage' = "closing"
  /\ \/ io = "running" /\ ackQ # <<>> /\ ackQ' = Tail(ackQ) /\ UNCHANGED ctrlAckCh
     \/ io # "running" /\ ctrlAckCh # <<>> /\ ctrlAckCh' = Tail(ctrlAckCh) /\ UNCHANGED ackQ
     \/ UNCHANGED <<ackQ, ctrlAckCh>>
  /\ UNCHANGED <<obsCh, actionCh, controlCh, procVars, outcome, io, dead, actionQ,
                 loopVars, robotVars, callVars>>

join_io ==
  /\ stage = "closing"
  /\ io # "running"
  /\ stage' = "joined"
  /\ UNCHANGED <<outcome, wireVars, procVars, ioVars, loopVars, robotVars, callVars>>

(* PlannerProcess.stop terminates, then kills; the return code decides how *)
(* teardown ends.                                                          *)
OnlyZeroIsClean == {"none", "zero"}  \* mutant
CleanCodes == {"none", "zero", "term", "kill"}

stop ==
  /\ stage = "joined"
  /\ stage' = "down"
  /\ IF is_alive
       THEN \E code \in {"term", "kill"} : Exit(code, actionCh, ctrlAckCh)
       ELSE UNCHANGED <<procVars, wireVars>>
  /\ outcome' = IF rc' \in CleanCodes THEN "ok" ELSE "raised"
  /\ UNCHANGED <<ioVars, loopVars, robotVars, callVars>>

-----------------------------------------------------------------------------
Setup == setup_start \/ setup_connected \/ setup_init_ack \/ setup_gives_up
IoThread == io_data \/ io_control \/ io_process_exited \/ io_stop
RunLoop == \/ run_loop \/ beat_acquired \/ tick_executing \/ follow_loop
           \/ tick_obs \/ await_action \/ await_gives_up \/ run_loop_ends
Requesting ==
  \E c \in Callers : \/ request_cancel(c) \/ request_reset(c) \/ drain_discards(c)
                     \/ cancel_returns(c) \/ reset_returns(c) \/ drain_gives_up(c)
Teardown == owner_stops \/ teardown \/ await_bye \/ join_io \/ stop

EdgeNext == Setup \/ IoThread \/ RunLoop \/ Requesting \/ Teardown

-----------------------------------------------------------------------------
(* From a request_cancel until a reset returns, nothing drives the robot:  *)
(* no move or chunk is in progress and the last twist is zero, whatever    *)
(* actions were in flight when the cancel was made.                        *)
StandstillUnlessDriving == ~driving => execution = 0 /\ cmdVel = "zero"

(* The planner is asked only between executions: while the run loop waits  *)
(* for an action no move or chunk is in progress, so the follow loop       *)
(* cannot move the robot behind the planner's back.                        *)
NoExecutionWhileWaiting == loop = "await" => execution = 0

(* The node implements what it promises about the robot: seen from         *)
(* outside, callers, run loop, follow loop, I/O thread and planner do no   *)
(* more than engage, ask, follow and halt it.                              *)
R == INSTANCE Robot WITH
       engaged <- driving, asking <- loop = "await",
       executing <- execution # 0, moving <- cmdVel = "moving"
RobotPromise == R!Spec
=============================================================================
