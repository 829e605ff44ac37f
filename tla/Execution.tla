----------------------------- MODULE Execution ------------------------------
(***************************************************************************)
(* When a move (bridge/discrete.py) or chunk (bridge/chunk.py) goes on and *)
(* when it ends, as the run loop and the follow loop of the edge node      *)
(* advance it.  EdgeNode takes the outcomes of advance_execution as a      *)
(* choice; here they follow from the clock and the pose.                   *)
(*                                                                         *)
(* Time is simulated time in physics steps.  The code computes with        *)
(* floats: a time it reads or stores is off by a rounding error, which is  *)
(* a choice of -1, 0 or 1 in units of which a step has Scale and the       *)
(* tolerance _TIME_EPS_S has 3.  Geometry is reduced to how far the target *)
(* is, which a blocked robot does not change.                              *)
(***************************************************************************)
EXTENDS Integers

CONSTANTS
  FollowEvery,  \* follow tick, in steps
  PlanEvery,    \* planner tick, in steps
  Dt,           \* chunk.dt, in steps
  ExecuteFor,   \* chunk.execute_s, in steps
  MaxLen,       \* bound: entries of a velocity chunk
  MaxNominal,   \* bound: nominal duration of a move, in steps
  Slack,        \* _TIMEOUT_SLACK_S, in steps
  MaxTime       \* bound: simulated time

Positive == Nat \ {0}
ASSUME TicksAssumption == FollowEvery \in Positive /\ PlanEvery \in Positive /\ FollowEvery <= PlanEvery
ASSUME ChunkAssumption == Dt \in Positive /\ ExecuteFor \in Positive
ASSUME BoundsAssumption == MaxLen \in Nat /\ MaxNominal \in Nat /\ Slack \in Positive /\ MaxTime \in Nat

VARIABLES
  now,        \* simulated time
  due,        \* loops that have an unhandled tick
  driving,    \* _driving
  asking,     \* the run loop waits for an action
  execution,  \* _execution
  left,       \* steps of driving left to the target
  cmd,        \* last twist: Zero, Go, or the entry of a velocity chunk
  seen        \* history: when the move or chunk in progress was last advanced

vars == <<now, due, driving, asking, execution, left, cmd, seen>>

Scale == 8
TIME_EPS == 3
Rounding == {-1, 0, 1}
ReadTime == {Scale * now + e : e \in Rounding}

Zero == -2
Go == -1
(* len: entries of a velocity chunk, nominal duration of a move *)
None == [kind |-> "none", start |-> 0, t0 |-> 0, len |-> 0, end |-> 0, deadline |-> 0]

(* A tick that falls due while an earlier one of its loop is unhandled     *)
(* merges with it.                                                         *)
Loops(t) == {l \in {"follow", "plan"} : t % (IF l = "plan" THEN PlanEvery ELSE FollowEvery) = 0}

TypeOK ==
  /\ now \in 0 .. MaxTime
  /\ due \subseteq {"follow", "plan"}
  /\ driving \in BOOLEAN /\ asking \in BOOLEAN
  /\ execution = None \/ execution.kind \in {"move", "waypoints", "velocity_chunk"}
  /\ left \in Nat
  /\ cmd \in {Zero, Go} \cup (0 .. MaxLen - 1)
  /\ (cmd >= 0 /\ execution # None) => cmd < execution.len
  /\ seen \in 0 .. MaxTime

Init ==
  /\ now = 0 /\ due = {}
  /\ driving = FALSE /\ asking = FALSE
  /\ execution = None /\ left = 0 /\ cmd = Zero /\ seen = 0

-----------------------------------------------------------------------------
(* step_move and step_chunk: a twist, or done, or done by timeout.  The    *)
(* pose may be unknown, which reads as a target that is not reached.       *)

Twist(c) == [done |-> FALSE, timed_out |-> FALSE, cmd |-> c]
Done == [done |-> TRUE, timed_out |-> FALSE, cmd |-> Zero]
TimedOut == [done |-> TRUE, timed_out |-> TRUE, cmd |-> Zero]

LostPoseEnds(pose_known, distance) ==  \* mutant
  IF ~pose_known \/ distance = 0 THEN Done ELSE Twist(Go)
track(pose_known, distance) ==
  IF ~pose_known THEN Twist(Zero) ELSE IF distance = 0 THEN Done ELSE Twist(Go)

step_move(x, t, tracked) ==
  IF ~tracked.done /\ t > x.deadline THEN TimedOut ELSE tracked

(* Python's // rounds down, as \div does. *)
IndexWithoutEps(x, t) == IF t < x.t0 THEN 0 ELSE (t - x.t0) \div (Scale * Dt)  \* mutant
entry_index(x, t) ==
  LET index == (t - x.t0 + TIME_EPS) \div (Scale * Dt) IN IF index < 0 THEN 0 ELSE index

HorizonWithoutEps(x, t) == t >= x.end  \* mutant
past_horizon(x, t) == t + TIME_EPS >= x.end

step_velocity_chunk(x, t) ==
  IF past_horizon(x, t) \/ entry_index(x, t) >= x.len THEN Done ELSE Twist(entry_index(x, t))

step_waypoints(x, t, tracked) ==
  IF tracked.done THEN Done
  ELSE IF t > x.deadline THEN TimedOut
  ELSE IF past_horizon(x, t) THEN Done ELSE tracked

step(x, t, tracked) ==
  CASE x.kind = "move" -> step_move(x, t, tracked)
    [] x.kind = "waypoints" -> step_waypoints(x, t, tracked)
    [] x.kind = "velocity_chunk" -> step_velocity_chunk(x, t)

(* _advance_execution: only a chunk that ends in time keeps its last twist.*)
KeepAlways(x, s) == s.done  \* mutant
keeps_last_twist(x, s) == s.done /\ ~s.timed_out /\ x.kind # "move"

advance_execution(x, t, tracked) ==
  LET s == step(x, t, tracked) IN
    /\ execution' = IF s.done THEN None ELSE x
    /\ cmd' = IF keeps_last_twist(x, s) THEN cmd ELSE s.cmd
    /\ seen' = now

(* What both loops do at a tick: nothing without a move or chunk. *)
advance_at_tick ==
  IF execution = None
    THEN UNCHANGED <<execution, cmd, seen>>
    ELSE \E t \in ReadTime, pose_known \in BOOLEAN :
           advance_execution(execution, t, track(pose_known, left))

-----------------------------------------------------------------------------
(* start_move and start_chunk at time t *)

move(t, nominal) ==
  [kind |-> "move", start |-> now, t0 |-> t, len |-> nominal, end |-> 0,
   deadline |-> t + Scale * (3 * nominal + Slack)]

waypoints(t, e) ==
  [kind |-> "waypoints", start |-> now, t0 |-> t, len |-> 0,
   end |-> t + Scale * ExecuteFor + e,
   deadline |-> t + Scale * (3 * ExecuteFor + Slack)]

velocity_chunk(t, e, len) ==
  [kind |-> "velocity_chunk", start |-> now, t0 |-> t, len |-> len,
   end |-> t + Scale * ExecuteFor + e, deadline |-> 0]

startable(t, distance) ==
  {move(t, distance)}
    \cup {waypoints(t, e) : e \in Rounding}
    \cup {velocity_chunk(t, e, len) : e \in Rounding, len \in 1 .. MaxLen}

(* _publish_action: an action starts a move or chunk, whose first tick     *)
(* uses the pose of the observation, or holds still.                       *)
publish_action ==
  \/ /\ driving
     /\ \E t \in ReadTime, distance \in 0 .. MaxNominal :
          \E x \in startable(t, distance) :
            advance_execution(x, t, track(TRUE, distance)) /\ left' = distance
  \/ cmd' = Zero /\ UNCHANGED <<execution, left, seen>>

-----------------------------------------------------------------------------
(* Time passes, also while the planner computes (without lockstep); what   *)
(* drives moves the robot unless it is blocked.                            *)
time_passes ==
  /\ now < MaxTime
  /\ now' = now + 1
  /\ due' = due \cup Loops(now')
  /\ left' \in IF cmd = Go /\ left > 0 THEN {left, left - 1} ELSE {left}
  /\ UNCHANGED <<driving, asking, execution, cmd, seen>>

(* A planner tick goes on with the execution or, when there is none or it  *)
(* ends, asks the planner.                                                 *)
tick_plan ==
  /\ "plan" \in due /\ ~asking
  /\ due' = due \ {"plan"}
  /\ advance_at_tick
  /\ asking' = (execution' = None)
  /\ UNCHANGED <<now, driving, left>>

FollowIdle ==  \* mutant
  /\ "follow" \in due
  /\ due' = due \ {"follow"}
  /\ UNCHANGED <<now, driving, asking, execution, left, cmd, seen>>
tick_follow ==
  /\ "follow" \in due
  /\ due' = due \ {"follow"}
  /\ advance_at_tick
  /\ UNCHANGED <<now, driving, asking, left>>

answer ==
  /\ asking
  /\ asking' = FALSE
  /\ publish_action
  /\ UNCHANGED <<now, due, driving>>

(* request_cancel, request_reset and the return of the latter. *)
DropExecution ==  \* mutant
  /\ driving' \in {driving, FALSE}
  /\ execution' = None
  /\ UNCHANGED <<now, due, asking, left, cmd, seen>>
stop_execution ==
  /\ driving' \in {driving, FALSE}
  /\ execution' = None /\ cmd' = Zero
  /\ UNCHANGED <<now, due, asking, left, seen>>

reset_returns ==
  /\ driving' = TRUE
  /\ UNCHANGED <<now, due, asking, execution, left, cmd, seen>>

Next == time_passes \/ tick_plan \/ tick_follow \/ answer \/ stop_execution \/ reset_returns

Spec == Init /\ [][Next]_vars

-----------------------------------------------------------------------------
(* Steps after which a move or chunk is over by the clock. *)
Horizon(x) ==
  CASE x.kind = "move" -> 3 * x.len + Slack
    [] x.kind = "waypoints" -> ExecuteFor
    [] x.kind = "velocity_chunk" -> IF x.len * Dt < ExecuteFor THEN x.len * Dt ELSE ExecuteFor

(* In a velocity chunk the twist driven is the entry whose turn it was     *)
(* when a loop last looked, at step_chunk's index: rounding of the clock   *)
(* neither repeats an entry nor skips one.                                 *)
EntryOnTime ==
  execution.kind = "velocity_chunk" =>
    cmd = (seen - execution.start) \div Dt

(* A slow planner's robot keeps its command alive: with no tick of either  *)
(* loop pending, the twist of what is in progress is younger than a follow *)
(* tick.                                                                   *)
CommandAlive == execution # None /\ due = {} => now - seen < FollowEvery

(* A chunk ends at the first tick at its horizon, and a move, however      *)
(* blocked the robot is, at the first tick past its deadline.              *)
EndsOnTime ==
  execution # None =>
    IF execution.kind = "move" THEN seen <= execution.start + Horizon(execution)
                               ELSE seen < execution.start + Horizon(execution)

(* No tick ends a move or chunk early: the target is reached or its time   *)
(* is over.                                                                *)
NotCutShort ==
  [][ due' # due /\ now' = now /\ execution # None /\ execution' = None =>
        \/ now >= execution.start + Horizon(execution)
        \/ left = 0 /\ execution.kind # "velocity_chunk" ]_vars

(* A robot stands when its move has ended and goes on when its chunk has,  *)
(* unless waypoints were cut off by their deadline.                        *)
EndedMoveStands ==
  [][ due' # due /\ now' = now /\ execution # None /\ execution' = None =>
        IF execution.kind = "move" THEN cmd' = Zero
        ELSE \/ cmd' = cmd
             \/ /\ cmd' = Zero /\ execution.kind = "waypoints"
                /\ now >= execution.start + 3 * ExecuteFor + Slack ]_vars

(* The rules of moves and chunks are among those Robot allows. *)
R == INSTANCE Robot WITH
       engaged <- driving, asking <- asking,
       executing <- execution # None, moving <- cmd # Zero
RobotPromise == R!Spec
=============================================================================
