-------------------------- MODULE ExecutionProofs ---------------------------
(***************************************************************************)
(* Moves and chunks are on time for every pair of loop rates, every dt,    *)
(* horizon, length and slack, whenever the ticks are handled and however   *)
(* the floats of the clock round.  The proofs rest on what \div and % mean *)
(* (the first four lemmas) and on how far each stored time is from its     *)
(* step (WellFormed).                                                      *)
(***************************************************************************)
EXTENDS Execution, TLAPS

LEMMA DivDef ==
  ASSUME NEW a \in Nat, NEW b \in Nat \ {0}
  PROVE  /\ a \div b \in Nat
         /\ b * (a \div b) <= a
         /\ a < b * (a \div b) + b
OBVIOUS

LEMMA ModDef ==
  ASSUME NEW a \in Nat, NEW b \in Nat \ {0}
  PROVE  a % b = a - b * (a \div b)
OBVIOUS

LEMMA DivUnique ==
  ASSUME NEW a \in Nat, NEW b \in Nat \ {0}, NEW q \in Nat,
         b * q <= a, a < b * q + b
  PROVE  a \div b = q
<1> DEFINE r == a \div b
<1>1. r \in Nat /\ b * r <= a /\ a < b * r + b
  BY DivDef
<1>2. ~ q < r
  <2> SUFFICES ASSUME q + 1 <= r PROVE FALSE
    BY <1>1
  <2>1. b * (q + 1) <= b * r
    BY <1>1
  <2> QED
    BY <1>1, <2>1
<1>3. ~ r < q
  <2> SUFFICES ASSUME r + 1 <= q PROVE FALSE
    BY <1>1
  <2>1. b * (r + 1) <= b * q
    BY <1>1
  <2> QED
    BY <1>1, <2>1
<1> QED
  BY <1>1, <1>2, <1>3

LEMMA RoundedDiv ==
  ASSUME NEW a \in Nat, NEW d \in 1 .. 5
  PROVE  (Scale * a + d) \div (Scale * Dt) = a \div Dt
<1> DEFINE q == a \div Dt
<1>1. Dt \in Nat \ {0}
  BY ChunkAssumption DEF Positive
<1>2. q \in Nat /\ Dt * q <= a /\ a + 1 <= Dt * q + Dt
  BY <1>1, DivDef
<1>3. Dt * q \in Nat /\ Scale * Dt \in Nat \ {0} /\ (Scale * Dt) * q = Scale * (Dt * q)
  BY <1>1, <1>2 DEF Scale
<1>4. (Scale * Dt) * q <= Scale * a + d
  BY <1>1, <1>2, <1>3 DEF Scale
<1>5. Scale * a + d < (Scale * Dt) * q + Scale * Dt
  BY <1>1, <1>2, <1>3 DEF Scale
<1> HIDE DEF q
<1> QED
  <2>1. Scale * a + d \in Nat
    BY DEF Scale
  <2> QED
    BY <1>2, <1>3, <1>4, <1>5, <2>1, DivUnique DEF q

-----------------------------------------------------------------------------
(* A move or chunk that was started at or before step n: its times are     *)
(* those of its start, each off by one rounding. *)
WellFormed(x, n) ==
  /\ x \in [kind : {"move", "waypoints", "velocity_chunk"}, start : Nat, t0 : Int,
            len : Nat, end : Int, deadline : Int]
  /\ x.start <= n
  /\ x.t0 - Scale * x.start \in Rounding
  /\ x.kind = "move" => x.deadline = x.t0 + Scale * (3 * x.len + Slack)
  /\ x.kind = "waypoints" => x.deadline = x.t0 + Scale * (3 * ExecuteFor + Slack)
  /\ x.kind # "move" => x.end - x.t0 - Scale * ExecuteFor \in Rounding
  /\ x.kind = "velocity_chunk" => x.len \in 1 .. MaxLen

Tracked == {Twist(Zero), Twist(Go), Done}

(* In progress after a steps, a twist of a velocity chunk is the one whose *)
(* turn it is. *)
LEMMA VelocityStep ==
  ASSUME now \in Nat, NEW x, WellFormed(x, now), x.kind = "velocity_chunk",
         NEW t \in ReadTime, NEW tracked
  PROVE  LET s == step(x, t, tracked)
             a == now - x.start
         IN  \/ s = Done /\ a >= Horizon(x)
             \/ /\ s = Twist(a \div Dt) /\ a < Horizon(x)
                /\ a \div Dt \in 0 .. x.len - 1
<1> DEFINE a == now - x.start
           d == t - x.t0 - Scale * a + TIME_EPS
           q == a \div Dt
<1>1. /\ x.start \in Nat /\ x.t0 \in Int /\ x.end \in Int /\ x.len \in 1 .. MaxLen
      /\ a \in Nat /\ t \in Int
  BY DEF WellFormed, ReadTime, Rounding, Scale
<1>2. Dt \in Nat \ {0} /\ ExecuteFor \in Nat \ {0} /\ MaxLen \in Nat
  BY ChunkAssumption, BoundsAssumption DEF Positive
<1>3. d \in 1 .. 5
  BY <1>1 DEF WellFormed, ReadTime, Rounding, Scale, TIME_EPS
<1>4. q \in Nat /\ Dt * q <= a /\ a < Dt * q + Dt
  BY <1>1, <1>2, DivDef
<1>5. entry_index(x, t) = q
  <2>1. t - x.t0 + TIME_EPS = Scale * a + d
    BY <1>1 DEF Scale, TIME_EPS
  <2> HIDE DEF a, d
  <2>2. (Scale * a + d) \div (Scale * Dt) = q
    BY <1>1, <1>3, RoundedDiv
  <2> QED
    BY <2>1, <2>2, <1>4 DEF entry_index
<1>6. past_horizon(x, t) <=> a >= ExecuteFor
  BY <1>1, <1>2 DEF past_horizon, WellFormed, ReadTime, Rounding, Scale, TIME_EPS
<1>7. q >= x.len <=> a >= x.len * Dt
  <2>1. CASE q >= x.len
    <3>1. Dt * x.len <= Dt * q
      BY <1>1, <1>2, <1>4, <2>1
    <3> QED
      BY <1>1, <1>2, <1>4, <2>1, <3>1
  <2>2. CASE q + 1 <= x.len
    <3>1. Dt * (q + 1) <= Dt * x.len
      BY <1>1, <1>2, <1>4, <2>2
    <3> QED
      BY <1>1, <1>2, <1>4, <2>2, <3>1
  <2> QED
    BY <1>1, <1>4, <2>1, <2>2
<1>8. step(x, t, tracked) = IF a >= ExecuteFor \/ q >= x.len THEN Done ELSE Twist(q)
  BY <1>5, <1>6 DEF step, step_velocity_chunk
<1>9. Horizon(x) = IF x.len * Dt < ExecuteFor THEN x.len * Dt ELSE ExecuteFor
  BY DEF Horizon
<1>10. x.len * Dt \in Nat
  BY <1>1, <1>2
<1> HIDE DEF a, q
<1> QED
  BY <1>1, <1>2, <1>4, <1>7, <1>8, <1>9, <1>10 DEF a, q

(* What is steered to a target ends there or by the clock. *)
LEMMA TargetStep ==
  ASSUME now \in Nat, NEW x, WellFormed(x, now), x.kind # "velocity_chunk",
         NEW t \in ReadTime, NEW tracked \in Tracked
  PROVE  LET s == step(x, t, tracked)
             a == now - x.start
         IN  \/ /\ s = tracked
                /\ s.done \/ IF x.kind = "move" THEN a <= Horizon(x) ELSE a < Horizon(x)
             \/ s = Done /\ x.kind = "waypoints" /\ a >= Horizon(x)
             \/ /\ s = TimedOut /\ a >= Horizon(x)
                /\ x.kind = "waypoints" => a >= 3 * ExecuteFor + Slack
<1>1. /\ x.start \in Nat /\ x.t0 \in Int /\ x.end \in Int /\ x.deadline \in Int /\ x.len \in Nat
      /\ t \in Int /\ x.kind \in {"move", "waypoints"}
  BY DEF WellFormed, ReadTime, Rounding, Scale
<1>2. ExecuteFor \in Nat \ {0} /\ Slack \in Nat \ {0}
  BY ChunkAssumption, BoundsAssumption DEF Positive
<1>3. CASE x.kind = "move"
  <2>1. t > x.deadline => now - x.start >= 3 * x.len + Slack
    BY <1>1, <1>2, <1>3 DEF WellFormed, ReadTime, Rounding, Scale
  <2>2. ~ t > x.deadline => now - x.start <= 3 * x.len + Slack
    BY <1>1, <1>2, <1>3 DEF WellFormed, ReadTime, Rounding, Scale
  <2>3. Horizon(x) = 3 * x.len + Slack
    BY <1>3 DEF Horizon
  <2>4. step(x, t, tracked) = IF ~tracked.done /\ t > x.deadline THEN TimedOut ELSE tracked
    BY <1>3 DEF step, step_move
  <2> QED
    BY <1>3, <2>1, <2>2, <2>3, <2>4
<1>4. CASE x.kind = "waypoints"
  <2>1. t > x.deadline => now - x.start >= 3 * ExecuteFor + Slack
    BY <1>1, <1>2, <1>4 DEF WellFormed, ReadTime, Rounding, Scale
  <2>2. past_horizon(x, t) <=> now - x.start >= ExecuteFor
    BY <1>1, <1>2, <1>4 DEF past_horizon, WellFormed, ReadTime, Rounding, Scale, TIME_EPS
  <2>3. Horizon(x) = ExecuteFor
    BY <1>4 DEF Horizon
  <2>4. step(x, t, tracked) = IF tracked.done THEN Done
                              ELSE IF t > x.deadline THEN TimedOut
                              ELSE IF past_horizon(x, t) THEN Done ELSE tracked
    BY <1>4 DEF step, step_waypoints
  <2>5. tracked.done => tracked = Done
    BY DEF Tracked, Twist, Done
  <2>6. now - x.start \in Int
    BY <1>1
  <2> QED
    BY <1>2, <1>4, <2>1, <2>2, <2>3, <2>4, <2>5, <2>6
<1> QED
  BY <1>1, <1>3, <1>4

(* What an action starts begins now. *)
LEMMA Started ==
  ASSUME now \in Nat, NEW t \in ReadTime, NEW distance \in Nat, NEW x \in startable(t, distance)
  PROVE  WellFormed(x, now)
<1>1. t \in Int /\ ExecuteFor \in Nat /\ Slack \in Nat /\ MaxLen \in Nat
  BY ChunkAssumption, BoundsAssumption DEF Positive, ReadTime, Rounding, Scale
<1>2. t - Scale * now \in Rounding
  BY <1>1 DEF ReadTime, Rounding, Scale
<1>3. ASSUME x = move(t, distance) PROVE WellFormed(x, now)
  BY <1>1, <1>2, <1>3 DEF move, WellFormed, Scale
<1>4. ASSUME NEW e \in Rounding, x = waypoints(t, e) PROVE WellFormed(x, now)
  BY <1>1, <1>2, <1>4 DEF waypoints, WellFormed, Scale, Rounding
<1>5. ASSUME NEW e \in Rounding, NEW len \in 1 .. MaxLen, x = velocity_chunk(t, e, len)
      PROVE WellFormed(x, now)
  BY <1>1, <1>2, <1>5 DEF velocity_chunk, WellFormed, Scale, Rounding
<1> QED
  BY <1>3, <1>4, <1>5 DEF startable

-----------------------------------------------------------------------------
(* The inductive invariant. *)
ExecutionInv ==
  /\ TypeOK
  /\ seen <= now
  /\ asking => execution = None
  /\ execution # None => WellFormed(execution, seen)
  /\ EntryOnTime
  /\ EndsOnTime

(* A move or chunk that is advanced, be it one in progress or a new one. *)
LEMMA Advance ==
  ASSUME now \in 0 .. MaxTime, cmd \in {Zero, Go} \cup (0 .. MaxLen - 1), now' = now,
         NEW x, WellFormed(x, now),
         NEW t \in ReadTime, NEW tracked \in Tracked,
         advance_execution(x, t, tracked)
  PROVE  /\ execution' = None \/ execution' = x
         /\ execution' # None => WellFormed(execution', now)
         /\ seen' = now
         /\ cmd' \in {Zero, Go} \cup (0 .. MaxLen - 1)
         /\ cmd' >= 0 /\ execution' # None => cmd' < execution'.len
         /\ EntryOnTime'
         /\ EndsOnTime'
         /\ execution' = None => \/ tracked.done /\ x.kind # "velocity_chunk"
                                \/ now >= x.start + Horizon(x)
<1> DEFINE s == step(x, t, tracked)
           a == now - x.start
<1>1. /\ execution' = IF s.done THEN None ELSE x
      /\ cmd' = IF keeps_last_twist(x, s) THEN cmd ELSE s.cmd
      /\ seen' = now
  BY DEF advance_execution
<1>2. /\ x # None /\ x.kind \in {"move", "waypoints", "velocity_chunk"}
      /\ x.start \in Nat /\ x.len \in Nat /\ a \in Nat
      /\ now \in Nat /\ MaxLen \in Nat
  BY BoundsAssumption DEF WellFormed, None
<1>3. Horizon(x) \in Nat
  BY <1>2, ChunkAssumption, BoundsAssumption DEF Horizon, Positive
<1>4. Horizon(x)' = Horizon(x)
  BY DEF Horizon
<1>5. CASE x.kind = "velocity_chunk"
  <2>1. \/ s = Done /\ a >= Horizon(x)
        \/ s = Twist(a \div Dt) /\ a < Horizon(x) /\ a \div Dt \in 0 .. x.len - 1
    BY <1>2, <1>5, VelocityStep
  <2>2. CASE s = Done /\ a >= Horizon(x)
    <3>1. execution' = None /\ cmd' \in {cmd, Zero}
      BY <1>1, <2>2 DEF Done
    <3> QED
      BY <1>1, <1>2, <1>3, <2>2, <3>1 DEF EntryOnTime, EndsOnTime, None
  <2>3. CASE s = Twist(a \div Dt) /\ a < Horizon(x) /\ a \div Dt \in 0 .. x.len - 1
    <3>1. execution' = x /\ cmd' = a \div Dt
      BY <1>1, <2>3 DEF Twist, keeps_last_twist
    <3>2. x.len \in 1 .. MaxLen
      BY <1>5 DEF WellFormed
    <3>3. cmd' \in 0 .. MaxLen - 1 /\ cmd' < x.len
      BY <1>2, <2>3, <3>1, <3>2
    <3>4. EntryOnTime'
      BY <1>1, <3>1 DEF EntryOnTime
    <3>5. EndsOnTime'
      <4> HIDE DEF s
      <4> QED
        BY <1>1, <1>2, <1>3, <1>4, <1>5, <2>3, <3>1 DEF EndsOnTime, Horizon
    <3> QED
      BY <1>1, <1>2, <3>1, <3>3, <3>4, <3>5
  <2> QED
    BY <2>1, <2>2, <2>3
<1>6. CASE x.kind # "velocity_chunk"
  <2>1. \/ /\ s = tracked
           /\ s.done \/ IF x.kind = "move" THEN a <= Horizon(x) ELSE a < Horizon(x)
        \/ s = Done /\ x.kind = "waypoints" /\ a >= Horizon(x)
        \/ s = TimedOut /\ a >= Horizon(x)
    BY <1>2, <1>6, TargetStep
  <2>2. s.cmd \in {Zero, Go}
    BY <2>1 DEF Tracked, Twist, Done, TimedOut
  <2>3. cmd' \in {cmd, Zero, Go} /\ (execution' # None => cmd' \in {Zero, Go} /\ execution' = x)
    BY <1>1, <2>2 DEF keeps_last_twist
  <2>4. EntryOnTime'
    BY <1>1, <1>2, <1>6 DEF EntryOnTime, None
  <2>5. EndsOnTime'
    <3>1. execution' # None => ~s.done /\ execution' = x
      BY <1>1
    <3>2. s = Done \/ s = TimedOut => s.done
      BY DEF Done, TimedOut
    <3>3. execution' # None => IF x.kind = "move" THEN a <= Horizon(x) ELSE a < Horizon(x)
      BY <2>1, <3>1, <3>2
    <3> QED
      BY <1>1, <1>2, <1>3, <1>4, <3>1, <3>3 DEF EndsOnTime, Horizon
  <2>6. execution' = None => tracked.done \/ now >= x.start + Horizon(x)
    BY <1>1, <1>2, <1>3, <2>1
  <2>7. cmd' >= 0 /\ execution' # None => cmd' < execution'.len
    BY <2>3 DEF Zero, Go
  <2> QED
    BY <1>1, <1>2, <1>6, <2>3, <2>4, <2>5, <2>6, <2>7
<1> QED
  BY <1>5, <1>6

(* What either loop does at a tick keeps the invariant. *)
LEMMA AdvanceAtTick ==
  ASSUME ExecutionInv, advance_at_tick, now' = now, left' = left
  PROVE  /\ cmd' \in {Zero, Go} \cup (0 .. MaxLen - 1)
         /\ cmd' >= 0 /\ execution' # None => cmd' < execution'.len
         /\ seen' \in 0 .. MaxTime /\ seen' <= now
         /\ execution = None => execution' = None /\ cmd' = cmd
         /\ execution' # None => WellFormed(execution', seen')
         /\ EntryOnTime' /\ EndsOnTime'
         /\ execution # None => seen' = now
         /\ execution # None /\ execution' = None =>
              \/ left = 0 /\ execution.kind # "velocity_chunk"
              \/ now >= execution.start + Horizon(execution)
<1>1. CASE execution = None
  <2>1. UNCHANGED <<execution, cmd, seen>>
    BY <1>1 DEF advance_at_tick
  <2> QED
    BY <1>1, <2>1 DEF ExecutionInv, TypeOK, EntryOnTime, EndsOnTime, None
<1>2. CASE execution # None
  <2>1. PICK t \in ReadTime, pose_known \in BOOLEAN :
          advance_execution(execution, t, track(pose_known, left))
    BY <1>2 DEF advance_at_tick
  <2> DEFINE tracked == track(pose_known, left)
  <2>2. tracked \in Tracked /\ (tracked.done => left = 0)
    BY DEF track, Tracked, Twist, Done
  <2>3. now \in 0 .. MaxTime /\ cmd \in {Zero, Go} \cup (0 .. MaxLen - 1) /\ seen <= now
    BY DEF ExecutionInv, TypeOK
  <2>4. WellFormed(execution, now)
    BY <1>2, <2>3, BoundsAssumption DEF ExecutionInv, TypeOK, WellFormed
  <2> HIDE DEF tracked
  <2>5. /\ execution' # None => WellFormed(execution', now)
        /\ seen' = now
        /\ cmd' \in {Zero, Go} \cup (0 .. MaxLen - 1)
        /\ cmd' >= 0 /\ execution' # None => cmd' < execution'.len
        /\ EntryOnTime' /\ EndsOnTime'
        /\ execution' = None => \/ tracked.done /\ execution.kind # "velocity_chunk"
                               \/ now >= execution.start + Horizon(execution)
    BY <2>1, <2>2, <2>3, <2>4, Advance DEF tracked
  <2> QED
    BY <1>2, <2>2, <2>3, <2>5, BoundsAssumption
<1> QED
  BY <1>1, <1>2

THEOREM ExecutionInit == Init => ExecutionInv
<1> SUFFICES ASSUME Init PROVE ExecutionInv
  OBVIOUS
<1>1. /\ now = 0 /\ seen = 0 /\ due = {} /\ driving = FALSE /\ asking = FALSE
      /\ execution = None /\ left = 0 /\ cmd = Zero /\ execution.kind = "none"
  BY DEF Init, None
<1>2. TypeOK
  <2>1. now \in 0 .. MaxTime /\ seen \in 0 .. MaxTime
    BY <1>1, BoundsAssumption
  <2>2. due \subseteq {"follow", "plan"} /\ driving \in BOOLEAN /\ asking \in BOOLEAN
    BY <1>1
  <2>3. cmd \in {Zero, Go} /\ ~ cmd >= 0 /\ left \in Nat
    BY <1>1 DEF Zero
  <2> QED
    BY <1>1, <2>1, <2>2, <2>3 DEF TypeOK
<1> QED
  BY <1>1, <1>2 DEF ExecutionInv, EntryOnTime, EndsOnTime

THEOREM ExecutionStep == ExecutionInv /\ [Next]_vars => ExecutionInv'
<1> SUFFICES ASSUME ExecutionInv, [Next]_vars PROVE ExecutionInv'
  OBVIOUS
<1>0. now \in Nat /\ seen \in Nat /\ MaxTime \in Nat /\ MaxLen \in Nat
  BY BoundsAssumption DEF ExecutionInv, TypeOK
<1>1. CASE time_passes
  <2>1. now' = now + 1 /\ now' \in 0 .. MaxTime /\ seen' <= now'
    BY <1>0, <1>1 DEF time_passes, ExecutionInv
  <2>2. due' \subseteq {"follow", "plan"} /\ left' \in Nat
    <3>1. left \in Nat /\ due \subseteq {"follow", "plan"}
      BY DEF ExecutionInv, TypeOK
    <3>2. left' \in IF cmd = Go /\ left > 0 THEN {left, left - 1} ELSE {left}
      BY <1>1 DEF time_passes
    <3>3. due' \subseteq {"follow", "plan"}
      <4>1. due' = due \cup Loops(now') /\ Loops(now') \subseteq {"follow", "plan"}
        BY <1>1 DEF time_passes, Loops
      <4> QED
        BY <3>1, <4>1
    <3> QED
      BY <3>1, <3>2, <3>3
  <2>3. UNCHANGED <<driving, asking, execution, cmd, seen>>
    BY <1>1 DEF time_passes
  <2> QED
    BY <2>1, <2>2, <2>3 DEF ExecutionInv, TypeOK, EntryOnTime, EndsOnTime, Horizon, WellFormed
<1>2. CASE tick_plan
  <2>1. now' = now /\ left' = left /\ UNCHANGED driving /\ due' \subseteq due
        /\ asking' = (execution' = None) /\ advance_at_tick
    BY <1>2 DEF tick_plan
  <2> QED
    BY <2>1, AdvanceAtTick DEF ExecutionInv, TypeOK, WellFormed
<1>3. CASE tick_follow
  <2>1. now' = now /\ left' = left /\ UNCHANGED <<driving, asking>> /\ due' \subseteq due
        /\ advance_at_tick
    BY <1>3 DEF tick_follow
  <2> QED
    BY <2>1, AdvanceAtTick DEF ExecutionInv, TypeOK, WellFormed
<1>4. CASE answer
  <2>1. now' = now /\ UNCHANGED <<due, driving>> /\ asking' = FALSE /\ execution = None
    BY <1>4 DEF answer, ExecutionInv
  <2>2. CASE cmd' = Zero /\ UNCHANGED <<execution, left, seen>>
    BY <2>1, <2>2 DEF ExecutionInv, TypeOK, EntryOnTime, EndsOnTime, None, Zero
  <2>3. ASSUME NEW t \in ReadTime, NEW distance \in 0 .. MaxNominal,
               NEW x \in startable(t, distance),
               advance_execution(x, t, track(TRUE, distance)), left' = distance
        PROVE  ExecutionInv'
    <3>1. distance \in Nat /\ left' \in Nat
      BY <2>3, BoundsAssumption
    <3>2. WellFormed(x, now)
      BY <1>0, <3>1, Started
    <3>3. track(TRUE, distance) \in Tracked
      BY DEF track, Tracked
    <3>4. /\ execution' = None \/ execution' = x
          /\ execution' # None => WellFormed(execution', now)
          /\ seen' = now
          /\ cmd' \in {Zero, Go} \cup (0 .. MaxLen - 1)
          /\ cmd' >= 0 /\ execution' # None => cmd' < execution'.len
          /\ EntryOnTime' /\ EndsOnTime'
      BY <2>1, <2>3, <3>2, <3>3, Advance DEF ExecutionInv, TypeOK
    <3>5. seen' <= now' /\ seen' \in 0 .. MaxTime
      BY <2>1, <3>4 DEF ExecutionInv, TypeOK
    <3>6. execution' = None \/ execution'.kind \in {"move", "waypoints", "velocity_chunk"}
      BY <3>4 DEF WellFormed
    <3>7. TypeOK'
      BY <2>1, <3>1, <3>4, <3>5, <3>6 DEF ExecutionInv, TypeOK
    <3> QED
      BY <2>1, <3>4, <3>5, <3>7 DEF ExecutionInv
  <2> QED
    BY <1>4, <2>2, <2>3 DEF answer, publish_action
<1>5. CASE stop_execution
  BY <1>5 DEF stop_execution, ExecutionInv, TypeOK, EntryOnTime, EndsOnTime, None, Zero
<1>6. CASE reset_returns
  BY <1>6 DEF reset_returns, ExecutionInv, TypeOK, EntryOnTime, EndsOnTime, Horizon, WellFormed
<1>7. CASE UNCHANGED vars
  BY <1>7 DEF vars, ExecutionInv, TypeOK, EntryOnTime, EndsOnTime, Horizon, WellFormed
<1> QED
  BY <1>1, <1>2, <1>3, <1>4, <1>5, <1>6, <1>7 DEF Next

THEOREM Invariance == Spec => []ExecutionInv
BY ExecutionInit, ExecutionStep, PTL DEF Spec

(* Times, entries and twists keep their types: entry_index never leaves a  *)
(* chunk.                                                                  *)
THEOREM ExecutionTypes == Spec => []TypeOK
<1>1. ExecutionInv => TypeOK
  BY DEF ExecutionInv
<1> QED
  BY <1>1, Invariance, PTL

(* For every rate of the loops, dt, horizon and length of a chunk, and     *)
(* however the clock rounds: the twist driven is of the entry whose turn   *)
(* it was when a loop last looked.                                         *)
THEOREM OnTime == Spec => []EntryOnTime
<1>1. ExecutionInv => EntryOnTime
  BY DEF ExecutionInv
<1> QED
  BY <1>1, Invariance, PTL

(* For the same constants nothing is in progress past its horizon or       *)
(* deadline, later than the tick that must end it.                         *)
THEOREM EndsInTime == Spec => []EndsOnTime
<1>1. ExecutionInv => EndsOnTime
  BY DEF ExecutionInv
<1> QED
  BY <1>1, Invariance, PTL

(* No tick ends a move or chunk before its target or its time. *)
THEOREM EndsNotEarly == Spec => NotCutShort
<1>1. ASSUME ExecutionInv, [Next]_vars
      PROVE  due' # due /\ now' = now /\ execution # None /\ execution' = None =>
               \/ now >= execution.start + Horizon(execution)
               \/ left = 0 /\ execution.kind # "velocity_chunk"
  <2> SUFFICES ASSUME due' # due, now' = now, execution # None, execution' = None
               PROVE  \/ now >= execution.start + Horizon(execution)
                      \/ left = 0 /\ execution.kind # "velocity_chunk"
    OBVIOUS
  <2>1. tick_plan \/ tick_follow
    <3>1. now \in Nat
      BY <1>1, BoundsAssumption DEF ExecutionInv, TypeOK
    <3> QED
      BY <1>1, <3>1 DEF Next, vars, time_passes, answer, stop_execution, reset_returns
  <2>2. advance_at_tick /\ left' = left
    BY <2>1 DEF tick_plan, tick_follow
  <2> QED
    BY <1>1, <2>2, AdvanceAtTick
<1> QED
  BY <1>1, Invariance, PTL DEF Spec, NotCutShort

(* How the last tick of a move or chunk leaves the twist. *)
LEMMA LastTwist ==
  ASSUME now \in Nat, NEW x, WellFormed(x, now),
         NEW t \in ReadTime, NEW tracked \in Tracked,
         advance_execution(x, t, tracked), execution' = None
  PROVE  IF x.kind = "move" THEN cmd' = Zero
         ELSE \/ cmd' = cmd
              \/ /\ cmd' = Zero /\ x.kind = "waypoints"
                 /\ now >= x.start + 3 * ExecuteFor + Slack
<1> DEFINE s == step(x, t, tracked)
<1>1. /\ x # None /\ x.kind \in {"move", "waypoints", "velocity_chunk"}
      /\ x.start \in Nat /\ ExecuteFor \in Nat /\ Slack \in Nat
  BY ChunkAssumption, BoundsAssumption DEF WellFormed, None, Positive
<1>2. s.done /\ cmd' = IF keeps_last_twist(x, s) THEN cmd ELSE s.cmd
  BY <1>1 DEF advance_execution
<1>3. CASE x.kind = "velocity_chunk"
  <2>1. s = Done
    <3>1. s = Done \/ s = Twist((now - x.start) \div Dt)
      BY <1>3, VelocityStep
    <3> HIDE DEF s
    <3> QED
      BY <1>2, <3>1 DEF Twist
  <2>2. keeps_last_twist(x, s)
    BY <1>3, <2>1 DEF keeps_last_twist, Done
  <2> QED
    BY <1>2, <1>3, <2>2
<1>4. CASE x.kind # "velocity_chunk"
  <2>1. \/ s = tracked \/ s = Done
        \/ /\ s = TimedOut
           /\ x.kind = "waypoints" => now - x.start >= 3 * ExecuteFor + Slack
    BY <1>4, TargetStep
  <2> HIDE DEF s
  <2>2. s = Done \/ s = TimedOut
    BY <1>2, <2>1 DEF Tracked, Twist
  <2>3. CASE x.kind = "move"
    BY <1>2, <2>2, <2>3 DEF keeps_last_twist, Done, TimedOut
  <2>4. CASE x.kind = "waypoints" /\ s = Done
    BY <1>2, <2>4 DEF keeps_last_twist, Done
  <2>5. CASE x.kind = "waypoints" /\ s = TimedOut
    <3>1. cmd' = Zero
      BY <1>2, <2>5 DEF keeps_last_twist, TimedOut
    <3>2. s # Done /\ (s = tracked => tracked # TimedOut)
      BY <2>5 DEF Done, TimedOut, Tracked, Twist
    <3>3. now - x.start >= 3 * ExecuteFor + Slack
      BY <2>1, <2>5, <3>2
    <3> QED
      BY <1>1, <2>5, <3>1, <3>3
  <2> QED
    BY <1>1, <1>4, <2>2, <2>3, <2>4, <2>5
<1> QED
  BY <1>3, <1>4

(* For every pair of rates, horizon and slack: a robot stands when a tick  *)
(* ends its move and drives on when one ends its chunk, except that        *)
(* waypoints past their deadline stop it.                                  *)
THEOREM EndsStanding == Spec => EndedMoveStands
<1>1. ASSUME ExecutionInv, [Next]_vars
      PROVE  due' # due /\ now' = now /\ execution # None /\ execution' = None =>
               IF execution.kind = "move" THEN cmd' = Zero
               ELSE \/ cmd' = cmd
                    \/ /\ cmd' = Zero /\ execution.kind = "waypoints"
                       /\ now >= execution.start + 3 * ExecuteFor + Slack
  <2> SUFFICES ASSUME due' # due, now' = now, execution # None, execution' = None
               PROVE  IF execution.kind = "move" THEN cmd' = Zero
                      ELSE \/ cmd' = cmd
                           \/ /\ cmd' = Zero /\ execution.kind = "waypoints"
                              /\ now >= execution.start + 3 * ExecuteFor + Slack
    OBVIOUS
  <2>1. now \in Nat /\ seen \in Nat /\ seen <= now
    BY <1>1, BoundsAssumption DEF ExecutionInv, TypeOK
  <2>2. tick_plan \/ tick_follow
    BY <1>1, <2>1 DEF Next, vars, time_passes, answer, stop_execution, reset_returns
  <2>3. PICK t \in ReadTime, pose_known \in BOOLEAN :
          advance_execution(execution, t, track(pose_known, left))
    BY <2>2 DEF tick_plan, tick_follow, advance_at_tick
  <2>4. track(pose_known, left) \in Tracked
    BY DEF track, Tracked
  <2>5. WellFormed(execution, now)
    BY <1>1, <2>1 DEF ExecutionInv, WellFormed
  <2> QED
    BY <2>1, <2>3, <2>4, <2>5, LastTwist
<1> QED
  BY <1>1, Invariance, PTL DEF Spec, EndedMoveStands

(* The rules of moves and chunks only do to the robot what Robot allows.   *)
THEOREM ExecutionImplementsRobot == Spec => RobotPromise
<1>1. Init => R!Init
  BY DEF Init, R!Init, None, Zero
<1>2. ASSUME ExecutionInv, [Next]_vars PROVE [R!Next]_(R!vars)
  <2>1. CASE tick_plan
    <3>1. /\ now' = now /\ left' = left /\ advance_at_tick /\ UNCHANGED driving
          /\ asking = FALSE /\ asking' = (execution' = None)
      BY <1>2, <2>1 DEF tick_plan, ExecutionInv, TypeOK
    <3>2. execution = None => execution' = None /\ cmd' = cmd
      BY <1>2, <3>1, AdvanceAtTick
    <3>3. CASE execution' = None
      <4>1. R!Ask
        BY <3>1, <3>2, <3>3 DEF R!Ask
      <4> QED
        BY <4>1 DEF R!Next
    <3>4. CASE execution' # None
      <4>1. R!Follow
        BY <3>1, <3>2, <3>4 DEF R!Follow
      <4> QED
        BY <4>1 DEF R!Next
    <3> QED
      BY <3>3, <3>4
  <2>2. CASE tick_follow
    BY <1>2, <2>2, AdvanceAtTick DEF tick_follow, R!Next, R!Follow, R!vars
  <2>3. CASE answer
    BY <2>3 DEF answer, publish_action, R!Next, R!Answer
  <2>4. CASE stop_execution
    BY <2>4 DEF stop_execution, R!Next, R!Halt
  <2>5. CASE reset_returns
    BY <2>5 DEF reset_returns, R!Next, R!Engage
  <2>6. CASE time_passes \/ UNCHANGED vars
    BY <2>6 DEF time_passes, vars, R!vars
  <2> QED
    BY <1>2, <2>1, <2>2, <2>3, <2>4, <2>5, <2>6 DEF Next
<1> QED
  BY <1>1, <1>2, Invariance, PTL DEF Spec, RobotPromise, R!Spec

-----------------------------------------------------------------------------
(* While no follow tick is pending, the last one was acted on. *)
LastFollow == FollowEvery * (now \div FollowEvery)
FollowedUp == execution # None /\ "follow" \notin due => seen >= LastFollow

LEMMA NoTick ==
  ASSUME NEW n \in Nat, NEW F \in Nat \ {0}, (n + 1) % F # 0
  PROVE  (n + 1) \div F = n \div F
<1> DEFINE q == (n + 1) \div F
<1>1. q \in Nat /\ F * q <= n + 1 /\ n + 1 < F * q + F
  BY DivDef
<1>2. F * q # n + 1
  <2>1. (n + 1) % F = (n + 1) - F * q
    BY ModDef
  <2> QED
    BY <1>1, <2>1
<1>3. F * q \in Nat
  BY <1>1
<1> HIDE DEF q
<1> QED
  <2>1. F * q <= n /\ n < F * q + F
    BY <1>1, <1>2, <1>3
  <2>2. n \div F = q
    BY <1>1, <2>1, DivUnique
  <2> QED
    BY <2>2 DEF q

(* For every pair of rates: when neither loop has a tick pending, the      *)
(* twist of what is in progress is younger than a follow tick.             *)
THEOREM KeepsAlive == Spec => []CommandAlive
<1>1. Init => FollowedUp
  BY DEF Init, FollowedUp
<1>2. ASSUME ExecutionInv, FollowedUp, [Next]_vars PROVE FollowedUp'
  <2>1. now \in Nat /\ FollowEvery \in Nat \ {0}
    BY <1>2, TicksAssumption, BoundsAssumption DEF ExecutionInv, TypeOK, Positive
  <2>2. LastFollow \in Nat /\ LastFollow <= now
    BY <2>1, DivDef DEF LastFollow
  <2>3. CASE time_passes
    <3> SUFFICES ASSUME execution' # None, "follow" \notin due' PROVE seen' >= LastFollow'
      BY DEF FollowedUp
    <3>1. /\ now' = now + 1 /\ due' = due \cup Loops(now')
          /\ UNCHANGED <<execution, seen>>
      BY <2>3 DEF time_passes
    <3>2. (now + 1) % FollowEvery # 0
      BY <3>1 DEF Loops
    <3>3. LastFollow' = LastFollow
      BY <2>1, <3>1, <3>2, NoTick DEF LastFollow
    <3> QED
      BY <1>2, <3>1, <3>3 DEF FollowedUp
  <2>4. ASSUME now' = now, seen' = now PROVE FollowedUp'
    BY <2>2, <2>4 DEF FollowedUp, LastFollow
  <2>5. CASE tick_plan
    <3>1. now' = now /\ left' = left /\ advance_at_tick /\ ("follow" \in due <=> "follow" \in due')
      BY <2>5 DEF tick_plan
    <3>2. CASE execution = None
      BY <1>2, <3>1, <3>2, AdvanceAtTick DEF FollowedUp
    <3>3. CASE execution # None
      BY <1>2, <2>4, <3>1, <3>3, AdvanceAtTick
    <3> QED
      BY <3>2, <3>3
  <2>6. CASE tick_follow
    <3>1. now' = now /\ left' = left /\ advance_at_tick
      BY <2>6 DEF tick_follow
    <3>2. CASE execution = None
      BY <1>2, <3>1, <3>2, AdvanceAtTick DEF FollowedUp
    <3>3. CASE execution # None
      BY <1>2, <2>4, <3>1, <3>3, AdvanceAtTick
    <3> QED
      BY <3>2, <3>3
  <2>7. CASE answer
    <3>1. CASE UNCHANGED <<execution, seen>>
      BY <1>2, <2>7, <3>1 DEF answer, FollowedUp, LastFollow
    <3>2. CASE seen' = now
      BY <2>4, <2>7, <3>2 DEF answer
    <3> QED
      BY <2>7, <3>1, <3>2 DEF answer, publish_action, advance_execution
  <2>8. CASE stop_execution
    BY <2>8 DEF stop_execution, FollowedUp
  <2>9. CASE reset_returns \/ UNCHANGED vars
    BY <1>2, <2>9 DEF reset_returns, vars, FollowedUp, LastFollow
  <2> QED
    BY <1>2, <2>3, <2>5, <2>6, <2>7, <2>8, <2>9 DEF Next
<1>3. ExecutionInv /\ FollowedUp => CommandAlive
  <2> SUFFICES ASSUME ExecutionInv, FollowedUp, execution # None, due = {}
               PROVE  now - seen < FollowEvery
    BY DEF CommandAlive
  <2>1. now \in Nat /\ seen \in Nat /\ FollowEvery \in Nat \ {0}
    BY TicksAssumption, BoundsAssumption DEF ExecutionInv, TypeOK, Positive
  <2>2. LastFollow \in Nat /\ now < LastFollow + FollowEvery
    BY <2>1, DivDef DEF LastFollow
  <2> QED
    BY <2>1, <2>2 DEF FollowedUp
<1> QED
  BY <1>1, <1>2, <1>3, Invariance, PTL DEF Spec
=============================================================================
