---------------------------- MODULE BridgeProofs ----------------------------
(***************************************************************************)
(* Theorems about Bridge: its types, what the robot may do, what a dead    *)
(* planner ends, how many frames can be under way and how a planner that   *)
(* is not at fault ends, for every value of the constants; then, with one  *)
(* caller and no deadline, that at most one request or ack is under way    *)
(* and the planner is in the episode the robot is driven in.               *)
(***************************************************************************)
EXTENDS Bridge, EdgeProofs, FiniteSetTheorems

LEMMA BridgeTypeOK == TypeOK <=> NodeTypeOK /\ SdkTypeOK
BY DEF TypeOK, NodeTypeOK

LEMMA InitType == Init => TypeOK
BY NodeInitType, FieldTypes DEF Init, TypeOK, NodeTypeOK, SdkInit, SdkTypeOK

LEMMA SdkType == TypeOK /\ SdkStep => TypeOK'
<1> SUFFICES ASSUME TypeOK, SdkStep PROVE TypeOK'
  OBVIOUS
<1> USE FrameTypes, FieldTypes
<1>0. WireTypeOK
  BY DEF TypeOK
<1>1. EdgeTypeOK'
  BY DEF SdkStep, TypeOK, EdgeTypeOK, edgeVars, lifeVars, ioVars, loopVars, robotVars, callVars
<1>2. CASE sdk_connect
  BY <1>0, <1>1, ChannelTypes, <1>2 DEF sdk_connect, TypeOK, WireTypeOK, ProcTypeOK, SdkTypeOK, wireVars
<1>3. CASE handshake
  BY <1>0, <1>1, ChannelTypes, <1>3, ExitType
     DEF handshake, TypeOK, WireTypeOK, ProcTypeOK, SdkTypeOK, sdk_exit, procVars
<1>4. CASE emit_heartbeat
  BY <1>0, <1>1, ChannelTypes, <1>4 DEF emit_heartbeat, TypeOK, WireTypeOK, ProcTypeOK, SdkTypeOK, procVars, sdkVars
<1>5. CASE poll
  BY <1>0, <1>1, ChannelTypes, <1>5 DEF poll, TypeOK, WireTypeOK, ProcTypeOK, SdkTypeOK, procVars, wireVars
<1>6. CASE handle_reset
  BY <1>0, <1>1, ChannelTypes, <1>6 DEF handle_reset, TypeOK, WireTypeOK, ProcTypeOK, SdkTypeOK, procVars
<1>7. CASE handle_cancel
  BY <1>0, <1>1, ChannelTypes, <1>7 DEF handle_cancel, TypeOK, WireTypeOK, ProcTypeOK, SdkTypeOK, procVars
<1>8. CASE handle_shutdown
  BY <1>0, <1>1, ChannelTypes, <1>8, ExitType
     DEF handle_shutdown, TypeOK, WireTypeOK, ProcTypeOK, SdkTypeOK, sdk_exit
<1>9. CASE handle_obs
  <2>1. PICK go \in BOOLEAN, sig \in BOOLEAN :
          \/ /\ actionCh' = Append(actionCh, Action(Head(obsCh).seq, go, sig, reset))
             /\ obsCh' = Tail(obsCh)
             /\ events' = events \ {"data"}
             /\ UNCHANGED <<controlCh, ctrlAckCh, procVars, sdk>>
          \/ /\ Exit("error", Append(actionCh, Error), ctrlAckCh)
             /\ sdk_exit
    BY <1>9 DEF handle_obs
  <2>2. Action(Head(obsCh).seq, go, sig, reset) \in DataIn
    BY <1>0, <1>9, ChannelTypes, MaxSeqAssumption DEF handle_obs, Seq0, TypeOK, SdkTypeOK
  <2>3. UNCHANGED <<active, reset>> /\ obsCh # <<>>
    BY <1>9 DEF handle_obs
  <2> QED
    BY <1>0, <1>1, <2>1, <2>2, <2>3, ChannelTypes, ExitType
       DEF TypeOK, WireTypeOK, ProcTypeOK, SdkTypeOK, sdk_exit, procVars
<1>10. CASE crash
  BY <1>0, <1>1, ChannelTypes, <1>10, ExitType DEF crash, TypeOK, WireTypeOK, ProcTypeOK, SdkTypeOK, sdk_exit
<1> QED
  BY <1>2, <1>3, <1>4, <1>5, <1>6, <1>7, <1>8, <1>9, <1>10 DEF SdkStep, SdkNext

LEMMA EdgeType == TypeOK /\ EdgeStep => TypeOK'
<1> SUFFICES ASSUME TypeOK, EdgeStep PROVE TypeOK'
  OBVIOUS
<1>1. NodeTypeOK'
  BY BridgeTypeOK, EdgeTypeStep DEF EdgeStep, WithSdk
<1>2. SdkTypeOK'
  BY DEF EdgeStep, WithSdk, sdk_exit, sdkVars, TypeOK, SdkTypeOK
<1> QED
  BY <1>1, <1>2 DEF TypeOK, NodeTypeOK

LEMMA TypeStep == TypeOK /\ [Next]_vars => TypeOK'
<1>1. TypeOK /\ UNCHANGED vars => TypeOK'
  BY NodeTypeStutter DEF TypeOK, NodeTypeOK, SdkTypeOK, vars, sdkVars
<1> QED
  BY <1>1, EdgeType, SdkType DEF Next

(* Type correctness: no run of the bridge, whatever the bounds, callers    *)
(* and kind of planner, leaves the types.  Every later proof rests on it.  *)
THEOREM TypeCorrect == Spec => []TypeOK
BY InitType, TypeStep, PTL DEF Spec

(* A step of the bridge is one of the node, or leaves the node alone. *)
LEMMA NodeSteps == [Next]_vars => EdgeNext \/ UNCHANGED edgeVars
BY DEF Next, EdgeStep, WithSdk, SdkStep, vars

(* The planner's steps leave the node alone. *)
LEMMA SdkLeavesEdge == SdkStep => UNCHANGED edgeVars
BY DEF SdkStep

-----------------------------------------------------------------------------
(* What the node keeps to, whatever the planner does *)

(* From a cancel until a reset returns nothing moves the robot, whatever   *)
(* actions, acks and failures are under way and however many tasks call    *)
(* request_cancel and request_reset at once.                               *)
THEOREM Standstill == Spec => []StandstillUnlessDriving
<1>1. Init => StandstillUnlessDriving
  BY DEF Init, EdgeInit, StandstillUnlessDriving
<1>2. StandstillUnlessDriving /\ [Next]_vars => StandstillUnlessDriving'
  BY NodeSteps, StandstillEdge
<1> QED
  BY <1>1, <1>2, PTL DEF Spec

(* While the run loop waits for an action no move or chunk is in progress, *)
(* so neither the follow loop nor a tick can move the robot meanwhile.     *)
THEOREM QuietWait == Spec => []NoExecutionWhileWaiting
<1>1. Init => NoExecutionWhileWaiting
  BY DEF Init, EdgeInit, NoExecutionWhileWaiting
<1>2. NoExecutionWhileWaiting /\ [Next]_vars => NoExecutionWhileWaiting'
  BY NodeSteps, WaitingEdge
<1> QED
  BY <1>1, <1>2, PTL DEF Spec

(* Whatever the callers, the tasks of the node and the planner do, the     *)
(* robot sees only what module Robot allows: it is engaged by a reset,     *)
(* halted by a request, asked about between executions, and driven only    *)
(* while engaged.                                                          *)
THEOREM BridgeImplementsRobot == Spec => RobotPromise
<1>1. TypeOK /\ [Next]_vars => [R!Next]_R!vars
  BY NodeSteps, RobotStep DEF TypeOK
<1> QED
  BY <1>1, RobotInit, TypeCorrect, PTL DEF Spec, Init, RobotPromise, R!Spec

-----------------------------------------------------------------------------
(* A loop that died leaves a dead planner, if no wait has a deadline *)

(* The died error is in the queue, or was raised, only once _dead is set.  *)
DeathIsRecorded ==
  /\ loop = "crashed" => dead
  /\ dead \/ actionQ \in Seq(ActionFrames)

LEMMA DeathRecordedStep ==
  ASSUME ~Deadline, TypeOK, DeathIsRecorded, [Next]_vars
  PROVE  DeathIsRecorded'
<1> USE DEF DeathIsRecorded
<1>1. CASE UNCHANGED <<loop, dead, actionQ>>
  BY <1>1
<1>2. CASE mark_dead /\ (loop' = "crashed" => loop = "crashed")
  BY <1>2 DEF mark_dead
<1>3. CASE io_data
  <2>1. loop' = loop
    BY <1>3 DEF io_data, loopVars
  <2>2. CASE mark_dead
    BY <1>2, <2>1, <2>2
  <2>3. CASE UNCHANGED <<dead, actionQ>>
    BY <2>1, <2>3
  <2>4. CASE Head(actionCh).op = "action" /\ actionQ' = Append(actionQ, Head(actionCh)) /\ UNCHANGED dead
    <3>1. Head(actionCh) \in ActionFrames
      BY <1>3, <2>4, ChannelTypes, FieldTypes DEF io_data, TypeOK
    <3> QED
      BY <2>1, <2>4, <3>1, SeqTypes
  <2> QED
    BY <1>3, <2>2, <2>3, <2>4 DEF io_data, route_data
<1>4. CASE io_process_exited
  BY <1>2, <1>4 DEF io_process_exited, loopVars
<1>5. CASE tick_obs
  BY <1>2, <1>5 DEF tick_obs
<1>6. CASE await_action
  <2>1. CASE dead
    BY <1>6, <2>1 DEF await_action
  <2>2. CASE ~dead
    <3>1. actionQ # <<>> /\ actionQ \in Seq(ActionFrames)
      BY <1>6, <2>2 DEF await_action
    <3>2. Head(actionQ).op = "action" /\ Tail(actionQ) \in Seq(ActionFrames)
      BY <3>1, SeqTypes, FieldTypes
    <3> QED
      BY <1>6, <2>2, <3>2 DEF await_action
  <2> QED
    BY <2>1, <2>2
<1>7. CASE await_gives_up
  BY <1>7 DEF await_gives_up, patience_over, ioVars
<1>8. CASE run_loop \/ beat_acquired \/ run_loop_ends \/ tick_executing \/ follow_loop
  BY <1>8 DEF run_loop, beat_acquired, run_loop_ends, tick_executing, follow_loop,
       ioVars, loopVars
<1>9. ASSUME NEW c \in Callers, request_cancel(c) \/ request_reset(c)
      PROVE  DeathIsRecorded'
  BY <1>1, <1>2, <1>9 DEF request_cancel, request_reset, send_control, loopVars
<1>10. ASSUME NEW c \in Callers,
              drain_discards(c) \/ cancel_returns(c) \/ reset_returns(c) \/ drain_gives_up(c)
       PROVE  DeathIsRecorded'
  BY <1>1, <1>10 DEF drain_discards, cancel_returns, reset_returns, drain_gives_up,
       ioVars, loopVars
<1>11. CASE Setup \/ io_control \/ io_stop \/ Teardown
  BY <1>1, <1>11 DEF Setup, setup_start, setup_connected, setup_init_ack, setup_gives_up,
       io_control, io_stop, Teardown, owner_stops, teardown, await_bye, join_io, stop,
       ioVars, loopVars
<1>12. CASE SdkStep \/ UNCHANGED vars
  BY <1>1, <1>12, SdkLeavesEdge DEF vars, edgeVars, ioVars, loopVars
<1> QED
  BY <1>3, <1>4, <1>5, <1>6, <1>7, <1>8, <1>9, <1>10, <1>11, <1>12
     DEF Next, EdgeStep, WithSdk, EdgeNext, IoThread, RunLoop, Requesting

(* No request starts to wait for a planner that is recorded dead. *)
LEMMA DeadRefusesStep ==
  ASSUME TypeOK, DeathIsRecorded, [Next]_vars, loop = "crashed",
         NEW c \in Callers, waiting[c] = Idle
  PROVE  waiting'[c] = Idle
<1>0. dead /\ waiting \in [Callers -> Requests]
  BY DEF DeathIsRecorded, TypeOK, EdgeTypeOK
<1>1. CASE UNCHANGED waiting
  BY <1>1
<1>2. ASSUME NEW d \in Callers, request_cancel(d) \/ request_reset(d)
      PROVE  UNCHANGED waiting
  BY <1>0, <1>2 DEF request_cancel, request_reset, send_control, refused
<1>3. ASSUME NEW d \in Callers,
             drain_discards(d) \/ cancel_returns(d) \/ reset_returns(d) \/ drain_gives_up(d)
      PROVE  waiting'[c] = Idle
  BY <1>0, <1>3 DEF drain_discards, cancel_returns, reset_returns, drain_gives_up, callVars
<1>4. CASE Setup \/ IoThread \/ RunLoop \/ Teardown \/ SdkStep \/ UNCHANGED vars
  <2>1. Setup \/ IoThread \/ Teardown => UNCHANGED waiting
    BY DEF Setup, setup_start, setup_connected, setup_init_ack, setup_gives_up,
       IoThread, io_data, io_control, io_process_exited, io_stop,
       Teardown, owner_stops, teardown, await_bye, join_io, stop, callVars
  <2>2. RunLoop => UNCHANGED waiting
    BY DEF RunLoop, run_loop, beat_acquired, tick_executing, follow_loop, tick_obs,
       await_action, await_gives_up, run_loop_ends, callVars
  <2>3. SdkStep \/ UNCHANGED vars => UNCHANGED waiting
    BY SdkLeavesEdge DEF vars, edgeVars, callVars
  <2> QED
    BY <1>1, <1>4, <2>1, <2>2, <2>3
<1> QED
  BY <1>1, <1>2, <1>3, <1>4 DEF Next, EdgeStep, WithSdk, EdgeNext, Requesting

(* Without deadlines, a run loop that died of its planner leaves a node    *)
(* that refuses every request: no caller ever waits for that planner       *)
(* again.  With a deadline this is false, as the run of it shows.          *)
THEOREM DiedLoopRefuses == ~Deadline /\ Spec => DiedLoopRefusesRequests
<1> SUFFICES ASSUME ~Deadline PROVE Spec => DiedLoopRefusesRequests
  OBVIOUS
<1>1. Init => DeathIsRecorded
  BY EmptySeq DEF Init, EdgeInit, DeathIsRecorded
<1>2. TypeOK /\ DeathIsRecorded /\ [Next]_vars => DeathIsRecorded'
  BY DeathRecordedStep
<1>3. TypeOK /\ DeathIsRecorded /\ [Next]_vars =>
        [loop = "crashed" => \A c \in Callers : waiting[c] = Idle => waiting'[c] = Idle]_vars
  BY DeadRefusesStep
<1> QED
  BY <1>1, <1>2, <1>3, TypeCorrect, PTL DEF Spec, DiedLoopRefusesRequests

-----------------------------------------------------------------------------
(* Counting the frames of a channel *)

Counted(ch, ops) == {i \in DOMAIN ch : ch[i].op \in ops}

LEMMA CountedFinite ==
  ASSUME NEW S, NEW ch \in Seq(S), NEW ops
  PROVE  /\ IsFiniteSet(Counted(ch, ops))
         /\ Count(ch, ops) = Cardinality(Counted(ch, ops))
         /\ Count(ch, ops) \in Nat
<1>1. DOMAIN ch = 1 .. Len(ch) /\ Len(ch) \in Nat
  BY LenProperties
<1>2. IsFiniteSet(DOMAIN ch)
  BY <1>1, FS_Interval
<1>3. IsFiniteSet(Counted(ch, ops))
  BY <1>2, FS_Subset DEF Counted
<1>4. Count(ch, ops) = Cardinality(Counted(ch, ops))
  BY DEF Count, Counted
<1> QED
  BY <1>3, <1>4, FS_CardinalityType

LEMMA CountEmpty ==
  ASSUME NEW ops
  PROVE  Count(<<>>, ops) = 0
<1>1. Counted(<<>>, ops) = {}
  BY DEF Counted
<1> QED
  BY <1>1, FS_EmptySet DEF Count, Counted

LEMMA CountAppend ==
  ASSUME NEW S, NEW ch \in Seq(S), NEW f \in S, NEW ops
  PROVE  Count(Append(ch, f), ops) = Count(ch, ops) + (IF f.op \in ops THEN 1 ELSE 0)
<1> DEFINE new == Append(ch, f)
           n == Len(ch)
<1>1. /\ new \in Seq(S) /\ Len(new) = n + 1 /\ n \in Nat
      /\ \A i \in 1 .. n : new[i] = ch[i]
      /\ new[n + 1] = f
  BY AppendProperties, LenProperties
<1>2. DOMAIN new = 1 .. n + 1 /\ DOMAIN ch = 1 .. n
  BY <1>1, LenProperties
<1> HIDE DEF new
<1>3. Counted(new, ops) = Counted(ch, ops) \cup (IF f.op \in ops THEN {n + 1} ELSE {})
  BY <1>1, <1>2 DEF Counted
<1>4. n + 1 \notin Counted(ch, ops)
  BY <1>1, <1>2 DEF Counted
<1>5. /\ IsFiniteSet(Counted(ch, ops)) /\ Count(ch, ops) \in Nat
      /\ Count(ch, ops) = Cardinality(Counted(ch, ops))
      /\ Count(new, ops) = Cardinality(Counted(new, ops))
  BY <1>1, CountedFinite
<1>6. CASE f.op \in ops
  BY <1>3, <1>4, <1>5, <1>6, FS_AddElement, ZenonT(40) DEF new
<1>7. CASE f.op \notin ops
  BY <1>3, <1>5, <1>7 DEF new
<1> QED
  BY <1>6, <1>7

LEMMA CountTail ==
  ASSUME NEW S, NEW ch \in Seq(S), ch # <<>>, NEW ops
  PROVE  Count(ch, ops) = Count(Tail(ch), ops) + (IF Head(ch).op \in ops THEN 1 ELSE 0)
<1> DEFINE rest == Tail(ch)
           n == Len(rest)
           Shifted == Counted(ch, ops) \ {1}
           shift == [i \in Counted(rest, ops) |-> i + 1]
<1>1. /\ rest \in Seq(S) /\ n \in Nat /\ Len(ch) = n + 1 /\ Head(ch) = ch[1]
      /\ \A i \in 1 .. n : rest[i] = ch[i + 1]
  BY HeadTailProperties, LenProperties
<1>2. DOMAIN rest = 1 .. n /\ DOMAIN ch = 1 .. n + 1
  BY <1>1, LenProperties
<1> HIDE DEF rest
<1>3. /\ IsFiniteSet(Counted(ch, ops)) /\ IsFiniteSet(Counted(rest, ops))
      /\ Count(ch, ops) \in Nat /\ Count(rest, ops) \in Nat
      /\ Count(ch, ops) = Cardinality(Counted(ch, ops))
      /\ Count(rest, ops) = Cardinality(Counted(rest, ops))
  BY <1>1, CountedFinite
<1>4. shift \in Bijection(Counted(rest, ops), Shifted)
  <2>1. \A i \in Counted(rest, ops) : i \in 1 .. n /\ shift[i] = i + 1 /\ shift[i] \in Shifted
    BY <1>1, <1>2 DEF Counted
  <2>2. \A j \in Shifted : j - 1 \in Counted(rest, ops) /\ shift[j - 1] = j
    BY <1>1, <1>2 DEF Counted
  <2>3. shift \in [Counted(rest, ops) -> Shifted]
    BY <2>1
  <2>4. \A i, j \in Counted(rest, ops) : shift[i] = shift[j] => i = j
    BY <2>1
  <2> HIDE DEF shift, Shifted
  <2> QED
    BY <2>2, <2>3, <2>4 DEF Bijection, Injection, Surjection, IsInjective
<1>5. Cardinality(Shifted) = Count(rest, ops)
  <2> HIDE DEF shift, Shifted
  <2> QED
    BY <1>3, <1>4, FS_Bijection DEF ExistsBijection
<1>6. 1 \in Counted(ch, ops) <=> Head(ch).op \in ops
  BY <1>1, <1>2 DEF Counted
<1>7. Cardinality(Shifted) = IF 1 \in Counted(ch, ops) THEN Count(ch, ops) - 1 ELSE Count(ch, ops)
  BY <1>3, FS_RemoveElement
<1> QED
  BY <1>3, <1>5, <1>6, <1>7 DEF rest

(* What is left of a channel when the process at its end is gone. *)
LEMMA CountPrefix ==
  ASSUME NEW S, NEW ch \in Seq(S), NEW n \in 0 .. Len(ch), NEW ops
  PROVE  Count(SubSeq(ch, 1, n), ops) <= Count(ch, ops)
<1> DEFINE new == SubSeq(ch, 1, n)
<1>1. new \in Seq(S)
  BY PrefixType
<1>2. /\ DOMAIN ch = 1 .. Len(ch) /\ Len(ch) \in Nat
      /\ \A i \in 1 .. n : ch[i] \in S
  BY LenProperties, ElementOfSeq
<1>3. Len(new) = n /\ \A i \in 1 .. n : new[i] = ch[i]
  BY <1>2, SubSeqProperties
<1>4. DOMAIN new = 1 .. n
  BY <1>1, <1>3, LenProperties
<1>5. Counted(new, ops) \subseteq Counted(ch, ops)
  BY <1>2, <1>3, <1>4 DEF Counted
<1>6. /\ IsFiniteSet(Counted(ch, ops))
      /\ Count(ch, ops) = Cardinality(Counted(ch, ops))
      /\ Count(new, ops) = Cardinality(Counted(new, ops))
  BY <1>1, CountedFinite
<1> HIDE DEF new
<1>7. Cardinality(Counted(new, ops)) <= Cardinality(Counted(ch, ops))
  BY <1>5, <1>6, FS_Subset
<1> QED
  BY <1>6, <1>7 DEF new

(* No frame of a kind is in a channel that counts none. *)
LEMMA CountZero ==
  ASSUME NEW S, NEW ch \in Seq(S), NEW ops, Count(ch, ops) = 0
  PROVE  \A f \in Range(ch) : f.op \notin ops
<1>1. Counted(ch, ops) = {}
  BY CountedFinite, FS_EmptySet
<1> QED
  BY <1>1 DEF Counted, Range

(* What a channel holds, after each of the things done to one. *)
LEMMA RangeSteps ==
  ASSUME NEW S, NEW ch \in Seq(S)
  PROVE  /\ Range(ch) \subseteq S
         /\ \A f \in S : Range(Append(ch, f)) = Range(ch) \cup {f}
         /\ ch # <<>> => Head(ch) \in Range(ch) /\ Range(Tail(ch)) \subseteq Range(ch)
         /\ \A n \in 0 .. Len(ch) : Range(SubSeq(ch, 1, n)) \subseteq Range(ch)
<1>0. DOMAIN ch = 1 .. Len(ch) /\ Len(ch) \in Nat /\ \A i \in 1 .. Len(ch) : ch[i] \in S
  BY LenProperties, ElementOfSeq
<1>1. Range(ch) \subseteq S
  BY <1>0 DEF Range
<1>2. ASSUME NEW f \in S
      PROVE  Range(Append(ch, f)) = Range(ch) \cup {f}
  <2> DEFINE new == Append(ch, f)
  <2>1. /\ DOMAIN new = 1 .. Len(ch) + 1
        /\ \A i \in 1 .. Len(ch) : new[i] = ch[i]
        /\ new[Len(ch) + 1] = f
    BY AppendProperties, LenProperties
  <2> HIDE DEF new
  <2>2. Range(new) = Range(ch) \cup {f}
    BY <1>0, <2>1 DEF Range
  <2> QED
    BY <2>2 DEF new
<1>3. ASSUME ch # <<>>
      PROVE  Head(ch) \in Range(ch) /\ Range(Tail(ch)) \subseteq Range(ch)
  <2> DEFINE rest == Tail(ch)
  <2>1. /\ Len(ch) > 0 /\ Head(ch) = ch[1] /\ DOMAIN rest = 1 .. Len(ch) - 1
        /\ \A i \in 1 .. Len(ch) - 1 : rest[i] = ch[i + 1]
    BY <1>0, <1>3, HeadTailProperties, LenProperties, EmptySeq
  <2> HIDE DEF rest
  <2>2. Head(ch) \in Range(ch) /\ Range(rest) \subseteq Range(ch)
    BY <1>0, <2>1 DEF Range
  <2> QED
    BY <2>2 DEF rest
<1>4. ASSUME NEW n \in 0 .. Len(ch)
      PROVE  Range(SubSeq(ch, 1, n)) \subseteq Range(ch)
  <2> DEFINE new == SubSeq(ch, 1, n)
  <2>1. new \in Seq(S) /\ Len(new) = n /\ \A i \in 1 .. n : new[i] = ch[i]
    BY <1>0, PrefixType, SubSeqProperties
  <2>2. DOMAIN new = 1 .. n
    BY <2>1, LenProperties
  <2> HIDE DEF new
  <2>3. Range(new) \subseteq Range(ch)
    BY <1>0, <2>1, <2>2 DEF Range
  <2> QED
    BY <2>3 DEF new
<1> QED
  BY <1>1, <1>2, <1>3, <1>4

-----------------------------------------------------------------------------
(* Observations and actions under way *)

Frames(ch) == Count(ch, {"action"})

LEMMA InFlightTypes ==
  ASSUME TypeOK
  PROVE  /\ Len(obsCh) \in Nat /\ Frames(actionCh) \in Nat /\ Frames(actionQ) \in Nat
         /\ runs \in Nat
<1>1. obsCh \in Seq(ObsFrames) /\ actionCh \in Seq(DataIn) /\ actionQ \in Seq(ActionFrames \cup {Died})
  BY DEF TypeOK, WireTypeOK, EdgeTypeOK
<1> QED
  BY <1>1, LenProperties, CountedFinite DEF Frames, TypeOK, EdgeTypeOK

(* The end of the process loses frames and makes none. *)
LEMMA ExitFrames ==
  ASSUME NEW code, NEW actions \in Seq(DataIn), NEW acks, Exit(code, actions, acks)
  PROVE  Len(obsCh') = 0 /\ Frames(actionCh') <= Frames(actions)
BY EmptySeq, CountPrefix DEF Exit, Frames

(* A planner declared dead is no action. *)
LEMMA DiedFrames ==
  ASSUME TypeOK, mark_dead
  PROVE  Frames(actionQ') = Frames(actionQ)
<1>1. actionQ \in Seq(ActionFrames \cup {Died}) /\ Died.op \notin {"action"}
  BY DEF TypeOK, EdgeTypeOK, Died
<1>2. Frames(Append(actionQ, Died)) = Frames(actionQ)
  BY <1>1, CountAppend, InFlightTypes DEF Frames
<1> QED
  BY <1>2 DEF mark_dead

(* The planner answers each observation with at most one action. *)
LEMMA SdkFrames ==
  ASSUME TypeOK, SdkStep
  PROVE  Len(obsCh') + Frames(actionCh') <= Len(obsCh) + Frames(actionCh)
<1>t. obsCh \in Seq(ObsFrames) /\ actionCh \in Seq(DataIn)
  BY DEF TypeOK, WireTypeOK
<1>n. /\ Len(obsCh) \in Nat /\ Frames(actionCh) \in Nat
  BY InFlightTypes
<1>1. CASE UNCHANGED <<obsCh, actionCh>>
  BY <1>1, <1>n
<1>2. ASSUME NEW code, NEW acks, Exit(code, actionCh, acks)
      PROVE  Len(obsCh') + Frames(actionCh') <= Len(obsCh) + Frames(actionCh)
  <2>1. Len(obsCh') = 0 /\ Frames(actionCh') <= Frames(actionCh)
    BY <1>2, <1>t, ExitFrames
  <2>2. Frames(actionCh') \in Nat
    BY <1>2, <1>t, PrefixType, CountedFinite DEF Exit, Frames
  <2> QED
    BY <1>n, <2>1, <2>2
<1>3. CASE handle_obs
  <2>1. obsCh # <<>> /\ Head(obsCh) \in ObsFrames /\ reset \in RequestId
    BY <1>3, ChannelTypes DEF handle_obs, TypeOK, SdkTypeOK
  <2>2. ASSUME NEW go \in BOOLEAN, NEW sig \in BOOLEAN, obsCh' = Tail(obsCh),
               actionCh' = Append(actionCh, Action(Head(obsCh).seq, go, sig, reset))
        PROVE  Len(obsCh') + Frames(actionCh') <= Len(obsCh) + Frames(actionCh)
    <3>1. Action(Head(obsCh).seq, go, sig, reset) \in DataIn
      BY <2>1, FrameTypes, FieldTypes, MaxSeqAssumption DEF Seq0
    <3>2. Frames(actionCh') <= Frames(actionCh) + 1
      BY <1>t, <1>n, <2>2, <3>1, CountAppend DEF Frames
    <3>3. Len(obsCh') = Len(obsCh) - 1
      BY <1>t, <2>1, <2>2, HeadTailProperties
    <3>4. Frames(actionCh') \in Nat
      BY <1>t, <2>2, <3>1, SeqTypes, CountedFinite DEF Frames
    <3> QED
      BY <1>n, <3>2, <3>3, <3>4
  <2>3. CASE Exit("error", Append(actionCh, Error), ctrlAckCh)
    <3>1. Error \in DataIn /\ Error.op \notin {"action"}
      BY FrameTypes DEF Error
    <3>2. Append(actionCh, Error) \in Seq(DataIn) /\ Frames(Append(actionCh, Error)) = Frames(actionCh)
      BY <1>t, <1>n, <3>1, SeqTypes, CountAppend DEF Frames
    <3>3. Len(obsCh') = 0 /\ Frames(actionCh') <= Frames(actionCh)
      BY <2>3, <3>2, ExitFrames
    <3>4. Frames(actionCh') \in Nat
      BY <2>3, <3>2, PrefixType, CountedFinite DEF Exit, Frames
    <3> QED
      BY <1>n, <3>3, <3>4
  <2> QED
    BY <1>3, <2>2, <2>3 DEF handle_obs
<1>4. CASE handshake \/ handle_shutdown \/ crash
  BY <1>1, <1>2, <1>4 DEF handshake, handle_shutdown, crash
<1>5. CASE sdk_connect \/ emit_heartbeat \/ poll \/ handle_reset \/ handle_cancel
  BY <1>1, <1>5 DEF sdk_connect, emit_heartbeat, poll, handle_reset, handle_cancel, wireVars
<1> QED
  BY <1>3, <1>4, <1>5 DEF SdkStep, SdkNext

(* The I/O thread moves an action from the pipe to the queue. *)
LEMMA IoFrames ==
  ASSUME TypeOK, io_data
  PROVE  Frames(actionCh') + Frames(actionQ') <= Frames(actionCh) + Frames(actionQ)
<1>t. actionCh \in Seq(DataIn) /\ actionQ \in Seq(ActionFrames \cup {Died})
  BY DEF TypeOK, WireTypeOK, EdgeTypeOK
<1>n. Frames(actionCh) \in Nat /\ Frames(actionQ) \in Nat
  BY InFlightTypes
<1>1. /\ actionCh # <<>> /\ actionCh' = Tail(actionCh) /\ Head(actionCh) \in DataIn
      /\ Tail(actionCh) \in Seq(DataIn)
  BY ChannelTypes DEF io_data, TypeOK
<1>2. /\ Frames(actionCh') \in Nat
      /\ Frames(actionCh) = Frames(actionCh') + (IF Head(actionCh).op \in {"action"} THEN 1 ELSE 0)
  BY <1>t, <1>1, CountTail, CountedFinite DEF Frames
<1>3. CASE Head(actionCh).op = "action" /\ actionQ' = Append(actionQ, Head(actionCh))
  <2>1. Head(actionCh) \in ActionFrames \cup {Died}
    BY <1>1, <1>3, FieldTypes
  <2>2. Frames(actionQ') = Frames(actionQ) + 1
    BY <1>t, <1>3, <2>1, CountAppend DEF Frames
  <2> QED
    BY <1>n, <1>2, <1>3, <2>2
<1>4. CASE mark_dead \/ UNCHANGED actionQ
  <2>1. Frames(actionQ') = Frames(actionQ)
    BY <1>4, DiedFrames
  <2> QED
    BY <1>n, <1>2, <2>1
<1> QED
  BY <1>3, <1>4 DEF io_data, route_data

(* The loop takes one frame from the queue. *)
LEMMA AwaitFrames ==
  ASSUME TypeOK, await_action
  PROVE  /\ Frames(actionQ') <= Frames(actionQ)
         /\ Head(actionQ).op = "action" => Frames(actionQ') = Frames(actionQ) - 1
<1>1. actionQ \in Seq(ActionFrames \cup {Died}) /\ actionQ # <<>> /\ actionQ' = Tail(actionQ)
  BY DEF TypeOK, EdgeTypeOK, await_action
<1>2. Frames(actionQ') \in Nat
  BY <1>1, SeqTypes, CountedFinite DEF Frames
<1>3. Frames(actionQ) = Frames(actionQ') + (IF Head(actionQ).op \in {"action"} THEN 1 ELSE 0)
  BY <1>1, CountTail DEF Frames
<1> QED
  BY <1>2, <1>3, InFlightTypes

LEMMA BoundedStep ==
  ASSUME TypeOK, BoundedInFlight, [Next]_vars
  PROVE  BoundedInFlight'
<1> DEFINE Pipes == Len(obsCh) + Frames(actionCh)
           Queue == Frames(actionQ)
<1>n. /\ Len(obsCh) \in Nat /\ Frames(actionCh) \in Nat /\ Frames(actionQ) \in Nat
      /\ runs \in Nat /\ Pipes \in Nat /\ Queue \in Nat
  BY InFlightTypes
<1>p. /\ Len(obsCh') \in Nat /\ Frames(actionCh') \in Nat /\ Frames(actionQ') \in Nat
      /\ runs' \in Nat
  <2>1. TypeOK'
    BY TypeStep
  <2>2. obsCh' \in Seq(ObsFrames) /\ actionCh' \in Seq(DataIn) /\ actionQ' \in Seq(ActionFrames \cup {Died})
    BY <2>1 DEF TypeOK, WireTypeOK, EdgeTypeOK
  <2> QED
    BY <2>1, <2>2, LenProperties, CountedFinite DEF Frames, TypeOK, EdgeTypeOK
<1>i. Pipes + Queue <= IF loop \in {"acquire", "idle"} THEN runs - 1 ELSE runs
  BY DEF BoundedInFlight, InFlight, Frames
<1> SUFFICES Pipes' + Queue' <= IF loop' \in {"acquire", "idle"} THEN runs' - 1 ELSE runs'
  BY <1>n DEF BoundedInFlight, InFlight, Frames
<1> HIDE DEF Pipes, Queue
<1>k. ASSUME Pipes' + Queue' <= Pipes + Queue, UNCHANGED <<loop, runs>>
      PROVE  Pipes' + Queue' <= IF loop' \in {"acquire", "idle"} THEN runs' - 1 ELSE runs'
  BY <1>i, <1>k, <1>n, <1>p DEF Pipes, Queue
<1>1. CASE SdkStep
  BY <1>1, <1>k, <1>n, <1>p, SdkFrames, SdkLeavesEdge DEF Pipes, Queue, edgeVars, ioVars, loopVars
<1>2. CASE io_data
  BY <1>2, <1>k, <1>n, <1>p, IoFrames DEF Pipes, Queue, io_data, loopVars
<1>3. CASE io_process_exited
  BY <1>3, <1>k, <1>n, <1>p, DiedFrames DEF Pipes, Queue, io_process_exited, loopVars, wireVars
<1>4. CASE stop
  <2>1. CASE is_alive
    <3>1. actionCh \in Seq(DataIn)
      BY DEF TypeOK, WireTypeOK
    <3>2. Len(obsCh') = 0 /\ Frames(actionCh') <= Frames(actionCh)
      BY <1>4, <2>1, <3>1, ExitFrames DEF stop
    <3> QED
      BY <1>4, <1>k, <1>n, <1>p, <3>2 DEF Pipes, Queue, stop, ioVars, loopVars
  <2>2. CASE ~is_alive
    BY <1>4, <2>2, <1>k, <1>n DEF Pipes, Queue, stop, ioVars, loopVars, wireVars
  <2> QED
    BY <2>1, <2>2
<1>5. CASE run_loop \/ beat_acquired \/ await_gives_up \/ run_loop_ends
  <2>1. Pipes' = Pipes /\ Queue' = Queue
    BY <1>5 DEF Pipes, Queue, run_loop, beat_acquired, await_gives_up, run_loop_ends, wireVars, ioVars
  <2> QED
    BY <1>5, <1>i, <1>n, <2>1 DEF run_loop, beat_acquired, await_gives_up, run_loop_ends, LoopRunning
<1>6. CASE tick_obs
  <2>1. obsCh \in Seq(ObsFrames) /\ Obs(seq + 1) \in ObsFrames
    BY <1>6, FrameTypes, MaxSeqAssumption DEF tick_obs, TypeOK, WireTypeOK, EdgeTypeOK, Seq0
  <2>2. Len(obsCh') <= Len(obsCh) + 1
    BY <1>6, <1>n, <2>1, AppendProperties DEF tick_obs, Delivered
  <2>3. Queue' = Queue /\ Frames(actionCh') = Frames(actionCh)
    BY <1>6, DiedFrames DEF Queue, tick_obs
  <2>4. Pipes' <= Pipes + 1
    BY <1>n, <1>p, <2>2, <2>3 DEF Pipes
  <2> QED
    BY <1>6, <1>i, <1>n, <1>p, <2>3, <2>4 DEF tick_obs, Pipes, Queue
<1>7. CASE await_action
  <2>1. Pipes' = Pipes /\ runs' = runs /\ loop = "await"
    BY <1>7 DEF Pipes, await_action, wireVars
  <2>2. CASE loop' = "idle"
    <3>1. Queue' = Queue - 1
      BY <1>7, <2>2, AwaitFrames DEF await_action, Queue
    <3> QED
      BY <1>i, <1>n, <2>1, <2>2, <3>1
  <2>3. CASE loop' \in {"crashed", "await"}
    <3>1. Queue' <= Queue
      BY <1>7, AwaitFrames DEF Queue
    <3> QED
      BY <1>i, <1>n, <1>p, <2>1, <2>3, <3>1 DEF Queue
  <2> QED
    BY <1>7, <2>1, <2>2, <2>3 DEF await_action
<1>8. CASE Setup \/ io_control \/ io_stop \/ tick_executing \/ follow_loop
  BY <1>8, <1>k, <1>n DEF Pipes, Queue, Setup, setup_start, setup_connected, setup_init_ack,
     setup_gives_up, io_control, io_stop, tick_executing, follow_loop, wireVars, ioVars, loopVars
<1>9. CASE Requesting
  <2>1. Pipes' = Pipes /\ UNCHANGED <<loop, runs>>
    BY <1>9 DEF Pipes, Requesting, request_cancel, request_reset, send_control, drain_discards,
       cancel_returns, reset_returns, drain_gives_up, wireVars, loopVars
  <2>2. UNCHANGED actionQ \/ mark_dead
    BY <1>9 DEF Requesting, request_cancel, request_reset, send_control, drain_discards,
       cancel_returns, reset_returns, drain_gives_up, ioVars
  <2>3. Queue' = Queue
    BY <2>2, DiedFrames DEF Queue
  <2> QED
    BY <1>k, <1>n, <2>1, <2>3
<1>10. CASE owner_stops \/ teardown \/ await_bye \/ join_io
  BY <1>10, <1>k, <1>n DEF Pipes, Queue, owner_stops, teardown, await_bye, join_io, wireVars,
     ioVars, loopVars
<1>11. CASE UNCHANGED vars
  BY <1>11, <1>k, <1>n DEF Pipes, Queue, vars, wireVars, edgeVars, ioVars, loopVars
<1> QED
  BY <1>1, <1>2, <1>3, <1>4, <1>5, <1>6, <1>7, <1>8, <1>9, <1>10, <1>11
     DEF Next, EdgeStep, WithSdk, EdgeNext, IoThread, RunLoop, Teardown

(* For every bound of the session the loop asks again only once it was     *)
(* answered, so the frames of the two data pipes and of the action queue   *)
(* never outnumber the runs of the loop.                                   *)
THEOREM InFlightBounded == Spec => []BoundedInFlight
<1>1. Init => BoundedInFlight
  BY CountEmpty, EmptySeq
     DEF Init, WireInit, EdgeInit, BoundedInFlight, InFlight
<1>2. TypeOK /\ BoundedInFlight /\ [Next]_vars => BoundedInFlight'
  BY BoundedStep
<1> QED
  BY <1>1, <1>2, TypeCorrect, PTL DEF Spec

-----------------------------------------------------------------------------
(* How a planner that neither fails nor crashes ends *)

Healthy == ~Crashes /\ ~StepsCanFail /\ ~MixedVersions

(* A planner that has not accepted the Init, or that refused it: the node  *)
(* is not in a session with it.                                            *)
NoSession == proc \in {"new", "spawned"} \/ sdk = "handshake" \/ rc = "error"

LifeInv ==
  /\ sdk # "off" <=> proc = "connected"
  /\ proc # "exited" => rc = "none"
  /\ outcome # "none" => stage = "down"
  /\ outcome = "raised" => io = "off"
  /\ NoSession => io = "off" /\ \A f \in Range(ctrlAckCh) : f.op # "init_ack"

(* How the planner process can end, and what it may have sent by then. *)
LEMMA ExitLife ==
  ASSUME NEW code, NEW actions, NEW acks \in Seq(ControlIn), Exit(code, actions, acks)
  PROVE  proc' = "exited" /\ rc' = code /\ Range(ctrlAckCh') \subseteq Range(acks)
BY RangeSteps DEF Exit

LEMMA SdkLife ==
  ASSUME Healthy, TypeOK, LifeInv, SdkStep
  PROVE  LifeInv'
<1>0. UNCHANGED <<outcome, stage, io>> /\ ctrlAckCh \in Seq(ControlIn)
  BY SdkLeavesEdge DEF edgeVars, lifeVars, ioVars, TypeOK, WireTypeOK
<1> USE DEF LifeInv, NoSession
<1>1. CASE sdk_connect
  BY <1>0, <1>1 DEF sdk_connect, wireVars
<1>2. CASE handshake
  <2>1. ASSUME Exit("error", actionCh, ctrlAckCh), sdk_exit
        PROVE  LifeInv'
    BY <1>0, <1>2, <2>1, ExitLife DEF handshake, sdk_exit
  <2>2. CASE sdk' = "run" /\ UNCHANGED procVars
    <3>1. sdk = "handshake" /\ rc = "none" /\ proc = "connected"
      BY <1>2 DEF handshake
    <3> QED
      BY <1>0, <2>2, <3>1 DEF procVars
  <2> QED
    BY <1>2, <2>1, <2>2 DEF handshake, Healthy
<1>3. CASE emit_heartbeat
  <2>1. sdk = "run" /\ UNCHANGED <<sdk, proc, rc>>
    BY <1>3 DEF emit_heartbeat, sdkVars, procVars
  <2> QED
    BY <1>0, <2>1
<1>4. CASE poll
  BY <1>0, <1>4 DEF poll, wireVars, procVars
<1>5. ASSUME UNCHANGED <<sdk, proc, rc>>, NEW f \in ControlIn, f.op # "init_ack",
             ctrlAckCh' = Append(ctrlAckCh, f)
      PROVE  LifeInv'
  BY <1>0, <1>5, RangeSteps
<1>6. CASE handle_reset \/ handle_cancel
  <2>1. PICK op \in {"reset_ack", "cancel_ack"} :
          /\ controlCh # <<>> /\ ctrlAckCh' = Append(ctrlAckCh, Ack(op, Head(controlCh).n))
          /\ UNCHANGED <<sdk, proc, rc>>
    BY <1>6 DEF handle_reset, handle_cancel, procVars
  <2>2. Head(controlCh).n \in RequestId
    BY <2>1, ChannelTypes, FieldTypes DEF TypeOK
  <2>3. Ack(op, Head(controlCh).n) \in ControlIn /\ Ack(op, Head(controlCh).n).op # "init_ack"
    BY <2>2, FrameTypes DEF Ack
  <2> QED
    BY <1>5, <2>1, <2>3
<1>7. CASE handle_shutdown
  <2>1. Ack("bye", 0) \in ControlIn
    BY FrameTypes
  <2>2. Append(ctrlAckCh, Ack("bye", 0)) \in Seq(ControlIn)
    BY <1>0, <2>1, SeqTypes
  <2>3. proc' = "exited" /\ rc' = "zero" /\ sdk' = "off"
    BY <1>7, <2>2, ExitLife DEF handle_shutdown, sdk_exit
  <2> QED
    BY <1>0, <2>3
<1>8. CASE handle_obs
  BY <1>0, <1>8 DEF handle_obs, Healthy, procVars
<1> QED
  BY <1>1, <1>2, <1>3, <1>4, <1>6, <1>7, <1>8 DEF SdkStep, SdkNext, crash, Healthy

LEMMA EdgeLife ==
  ASSUME TypeOK, LifeInv, EdgeStep
  PROVE  LifeInv'
<1>0. ctrlAckCh \in Seq(ControlIn)
  BY DEF TypeOK, WireTypeOK
<1> USE DEF LifeInv, NoSession
<1>1. CASE setup_start
  BY <1>1 DEF setup_start, start, EdgeStep, WithSdk, wireVars, sdkVars, ioVars
<1>2. CASE setup_init_ack
  <2>1. Head(ctrlAckCh) \in Range(ctrlAckCh) /\ Range(ctrlAckCh') \subseteq Range(ctrlAckCh)
    BY <1>0, <1>2, RangeSteps DEF setup_init_ack
  <2>2. UNCHANGED <<proc, rc, sdk, outcome>> /\ outcome = "none"
    BY <1>2 DEF setup_init_ack, EdgeStep, WithSdk, procVars, sdkVars, TypeOK, EdgeTypeOK
  <2>3. io' # io => ~NoSession
    BY <1>2, <2>1 DEF setup_init_ack
  <2> QED
    BY <2>1, <2>2, <2>3
<1>3. ASSUME UNCHANGED <<proc, rc, outcome>>, outcome # "none" => stage' = stage,
             io' = io \/ (io = "running" /\ io' = "stopped"),
             ctrlAckCh' = ctrlAckCh \/ (ctrlAckCh # <<>> /\ ctrlAckCh' = Tail(ctrlAckCh))
      PROVE  LifeInv'
  <2>1. Range(ctrlAckCh') \subseteq Range(ctrlAckCh)
    BY <1>0, <1>3, RangeSteps
  <2>2. UNCHANGED sdk
    BY <1>3 DEF EdgeStep, WithSdk, sdkVars
  <2>3. io = "off" => io' = "off"
    BY <1>3
  <2> QED
    BY <1>3, <2>1, <2>2, <2>3
<1>4. CASE setup_connected \/ setup_gives_up
  BY <1>3, <1>4 DEF setup_connected, setup_gives_up, procVars, ioVars, wireVars
<1>5. CASE IoThread
  <2>1. UNCHANGED <<proc, rc, outcome, stage>>
    BY <1>5 DEF IoThread, io_data, io_control, io_process_exited, io_stop, procVars, lifeVars
  <2>2. io = "running" /\ io' \in {"running", "stopped"}
    BY <1>5 DEF IoThread, io_data, io_control, io_process_exited, io_stop
  <2>3. ctrlAckCh' = ctrlAckCh \/ (ctrlAckCh # <<>> /\ ctrlAckCh' = Tail(ctrlAckCh))
    <3>1. CASE io_control
      BY <3>1 DEF io_control
    <3>2. CASE io_data \/ io_process_exited \/ io_stop
      BY <3>2 DEF io_data, io_process_exited, io_stop, wireVars
    <3> QED
      BY <1>5, <3>1, <3>2 DEF IoThread
  <2> QED
    BY <1>3, <2>1, <2>2, <2>3
<1>6. CASE RunLoop
  BY <1>3, <1>6 DEF RunLoop, run_loop, beat_acquired, tick_executing, follow_loop, tick_obs,
     await_action, await_gives_up, run_loop_ends, wireVars, procVars, lifeVars, ioVars
<1>7. CASE Requesting
  BY <1>3, <1>7 DEF Requesting, request_cancel, request_reset, send_control, drain_discards,
     cancel_returns, reset_returns, drain_gives_up, wireVars, procVars, lifeVars, ioVars
<1>8. CASE owner_stops \/ teardown \/ join_io
  BY <1>3, <1>8 DEF owner_stops, teardown, join_io, wireVars, procVars, ioVars
<1>9. CASE await_bye
  BY <1>3, <1>9 DEF await_bye, procVars
<1>10. CASE stop
  <2>1. stage = "joined" /\ stage' = "down" /\ io' = io /\ outcome = "none"
    BY <1>10 DEF stop, ioVars
  <2>2. CASE is_alive
    <3>1. PICK code \in {"term", "kill"} : Exit(code, actionCh, ctrlAckCh)
      BY <1>10, <2>2 DEF stop
    <3>2. proc' = "exited" /\ rc' \in {"term", "kill"} /\ outcome' = "ok" /\ sdk' = "off"
      BY <1>10, <2>2, <3>1 DEF Exit, stop, CleanCodes, is_alive, EdgeStep, WithSdk, sdk_exit
    <3> QED
      BY <2>1, <3>2
  <2>3. CASE ~is_alive
    <3>1. UNCHANGED <<proc, rc, ctrlAckCh, sdk>>
      BY <1>10, <2>3 DEF stop, procVars, wireVars, sdkVars, EdgeStep, WithSdk
    <3>2. outcome' = "raised" => rc = "error"
      BY <1>10, <3>1 DEF stop, CleanCodes, TypeOK, ProcTypeOK
    <3> QED
      BY <2>1, <3>1, <3>2
  <2> QED
    BY <2>2, <2>3
<1> QED
  BY <1>1, <1>2, <1>4, <1>5, <1>6, <1>7, <1>8, <1>9, <1>10
     DEF EdgeStep, WithSdk, EdgeNext, Setup, Teardown

(* A planner that neither fails nor crashes and speaks the node's version  *)
(* is torn down without an error once it took part in a session, for any   *)
(* number of callers, requests and runs, and with or without deadlines.    *)
THEOREM HealthyEnd ==
  ~Crashes /\ ~StepsCanFail /\ ~MixedVersions /\ Spec => []HealthyTeardown
<1> SUFFICES ASSUME Healthy PROVE Spec => []HealthyTeardown
  BY DEF Healthy
<1>1. Init => LifeInv
  BY DEF Init, WireInit, ProcInit, EdgeInit, SdkInit, LifeInv, NoSession, Range
<1>2. TypeOK /\ LifeInv /\ [Next]_vars => LifeInv'
  <2>1. LifeInv /\ UNCHANGED vars => LifeInv'
    BY DEF LifeInv, NoSession, vars, wireVars, procVars, edgeVars, lifeVars, ioVars, sdkVars
  <2> QED
    BY <2>1, SdkLife, EdgeLife DEF Next
<1>3. LifeInv => HealthyTeardown
  BY DEF LifeInv, HealthyTeardown
<1> QED
  BY <1>1, <1>2, <1>3, TypeCorrect, PTL DEF Spec

-----------------------------------------------------------------------------
(* The requests and their acks *)

OneCaller == \A c, d \in Callers : c = d

AskOps == {"reset", "cancel"}
AckOps == {"reset_ack", "cancel_ack"}
AckOf(op) == IF op = "reset" THEN "reset_ack" ELSE "cancel_ack"

Asks == {f \in Range(controlCh) : f.op \in AskOps}
Acks == {f \in Range(ctrlAckCh) \cup Range(ackQ) : f.op \in AckOps}
UnderWay ==
  Count(controlCh, AskOps) + Count(ctrlAckCh, AckOps) + Count(ackQ, AckOps)

LEMMA UnderWayTypes ==
  ASSUME TypeOK
  PROVE  /\ controlCh \in Seq(ControlFrames) /\ ctrlAckCh \in Seq(ControlIn)
         /\ ackQ \in Seq(AckFrames \cup ErrorFrames)
         /\ Count(controlCh, AskOps) \in Nat /\ Count(ctrlAckCh, AckOps) \in Nat
         /\ Count(ackQ, AckOps) \in Nat
<1>1. /\ controlCh \in Seq(ControlFrames) /\ ctrlAckCh \in Seq(ControlIn)
      /\ ackQ \in Seq(AckFrames \cup ErrorFrames)
  BY DEF TypeOK, WireTypeOK, EdgeTypeOK
<1> QED
  BY <1>1, CountedFinite

(* With at most one frame under way, a channel that has one leaves none    *)
(* for the others.                                                         *)
LEMMA Exclusive ==
  ASSUME TypeOK
  PROVE  /\ UnderWay = 0 => Asks = {} /\ Acks = {}
         /\ UnderWay <= 1 /\ Acks # {} => Asks = {}
<1>1. /\ Count(controlCh, AskOps) = 0 => Asks = {}
      /\ Count(ctrlAckCh, AckOps) = 0 /\ Count(ackQ, AckOps) = 0 => Acks = {}
  <2>1. Count(controlCh, AskOps) = 0 => \A f \in Range(controlCh) : f.op \notin AskOps
    BY UnderWayTypes, CountZero
  <2>2. Count(ctrlAckCh, AckOps) = 0 => \A f \in Range(ctrlAckCh) : f.op \notin AckOps
    BY UnderWayTypes, CountZero
  <2>3. Count(ackQ, AckOps) = 0 => \A f \in Range(ackQ) : f.op \notin AckOps
    BY UnderWayTypes, CountZero
  <2> QED
    BY <2>1, <2>2, <2>3 DEF Asks, Acks
<1> QED
  BY <1>1, UnderWayTypes DEF UnderWay

-----------------------------------------------------------------------------
(* Channels that lose frames of a kind, or keep them *)

Kept(new, old, ops) ==
  /\ Count(new, ops) \in Nat /\ Count(old, ops) \in Nat /\ Count(new, ops) <= Count(old, ops)
  /\ \A f \in Range(new) : f.op \in ops => f \in Range(old)

LEMMA KeptSteps ==
  ASSUME NEW S, NEW ch \in Seq(S), NEW ops
  PROVE  /\ Kept(ch, ch, ops)
         /\ Kept(<<>>, ch, ops)
         /\ ch # <<>> => Kept(Tail(ch), ch, ops)
         /\ \A f \in S : f.op \notin ops => Kept(Append(ch, f), ch, ops)
         /\ \A n \in 0 .. Len(ch) : Kept(SubSeq(ch, 1, n), ch, ops)
<1>0. Count(ch, ops) \in Nat
  BY CountedFinite
<1>1. Kept(ch, ch, ops)
  BY <1>0 DEF Kept
<1>2. Kept(<<>>, ch, ops)
  BY <1>0, CountEmpty DEF Kept, Range
<1>3. ASSUME ch # <<>> PROVE Kept(Tail(ch), ch, ops)
  <2>1. Tail(ch) \in Seq(S)
    BY <1>3, SeqTypes
  <2>2. Count(Tail(ch), ops) \in Nat
    BY <2>1, CountedFinite
  <2>3. Count(Tail(ch), ops) <= Count(ch, ops)
    BY <1>0, <1>3, <2>2, CountTail
  <2> QED
    BY <1>0, <1>3, <2>2, <2>3, RangeSteps DEF Kept
<1>4. ASSUME NEW f \in S, f.op \notin ops PROVE Kept(Append(ch, f), ch, ops)
  <2>1. Count(Append(ch, f), ops) = Count(ch, ops)
    BY <1>0, <1>4, CountAppend
  <2>2. Range(Append(ch, f)) = Range(ch) \cup {f}
    BY RangeSteps
  <2> QED
    BY <1>0, <1>4, <2>1, <2>2 DEF Kept
<1>5. ASSUME NEW n \in 0 .. Len(ch) PROVE Kept(SubSeq(ch, 1, n), ch, ops)
  <2>1. SubSeq(ch, 1, n) \in Seq(S)
    BY PrefixType
  <2>2. Count(SubSeq(ch, 1, n), ops) \in Nat
    BY <2>1, CountedFinite
  <2>3. Count(SubSeq(ch, 1, n), ops) <= Count(ch, ops)
    BY CountPrefix
  <2> QED
    BY <1>0, <2>2, <2>3, RangeSteps DEF Kept
<1> QED
  BY <1>1, <1>2, <1>3, <1>4, <1>5

LEMMA KeptTwice ==
  ASSUME NEW a, NEW b, NEW c, NEW ops, Kept(a, b, ops), Kept(b, c, ops)
  PROVE  Kept(a, c, ops)
BY DEF Kept

(* No request and no ack comes into being. *)
NoneNew == UnderWay' <= UnderWay /\ Asks' \subseteq Asks /\ Acks' \subseteq Acks

LEMMA KeptAll ==
  ASSUME Kept(controlCh', controlCh, AskOps), Kept(ctrlAckCh', ctrlAckCh, AckOps),
         Kept(ackQ', ackQ, AckOps)
  PROVE  NoneNew
<1>1. UnderWay' <= UnderWay
  BY DEF Kept, UnderWay
<1>2. Asks' \subseteq Asks /\ Acks' \subseteq Acks
  BY DEF Kept, Asks, Acks
<1> QED
  BY <1>1, <1>2 DEF NoneNew

LEMMA KeptChannels ==
  ASSUME TypeOK
  PROVE  /\ UNCHANGED controlCh => Kept(controlCh', controlCh, AskOps)
         /\ UNCHANGED ctrlAckCh => Kept(ctrlAckCh', ctrlAckCh, AckOps)
         /\ UNCHANGED ackQ => Kept(ackQ', ackQ, AckOps)
         /\ controlCh # <<>> /\ controlCh' = Tail(controlCh) => Kept(controlCh', controlCh, AskOps)
         /\ ctrlAckCh # <<>> /\ ctrlAckCh' = Tail(ctrlAckCh) => Kept(ctrlAckCh', ctrlAckCh, AckOps)
         /\ ackQ # <<>> /\ ackQ' = Tail(ackQ) => Kept(ackQ', ackQ, AckOps)
         /\ \A op \in {"init", "shutdown"} :
              controlCh' = Append(controlCh, Control(op, 0)) => Kept(controlCh', controlCh, AskOps)
         /\ \A op \in {"init_ack", "bye", "heartbeat"} :
              Kept(Append(ctrlAckCh, Ack(op, 0)), ctrlAckCh, AckOps)
         /\ Kept(Append(ctrlAckCh, Error), ctrlAckCh, AckOps)
<1>t. /\ controlCh \in Seq(ControlFrames) /\ ctrlAckCh \in Seq(ControlIn)
      /\ ackQ \in Seq(AckFrames \cup ErrorFrames)
  BY UnderWayTypes
<1>1. /\ UNCHANGED controlCh => Kept(controlCh', controlCh, AskOps)
      /\ controlCh # <<>> /\ controlCh' = Tail(controlCh) => Kept(controlCh', controlCh, AskOps)
  BY <1>t, KeptSteps
<1>2. /\ UNCHANGED ctrlAckCh => Kept(ctrlAckCh', ctrlAckCh, AckOps)
      /\ ctrlAckCh # <<>> /\ ctrlAckCh' = Tail(ctrlAckCh) => Kept(ctrlAckCh', ctrlAckCh, AckOps)
  BY <1>t, KeptSteps
<1>3. /\ UNCHANGED ackQ => Kept(ackQ', ackQ, AckOps)
      /\ ackQ # <<>> /\ ackQ' = Tail(ackQ) => Kept(ackQ', ackQ, AckOps)
  BY <1>t, KeptSteps
<1>4. ASSUME NEW op \in {"init", "shutdown"}, controlCh' = Append(controlCh, Control(op, 0))
      PROVE  Kept(controlCh', controlCh, AskOps)
  <2>1. Control(op, 0) \in ControlFrames /\ Control(op, 0).op \notin AskOps
    BY FrameTypes DEF Control, AskOps
  <2> QED
    BY <1>t, <1>4, <2>1, KeptSteps
<1>5. ASSUME NEW op \in {"init_ack", "bye", "heartbeat"}
      PROVE  Kept(Append(ctrlAckCh, Ack(op, 0)), ctrlAckCh, AckOps)
  <2>1. Ack(op, 0) \in ControlIn /\ Ack(op, 0).op \notin AckOps
    BY FrameTypes DEF Ack, AckOps
  <2> QED
    BY <1>t, <2>1, KeptSteps
<1>6. Kept(Append(ctrlAckCh, Error), ctrlAckCh, AckOps)
  <2>1. Error \in ControlIn /\ Error.op \notin AckOps
    BY FrameTypes DEF Error, AckOps
  <2> QED
    BY <1>t, <2>1, KeptSteps
<1> QED
  BY <1>1, <1>2, <1>3, <1>4, <1>5, <1>6

(* The end of the process loses requests and acks. *)
LEMMA ExitKeeps ==
  ASSUME TypeOK, NEW code, NEW actions, NEW acks \in Seq(ControlIn), Exit(code, actions, acks),
         Kept(acks, ctrlAckCh, AckOps), UNCHANGED ackQ
  PROVE  NoneNew
<1>1. Kept(controlCh', controlCh, AskOps)
  BY UnderWayTypes, KeptSteps DEF Exit
<1>2. Kept(ctrlAckCh', acks, AckOps)
  BY KeptSteps DEF Exit
<1>3. Kept(ctrlAckCh', ctrlAckCh, AckOps)
  BY <1>2, KeptTwice
<1> QED
  BY <1>1, <1>3, KeptAll, KeptChannels

-----------------------------------------------------------------------------
(* Every step but the ones that send a request or answer one *)

LEMMA SdkKeeps ==
  ASSUME TypeOK, SdkStep, ~handle_reset, ~handle_cancel
  PROVE  NoneNew
<1>0. ackQ' = ackQ /\ ctrlAckCh \in Seq(ControlIn)
  BY SdkLeavesEdge, UnderWayTypes DEF edgeVars, ioVars
<1>1. CASE sdk_connect \/ poll
  BY <1>0, <1>1, KeptAll, KeptChannels DEF sdk_connect, poll, wireVars
<1>2. CASE handshake
  <2>1. CASE controlCh' = Tail(controlCh) /\ ctrlAckCh' = Append(ctrlAckCh, Ack("init_ack", 0))
    BY <1>0, <1>2, <2>1, KeptAll, KeptChannels DEF handshake
  <2>2. CASE Exit("error", actionCh, Append(ctrlAckCh, Error))
    BY <1>0, <2>2, ExitKeeps, KeptChannels, SeqTypes, FrameTypes
  <2>3. CASE Exit("error", actionCh, ctrlAckCh)
    BY <1>0, <2>3, ExitKeeps, KeptSteps
  <2> QED
    BY <1>2, <2>1, <2>2, <2>3 DEF handshake
<1>3. CASE emit_heartbeat
  BY <1>0, <1>3, KeptAll, KeptChannels DEF emit_heartbeat
<1>4. CASE handle_shutdown
  BY <1>0, <1>4, ExitKeeps, KeptChannels, SeqTypes, FrameTypes DEF handle_shutdown
<1>5. CASE handle_obs
  <2>1. CASE Exit("error", Append(actionCh, Error), ctrlAckCh)
    BY <1>0, <2>1, ExitKeeps, KeptSteps
  <2>2. CASE UNCHANGED <<controlCh, ctrlAckCh>>
    BY <1>0, <2>2, KeptAll, KeptChannels
  <2> QED
    BY <1>5, <2>1, <2>2 DEF handle_obs
<1>6. CASE crash
  BY <1>0, <1>6, ExitKeeps, KeptSteps DEF crash
<1> QED
  BY <1>1, <1>2, <1>3, <1>4, <1>5, <1>6 DEF SdkStep, SdkNext

(* The I/O thread moves an ack from the pipe to the queue. *)
LEMMA IoKeeps ==
  ASSUME TypeOK, io_control
  PROVE  NoneNew
<1> DEFINE f == Head(ctrlAckCh)
<1>t. ctrlAckCh \in Seq(ControlIn) /\ ackQ \in Seq(AckFrames \cup ErrorFrames)
  BY UnderWayTypes
<1>n. /\ Count(controlCh, AskOps) \in Nat /\ Count(ctrlAckCh, AckOps) \in Nat
      /\ Count(ackQ, AckOps) \in Nat
  BY UnderWayTypes
<1>1. ctrlAckCh # <<>> /\ ctrlAckCh' = Tail(ctrlAckCh) /\ controlCh' = controlCh
  BY DEF io_control
<1>2. /\ f \in Range(ctrlAckCh) /\ Range(ctrlAckCh') \subseteq Range(ctrlAckCh)
      /\ Tail(ctrlAckCh) \in Seq(ControlIn) /\ f \in ControlIn
  BY <1>t, <1>1, RangeSteps, SeqTypes
<1>3. /\ Count(ctrlAckCh', AckOps) \in Nat
      /\ Count(ctrlAckCh, AckOps) = Count(ctrlAckCh', AckOps) + (IF f.op \in AckOps THEN 1 ELSE 0)
  BY <1>t, <1>1, <1>2, CountedFinite, CountTail
<1>4. CASE f.op \in {"heartbeat", "garbage"}
  BY <1>1, <1>4, KeptAll, KeptChannels DEF io_control
<1>5. CASE f.op \notin {"heartbeat", "garbage"}
  <2>1. f \in AckFrames \cup ErrorFrames
    BY <1>2, <1>5, FieldTypes
  <2>2. ackQ' = Append(ackQ, f)
    BY <1>5 DEF io_control
  <2>3. Count(ackQ', AckOps) = Count(ackQ, AckOps) + (IF f.op \in AckOps THEN 1 ELSE 0)
    BY <1>t, <2>1, <2>2, CountAppend
  <2>4. Range(ackQ') = Range(ackQ) \cup {f}
    BY <1>t, <2>1, <2>2, RangeSteps
  <2>5. UnderWay' <= UnderWay
    BY <1>n, <1>1, <1>3, <2>3 DEF UnderWay
  <2> QED
    BY <1>1, <1>2, <2>4, <2>5 DEF NoneNew, Asks, Acks
<1> QED
  BY <1>4, <1>5

LEMMA EdgeKeeps ==
  ASSUME TypeOK, EdgeStep, \A c \in Callers : ~request_cancel(c) /\ ~request_reset(c)
  PROVE  NoneNew
<1> DEFINE Same == UNCHANGED <<controlCh, ctrlAckCh, ackQ>>
<1>0. CASE Same
  BY <1>0, KeptAll, KeptChannels
<1>1. CASE setup_start \/ setup_gives_up
  BY <1>0, <1>1 DEF setup_start, setup_gives_up, wireVars, ioVars
<1>2. CASE setup_connected
  BY <1>2, KeptAll, KeptChannels DEF setup_connected, ioVars
<1>3. CASE setup_init_ack
  BY <1>3, KeptAll, KeptChannels DEF setup_init_ack
<1>4. CASE io_data \/ io_process_exited \/ io_stop
  BY <1>0, <1>4 DEF io_data, io_process_exited, io_stop, wireVars
<1>5. CASE io_control
  BY <1>5, IoKeeps
<1>6. CASE RunLoop
  BY <1>0, <1>6 DEF RunLoop, run_loop, beat_acquired, tick_executing, follow_loop, tick_obs,
     await_action, await_gives_up, run_loop_ends, wireVars, ioVars
<1>7. ASSUME NEW c \in Callers, drain_discards(c) \/ cancel_returns(c) \/ reset_returns(c)
      PROVE  NoneNew
  BY <1>7, KeptAll, KeptChannels DEF drain_discards, cancel_returns, reset_returns, wireVars
<1>8. ASSUME NEW c \in Callers, drain_gives_up(c)
      PROVE  NoneNew
  BY <1>0, <1>8 DEF drain_gives_up, wireVars, ioVars
<1>9. CASE owner_stops \/ join_io
  BY <1>0, <1>9 DEF owner_stops, join_io, wireVars, ioVars
<1>10. CASE teardown
  <2>1. Kept(controlCh', controlCh, AskOps)
    BY <1>10, KeptChannels DEF teardown, Delivered
  <2> QED
    BY <1>10, <2>1, KeptAll, KeptChannels DEF teardown, ioVars
<1>11. CASE await_bye
  BY <1>11, KeptAll, KeptChannels DEF await_bye
<1>12. CASE stop
  BY <1>0, <1>12, ExitKeeps, KeptSteps, UnderWayTypes DEF stop, ioVars, wireVars
<1> QED
  BY <1>1, <1>2, <1>3, <1>4, <1>5, <1>6, <1>7, <1>8, <1>9, <1>10, <1>11, <1>12
     DEF EdgeStep, WithSdk, EdgeNext, Setup, IoThread, Requesting, Teardown

(* The planner answers the request at the head of the pipe with its ack. *)
LEMMA HandleFlow ==
  ASSUME TypeOK, SdkStep, handle_reset \/ handle_cancel
  PROVE  LET f == Head(controlCh) IN
           /\ f \in Asks /\ UnderWay' = UnderWay /\ Asks' \subseteq Asks
           /\ Acks' = Acks \cup {Ack(AckOf(f.op), f.n)}
           /\ f.op = "reset" <=> handle_reset
           /\ f.op = "cancel" <=> handle_cancel
<1> DEFINE f == Head(controlCh)
           a == Ack(AckOf(f.op), f.n)
<1>t. controlCh \in Seq(ControlFrames) /\ ctrlAckCh \in Seq(ControlIn)
  BY UnderWayTypes
<1>n. /\ Count(controlCh, AskOps) \in Nat /\ Count(ctrlAckCh, AckOps) \in Nat
      /\ Count(ackQ, AckOps) \in Nat
  BY UnderWayTypes
<1>1. /\ controlCh # <<>> /\ controlCh' = Tail(controlCh)
      /\ f.op = "reset" <=> handle_reset
      /\ f.op = "cancel" <=> handle_cancel
      /\ f.op \in AskOps
    BY DEF handle_reset, handle_cancel, AskOps
<1>2. ctrlAckCh' = Append(ctrlAckCh, a)
    BY DEF handle_reset, handle_cancel, AckOf
<1>3. /\ f \in Range(controlCh) /\ Range(controlCh') \subseteq Range(controlCh)
      /\ Tail(controlCh) \in Seq(ControlFrames)
      /\ f.n \in RequestId
  BY <1>t, <1>1, RangeSteps, SeqTypes, FieldTypes
<1>4. a \in ControlIn /\ a.op \in AckOps
  BY <1>3, FrameTypes DEF AckOf, Ack, AckOps
<1>5. /\ Count(controlCh', AskOps) \in Nat
      /\ Count(controlCh, AskOps) = Count(controlCh', AskOps) + 1
  BY <1>t, <1>1, <1>3, CountedFinite, CountTail
<1>6. Count(ctrlAckCh', AckOps) = Count(ctrlAckCh, AckOps) + 1
  BY <1>t, <1>2, <1>4, CountAppend
<1>7. ackQ' = ackQ
  BY SdkLeavesEdge DEF edgeVars, ioVars
<1>8. Range(ctrlAckCh') = Range(ctrlAckCh) \cup {a}
  BY <1>t, <1>2, <1>4, RangeSteps
<1>9. UnderWay' = UnderWay
  BY <1>n, <1>5, <1>6, <1>7 DEF UnderWay
<1> HIDE DEF a
<1>10. f \in Asks /\ Asks' \subseteq Asks /\ Acks' = Acks \cup {a}
  BY <1>1, <1>3, <1>4, <1>7, <1>8 DEF Asks, Acks
<1> QED
  BY <1>1, <1>9, <1>10 DEF a

(* A request that is sent adds one frame, one that is not adds none. *)
LEMMA SendFlow ==
  ASSUME TypeOK, NEW c \in Callers, NEW op \in AskOps, requests < MaxRequests,
         send_control(c, op), UNCHANGED <<ctrlAckCh, ackQ>>
  PROVE  /\ Acks' = Acks
         /\ \/ NoneNew /\ UNCHANGED waiting
            \/ /\ ~dead /\ UnderWay' <= UnderWay + 1
               /\ Asks' \subseteq Asks \cup {Control(op, requests + 1)}
               /\ waiting' = [waiting EXCEPT ![c] = [op |-> op, n |-> requests + 1]]
<1> DEFINE f == Control(op, requests + 1)
<1>t. controlCh \in Seq(ControlFrames)
  BY UnderWayTypes
<1>n. /\ Count(controlCh, AskOps) \in Nat /\ Count(ctrlAckCh, AckOps) \in Nat
      /\ Count(ackQ, AckOps) \in Nat
  BY UnderWayTypes
<1>1. Acks' = Acks
  BY DEF Acks
<1>2. CASE UNCHANGED controlCh
  <2>1. UnderWay' = UnderWay /\ UnderWay \in Nat /\ Asks' = Asks
    BY <1>2, <1>n DEF UnderWay, Asks
  <2>2. NoneNew
    BY <1>1, <2>1 DEF NoneNew
  <2> QED
    BY <1>1, <2>1, <2>2 DEF send_control, refused
<1>3. CASE controlCh' = Append(controlCh, f)
  <2>1. requests + 1 \in RequestId
    BY MaxRequestsAssumption DEF TypeOK, EdgeTypeOK, RequestId
  <2>2. f \in ControlFrames /\ f.op \in AskOps
    BY <2>1, FrameTypes DEF Control, AskOps
  <2>3. Count(controlCh', AskOps) = Count(controlCh, AskOps) + 1
    BY <1>t, <1>3, <2>2, CountAppend
  <2>4. Range(controlCh') = Range(controlCh) \cup {f}
    BY <1>t, <1>3, <2>2, RangeSteps
  <2>5. UnderWay' = UnderWay + 1
    BY <1>n, <2>3 DEF UnderWay
  <2>6. Asks' \subseteq Asks \cup {f}
    BY <2>4 DEF Asks
  <2> QED
    BY <1>1, <1>3, <2>5, <2>6 DEF send_control, refused
<1> QED
  BY <1>2, <1>3 DEF send_control, Delivered

-----------------------------------------------------------------------------
(* One request at a time *)

Live == stage \in {"new", "connecting", "init_ack", "ready"} /\ ~dead
AllIdle == \A c \in Callers : waiting[c] = Idle

RequestInv ==
  /\ UnderWay <= 1
  /\ AllIdle /\ Live => UnderWay = 0
  /\ \A c \in Callers : waiting[c] # Idle =>
       /\ \A f \in Asks : f.op = waiting[c].op /\ f.n = waiting[c].n
       /\ \A f \in Acks : f.op = AckOf(waiting[c].op) /\ f.n = waiting[c].n

(* A session that is over does not start again. *)
LEMMA LiveBefore ==
  ASSUME TypeOK, [Next]_vars, Live'
  PROVE  Live
<1>d. dead \in BOOLEAN
  BY DEF TypeOK, EdgeTypeOK
<1>0. CASE UNCHANGED <<stage, dead>>
  BY <1>0 DEF Live
<1>m. ~mark_dead
  BY DEF mark_dead, Live
<1>1. CASE Setup
  BY <1>1, <1>d DEF Setup, setup_start, setup_connected, setup_init_ack, setup_gives_up, Live, ioVars
<1>2. CASE IoThread
  BY <1>0, <1>2, <1>m DEF IoThread, io_data, route_data, io_control, io_process_exited, io_stop, lifeVars
<1>3. CASE RunLoop
  BY <1>0, <1>3, <1>m DEF RunLoop, run_loop, beat_acquired, tick_executing, follow_loop, tick_obs,
     await_action, await_gives_up, run_loop_ends, lifeVars, ioVars
<1>4. CASE Requesting
  BY <1>0, <1>4, <1>m DEF Requesting, request_cancel, request_reset, send_control, drain_discards,
     cancel_returns, reset_returns, drain_gives_up, lifeVars, ioVars
<1>5. CASE Teardown
  BY <1>5 DEF Teardown, owner_stops, teardown, await_bye, join_io, stop, Live
<1>6. CASE SdkStep \/ UNCHANGED vars
  BY <1>0, <1>6, SdkLeavesEdge DEF vars, edgeVars, lifeVars, ioVars
<1> QED
  BY <1>1, <1>2, <1>3, <1>4, <1>5, <1>6 DEF Next, EdgeStep, WithSdk, EdgeNext

(* A request or the end of a wait. *)
CallStep(c) ==
  request_cancel(c) \/ request_reset(c) \/ cancel_returns(c) \/ reset_returns(c) \/ drain_gives_up(c)

LEMMA WaitingKept ==
  ASSUME [Next]_vars, \A c \in Callers : ~CallStep(c)
  PROVE  UNCHANGED callVars
<1>1. Setup \/ IoThread \/ Teardown => UNCHANGED callVars
  BY DEF Setup, setup_start, setup_connected, setup_init_ack, setup_gives_up,
     IoThread, io_data, io_control, io_process_exited, io_stop,
     Teardown, owner_stops, teardown, await_bye, join_io, stop
<1>2. RunLoop => UNCHANGED callVars
  BY DEF RunLoop, run_loop, beat_acquired, tick_executing, follow_loop, tick_obs,
     await_action, await_gives_up, run_loop_ends
<1>3. Requesting => UNCHANGED callVars
  BY DEF Requesting, CallStep, drain_discards
<1>4. SdkStep \/ UNCHANGED vars => UNCHANGED callVars
  BY SdkLeavesEdge DEF vars, edgeVars
<1> QED
  BY <1>1, <1>2, <1>3, <1>4 DEF Next, EdgeStep, WithSdk, EdgeNext

(* A caller that waits is alone: it takes the only ack there is. *)
LEMMA ReturnFlow ==
  ASSUME TypeOK, RequestInv, NEW c \in Callers, cancel_returns(c) \/ reset_returns(c)
  PROVE  /\ Head(ackQ) \in Acks /\ Asks = {}
         /\ UnderWay' = 0
<1> DEFINE f == Head(ackQ)
<1>t. ackQ \in Seq(AckFrames \cup ErrorFrames)
  BY UnderWayTypes
<1>n. /\ Count(controlCh, AskOps) \in Nat /\ Count(ctrlAckCh, AckOps) \in Nat
      /\ Count(ackQ, AckOps) \in Nat
  BY UnderWayTypes
<1>1. /\ ackQ # <<>> /\ ackQ' = Tail(ackQ) /\ f.op \in AckOps
      /\ UNCHANGED <<controlCh, ctrlAckCh>>
  BY DEF cancel_returns, reset_returns, wireVars, AckOps
<1>2. f \in Acks
  BY <1>t, <1>1, RangeSteps DEF Acks
<1>3. Count(ackQ', AckOps) \in Nat /\ Count(ackQ, AckOps) = Count(ackQ', AckOps) + 1
  BY <1>t, <1>1, SeqTypes, CountedFinite, CountTail
<1>4. UnderWay' = 0
  BY <1>n, <1>1, <1>3 DEF UnderWay, RequestInv
<1>5. Asks = {}
  BY <1>2, Exclusive DEF RequestInv
<1> QED
  BY <1>2, <1>4, <1>5

LEMMA RequestStep ==
  ASSUME OneCaller, ~Deadline, TypeOK, RequestInv, [Next]_vars
  PROVE  RequestInv'
<1>t. TypeOK' /\ waiting \in [Callers -> Requests]
  BY TypeStep DEF TypeOK, EdgeTypeOK
<1>n. UnderWay \in Nat /\ UnderWay' \in Nat
  <2>1. /\ controlCh' \in Seq(ControlFrames) /\ ctrlAckCh' \in Seq(ControlIn)
        /\ ackQ' \in Seq(AckFrames \cup ErrorFrames)
    BY <1>t DEF TypeOK, WireTypeOK, EdgeTypeOK
  <2>2. /\ Count(controlCh', AskOps) \in Nat /\ Count(ctrlAckCh', AckOps) \in Nat
        /\ Count(ackQ', AckOps) \in Nat
    BY <2>1, CountedFinite
  <2> QED
    BY <2>2, UnderWayTypes DEF UnderWay
<1>l. Live' => Live
  BY LiveBefore
<1>0. CASE NoneNew /\ UNCHANGED waiting
  BY <1>0, <1>l, <1>n DEF RequestInv, AllIdle, NoneNew
<1>1. ASSUME NEW c \in Callers, NEW op \in AskOps, requests < MaxRequests, waiting[c] = Idle,
             stage = "ready", send_control(c, op), UNCHANGED <<ctrlAckCh, ackQ>>
      PROVE  RequestInv'
  <2>1. CASE NoneNew /\ UNCHANGED waiting
    BY <1>0, <2>1
  <2>2. CASE /\ ~dead /\ UnderWay' <= UnderWay + 1
             /\ Asks' \subseteq Asks \cup {Control(op, requests + 1)}
             /\ waiting' = [waiting EXCEPT ![c] = [op |-> op, n |-> requests + 1]]
    <3>1. UnderWay = 0
      BY <1>1, <2>2 DEF RequestInv, AllIdle, Live, OneCaller
    <3>2. Asks = {} /\ Acks = {}
      BY <3>1, Exclusive
    <3>3. Acks' = {}
      BY <1>1, <3>2, SendFlow
    <3>4. waiting'[c] = [op |-> op, n |-> requests + 1] /\ waiting'[c] # Idle
      BY <1>t, <2>2 DEF Idle, AskOps
    <3>5. \A d \in Callers : d = c
      BY DEF OneCaller
    <3>6. \A f \in Asks' : f.op = waiting'[c].op /\ f.n = waiting'[c].n
      BY <2>2, <3>2, <3>4 DEF Control
    <3>7. UnderWay' <= 1
      BY <1>n, <2>2, <3>1
    <3>8. ~AllIdle'
      BY <3>4 DEF AllIdle
    <3> QED
      BY <3>3, <3>5, <3>6, <3>7, <3>8 DEF RequestInv
  <2> QED
    BY <1>1, <2>1, <2>2, SendFlow
<1>2. ASSUME NEW c \in Callers, request_cancel(c) \/ request_reset(c)
      PROVE  RequestInv'
  BY <1>1, <1>2 DEF request_cancel, request_reset, AskOps
<1>3. ASSUME NEW c \in Callers, cancel_returns(c) \/ reset_returns(c)
      PROVE  RequestInv'
  <2>1. UnderWay' = 0
    BY <1>3, ReturnFlow
  <2>2. Asks' = {} /\ Acks' = {}
    <3>1. NoneNew
      BY <1>3, KeptAll, KeptChannels DEF cancel_returns, reset_returns, wireVars
    <3>2. /\ Count(controlCh', AskOps) \in Nat /\ Count(ctrlAckCh', AckOps) \in Nat
          /\ Count(ackQ', AckOps) \in Nat
      BY <1>t, CountedFinite DEF TypeOK, WireTypeOK, EdgeTypeOK
    <3>3. /\ Count(controlCh', AskOps) = 0 /\ Count(ctrlAckCh', AckOps) = 0
          /\ Count(ackQ', AckOps) = 0
      BY <2>1, <3>2 DEF UnderWay
    <3>4. \A f \in Range(controlCh') : f.op \notin AskOps
      BY <1>t, <3>3, CountZero DEF TypeOK, WireTypeOK
    <3>5. \A f \in Range(ctrlAckCh') : f.op \notin AckOps
      BY <1>t, <3>3, CountZero DEF TypeOK, WireTypeOK
    <3>6. \A f \in Range(ackQ') : f.op \notin AckOps
      BY <1>t, <3>3, CountZero DEF TypeOK, EdgeTypeOK
    <3> QED
      BY <3>4, <3>5, <3>6 DEF Asks, Acks
  <2> QED
    BY <1>n, <2>1, <2>2 DEF RequestInv
<1>4. ASSUME NEW c \in Callers, drain_gives_up(c)
      PROVE  RequestInv'
  <2>1. ~Live' /\ UNCHANGED <<controlCh, ctrlAckCh, ackQ>>
    BY <1>4 DEF drain_gives_up, patience_over, wireVars, ioVars, lifeVars, Live
  <2>2. UnderWay' = UnderWay /\ Asks' = Asks /\ Acks' = Acks
    BY <2>1 DEF UnderWay, Asks, Acks
  <2>3. waiting'[c] = Idle /\ \A d \in Callers : d = c
    BY <1>4, <1>t DEF drain_gives_up, OneCaller
  <2> QED
    BY <2>1, <2>2, <2>3 DEF RequestInv
<1>5. CASE SdkStep /\ (handle_reset \/ handle_cancel)
  <2>1. UNCHANGED waiting
    BY <1>5, SdkLeavesEdge DEF edgeVars, callVars
  <2> DEFINE f == Head(controlCh)
  <2>2. /\ f \in Asks /\ UnderWay' = UnderWay /\ Asks' \subseteq Asks
        /\ Acks' = Acks \cup {Ack(AckOf(f.op), f.n)}
    BY <1>5, HandleFlow
  <2>3. UnderWay # 0
    BY <2>2, Exclusive
  <2> HIDE DEF f
  <2> QED
    BY <1>l, <2>1, <2>2, <2>3 DEF RequestInv, AllIdle, Ack
<1>6. CASE \A c \in Callers : ~CallStep(c)
  <2>1. UNCHANGED waiting
    BY <1>6, WaitingKept DEF callVars
  <2>2. CASE UNCHANGED vars
    <3>1. UnderWay' = UnderWay /\ Asks' = Asks /\ Acks' = Acks
      BY <2>2 DEF vars, wireVars, edgeVars, ioVars, UnderWay, Asks, Acks
    <3> QED
      BY <1>0, <1>n, <2>1, <3>1 DEF NoneNew
  <2>3. CASE SdkStep /\ ~handle_reset /\ ~handle_cancel
    BY <1>0, <2>1, <2>3, SdkKeeps
  <2>4. CASE EdgeStep
    BY <1>0, <1>6, <2>1, <2>4, EdgeKeeps DEF CallStep
  <2> QED
    BY <1>5, <2>2, <2>3, <2>4 DEF Next
<1> QED
  BY <1>2, <1>3, <1>4, <1>6 DEF CallStep

LEMMA RequestInvariance == OneCaller /\ ~Deadline /\ Spec => []RequestInv
<1> SUFFICES ASSUME OneCaller, ~Deadline PROVE Spec => []RequestInv
  OBVIOUS
<1>1. Init => RequestInv
  BY CountEmpty DEF Init, WireInit, EdgeInit, RequestInv, UnderWay, Idle
<1>2. TypeOK /\ RequestInv /\ [Next]_vars => RequestInv'
  BY RequestStep
<1> QED
  BY <1>1, <1>2, TypeCorrect, PTL DEF Spec

(* A request returns on its own ack, though the acks carry no id: with one *)
(* caller that waits for every request, no deadline that breaks off a      *)
(* wait, and pipes that keep their order, the only ack there is answers    *)
(* the request that waits.                                                 *)
THEOREM AcksMatch ==
  (\A c, d \in Callers : c = d) /\ ~Deadline /\ Spec => AckAnswersRequest
<1> SUFFICES ASSUME OneCaller, ~Deadline PROVE Spec => AckAnswersRequest
  BY DEF OneCaller
<1>1. TypeOK /\ RequestInv /\ [Next]_vars =>
        [\A c \in Callers : waiting[c] # Idle /\ waiting'[c] = Idle /\ ackQ' # ackQ
           => Head(ackQ).n = waiting[c].n]_vars
  <2> SUFFICES ASSUME TypeOK, RequestInv, Next, NEW c \in Callers, waiting[c] # Idle,
                      waiting'[c] = Idle, ackQ' # ackQ
               PROVE  Head(ackQ).n = waiting[c].n
    OBVIOUS
  <2>1. \A d \in Callers : d = c
    BY DEF OneCaller
  <2>2. CallStep(c)
    BY <2>1, WaitingKept DEF callVars
  <2>3. cancel_returns(c) \/ reset_returns(c)
    BY <2>2 DEF CallStep, request_cancel, request_reset, drain_gives_up, ioVars
  <2>4. Head(ackQ) \in Acks
    BY <2>3, ReturnFlow
  <2> QED
    BY <2>4 DEF RequestInv
<1> QED
  BY <1>1, RequestInvariance, TypeCorrect, PTL DEF Spec, AckAnswersRequest

-----------------------------------------------------------------------------
(* The planner is in the episode the robot is driven in *)

(* Before the process connects there is no session, so no frame for it or  *)
(* from it and no reset that returned.                                     *)
BeforeSession ==
  proc \in {"new", "spawned"} =>
    /\ controlCh = <<>> /\ ctrlAckCh = <<>> /\ ackQ = <<>>
    /\ sdk = "off" /\ stage \notin {"init_ack", "ready"} /\ ~driving

(* A cancel under way stops the driving, and a reset under way is newer    *)
(* than the episode; once the planner has answered one it is in it.        *)
EpisodeInv ==
  /\ BeforeSession
  /\ DrivingImpliesActive
  /\ episode <= requests
  /\ \A c \in Callers :
       /\ waiting[c].n <= requests
       /\ waiting[c].op = "cancel" => ~driving
       /\ waiting[c].op = "reset" /\ Acks # {} /\ proc = "connected"
            => active /\ reset >= waiting[c].n
  /\ \A f \in Asks : /\ f.op = "cancel" => ~driving
                     /\ f.op = "reset" => f.n >= episode

(* What a frame under way carries. *)
LEMMA NumberTypes ==
  ASSUME TypeOK
  PROVE  /\ requests \in Nat /\ episode \in Nat /\ reset \in Nat
         /\ driving \in BOOLEAN /\ active \in BOOLEAN
         /\ waiting \in [Callers -> Requests] /\ \A c \in Callers : waiting[c].n \in Nat
         /\ \A f \in Asks : f.n \in Nat
<1>1. \A f \in Asks : f \in ControlFrames
  BY UnderWayTypes, RangeSteps DEF Asks
<1> QED
  BY <1>1, MaxRequestsAssumption
     DEF TypeOK, EdgeTypeOK, SdkTypeOK, Requests, RequestId, ControlFrames

(* Every step leaves a process as it is, connects it, or ends it.          *)
LEMMA ProcSteps ==
  ASSUME [Next]_vars
  PROVE  \/ proc' = proc
         \/ proc' = "exited"
         \/ SdkStep /\ sdk_connect
         \/ proc = "new" /\ proc' = "spawned"
<1>1. CASE Setup
  BY <1>1 DEF Setup, setup_start, start, setup_connected, setup_init_ack, setup_gives_up, procVars
<1>2. CASE IoThread \/ RunLoop \/ Requesting
  BY <1>2 DEF IoThread, io_data, io_control, io_process_exited, io_stop, RunLoop, run_loop,
     beat_acquired, tick_executing, follow_loop, tick_obs, await_action, await_gives_up,
     run_loop_ends, Requesting, request_cancel, request_reset, drain_discards, cancel_returns,
     reset_returns, drain_gives_up, procVars
<1>3. CASE Teardown
  BY <1>3 DEF Teardown, owner_stops, teardown, await_bye, join_io, stop, procVars, Exit
<1>4. CASE SdkStep
  BY <1>4 DEF SdkStep, SdkNext, handshake, emit_heartbeat, poll, handle_reset, handle_cancel,
     handle_shutdown, handle_obs, crash, Exit, procVars
<1> QED
  BY <1>1, <1>2, <1>3, <1>4 DEF Next, EdgeStep, WithSdk, EdgeNext, vars, procVars

LEMMA BeforeStep ==
  ASSUME TypeOK, BeforeSession, [Next]_vars
  PROVE  BeforeSession'
<1> SUFFICES ASSUME proc' \in {"new", "spawned"}
             PROVE  BeforeSession'
  BY DEF BeforeSession
<1>0. proc \in {"new", "spawned"}
  BY ProcSteps DEF sdk_connect
<1>1. /\ controlCh = <<>> /\ ctrlAckCh = <<>> /\ ackQ = <<>>
      /\ sdk = "off" /\ stage \notin {"init_ack", "ready"} /\ ~driving
  BY <1>0 DEF BeforeSession
<1> USE DEF BeforeSession
<1>2. CASE EdgeStep
  <2>0. UNCHANGED sdk
    BY <1>0, <1>2 DEF EdgeStep, WithSdk, sdkVars
  <2>1. CASE Setup
    BY <1>0, <1>1, <2>0, <2>1 DEF Setup, setup_start, setup_connected, setup_init_ack, setup_gives_up,
       wireVars, ioVars, robotVars
  <2>2. CASE IoThread
    BY <1>1, <2>0, <2>2 DEF IoThread, io_data, io_control, io_process_exited, io_stop, wireVars,
       lifeVars, robotVars
  <2>3. CASE RunLoop
    <3>1. UNCHANGED <<controlCh, ctrlAckCh, ackQ, stage>>
      BY <2>3 DEF RunLoop, run_loop, beat_acquired, tick_executing, follow_loop, tick_obs,
       await_action, await_gives_up, run_loop_ends, wireVars, ioVars, lifeVars
    <3>2. UNCHANGED driving
      BY <2>3 DEF RunLoop, run_loop, beat_acquired, tick_executing, follow_loop, tick_obs,
       await_action, publish_action, await_gives_up, run_loop_ends, robotVars
    <3> QED
      BY <1>1, <2>0, <3>1, <3>2
  <2>4. CASE Requesting
    BY <1>1, <2>0, <2>4 DEF Requesting, request_cancel, request_reset, drain_discards, cancel_returns,
       reset_returns, drain_gives_up, wireVars, ioVars, lifeVars, robotVars
  <2>5. CASE Teardown
    <3>1. CASE stop
      <4>1. UNCHANGED wireVars /\ UNCHANGED <<ackQ, driving>> /\ stage' = "down"
        BY <1>0, <3>1 DEF stop, Exit, ioVars, robotVars
      <4> QED
        BY <1>1, <2>0, <4>1 DEF wireVars
    <3>2. CASE owner_stops \/ teardown \/ await_bye \/ join_io
      BY <1>0, <1>1, <2>0, <3>2 DEF owner_stops, teardown, Delivered, await_bye, join_io,
         wireVars, ioVars, robotVars
    <3> QED
      BY <2>5, <3>1, <3>2 DEF Teardown
  <2> QED
    BY <1>2, <2>1, <2>2, <2>3, <2>4, <2>5 DEF EdgeStep, WithSdk, EdgeNext
<1>3. CASE SdkStep
  <2>1. UNCHANGED edgeVars
    BY <1>3, SdkLeavesEdge
  <2>2. UNCHANGED <<controlCh, ctrlAckCh, sdk>>
    BY <1>1, <1>3 DEF SdkStep, SdkNext, sdk_connect, handshake, emit_heartbeat, poll, handle_reset,
       handle_cancel, handle_shutdown, handle_obs, crash, Exit, wireVars
  <2> QED
    BY <1>1, <2>1, <2>2 DEF edgeVars, lifeVars, ioVars, robotVars
<1>4. CASE UNCHANGED vars
  BY <1>1, <1>4 DEF vars, wireVars, edgeVars, lifeVars, ioVars, robotVars, sdkVars
<1> QED
  BY <1>2, <1>3, <1>4 DEF Next

(* What the invariant of the episode depends on. *)
LEMMA EpisodeKept ==
  ASSUME TypeOK, EpisodeInv, BeforeSession', NoneNew, UNCHANGED <<driving, callVars>>,
         proc' = "connected" => proc = "connected",
         proc' = "connected" => UNCHANGED <<active, reset>>
  PROVE  EpisodeInv'
<1>1. DrivingImpliesActive'
  BY DEF EpisodeInv, DrivingImpliesActive, callVars
<1> QED
  BY <1>1 DEF EpisodeInv, NoneNew, callVars

LEMMA EpisodeSdk ==
  ASSUME TypeOK, RequestInv, EpisodeInv, BeforeSession', SdkStep
  PROVE  EpisodeInv'
<1>e. UNCHANGED <<driving, callVars>>
  BY SdkLeavesEdge DEF edgeVars, robotVars
<1>n. /\ requests \in Nat /\ episode \in Nat /\ reset \in Nat
      /\ \A c \in Callers : waiting[c].n \in Nat
      /\ \A f \in Asks : f.n \in Nat
  BY NumberTypes
<1>1. CASE sdk_connect
  <2>1. ctrlAckCh = <<>> /\ ackQ = <<>> /\ ~driving
    BY <1>1 DEF sdk_connect, EpisodeInv, BeforeSession
  <2>2. NoneNew
    BY <1>1, SdkKeeps DEF sdk_connect, handle_reset, handle_cancel, wireVars
  <2>3. Acks = {}
    BY <2>1 DEF Acks, Range
  <2> QED
    BY <1>e, <2>1, <2>2, <2>3 DEF EpisodeInv, DrivingImpliesActive, NoneNew, callVars
<1>2. CASE handle_reset
  <2> DEFINE f == Head(controlCh)
  <2>1. /\ f \in Asks /\ Asks' \subseteq Asks /\ f.op = "reset"
    BY <1>2, HandleFlow
  <2>2. reset' = f.n /\ active' = TRUE
    BY <1>2 DEF handle_reset
  <2> HIDE DEF f
  <2>3. \A c \in Callers : waiting[c].op = "reset" => reset' >= waiting[c].n
    BY <1>n, <2>1, <2>2 DEF RequestInv, Idle
  <2>4. reset' >= episode
    BY <2>1, <2>2 DEF EpisodeInv
  <2> QED
    BY <1>e, <2>1, <2>2, <2>3, <2>4 DEF EpisodeInv, DrivingImpliesActive, callVars
<1>3. CASE handle_cancel
  <2> DEFINE f == Head(controlCh)
  <2>1. /\ f \in Asks /\ Asks' \subseteq Asks /\ f.op = "cancel"
    BY <1>3, HandleFlow
  <2> HIDE DEF f
  <2>2. ~driving
    BY <2>1 DEF EpisodeInv
  <2>3. \A c \in Callers : waiting[c].op # "reset"
    BY <2>1 DEF RequestInv, Idle
  <2> QED
    BY <1>e, <2>1, <2>2, <2>3 DEF EpisodeInv, DrivingImpliesActive, callVars
<1>4. CASE ~sdk_connect /\ ~handle_reset /\ ~handle_cancel
  <2>1. NoneNew
    BY <1>4, SdkKeeps
  <2>2. proc' = "connected" => proc = "connected"
    BY <1>4, ProcSteps DEF Next
  <2>3. UNCHANGED <<active, reset>>
    BY <1>4 DEF SdkStep, SdkNext, handshake, emit_heartbeat, poll, handle_shutdown, handle_obs,
       crash, sdkVars
  <2> QED
    BY <1>e, <2>1, <2>2, <2>3, EpisodeKept
<1> QED
  BY <1>1, <1>2, <1>3, <1>4

LEMMA EpisodeEdge ==
  ASSUME OneCaller, TypeOK, RequestInv, RequestInv', EpisodeInv, BeforeSession', EdgeStep
  PROVE  EpisodeInv'
<1>s. UNCHANGED <<active, reset>>
  BY DEF EdgeStep, WithSdk, sdkVars
<1>p. proc' = "connected" => proc = "connected"
  <2>1. ~sdk_connect
    BY DEF sdk_connect, EdgeStep, WithSdk, sdkVars, EpisodeInv, BeforeSession
  <2> QED
    BY <2>1, ProcSteps DEF Next
<1>n. /\ requests \in Nat /\ episode \in Nat /\ reset \in Nat /\ driving \in BOOLEAN
      /\ waiting \in [Callers -> Requests] /\ \A c \in Callers : waiting[c].n \in Nat
  BY NumberTypes
<1>o. \A c, d \in Callers : c = d
  BY DEF OneCaller
<1>1. ASSUME NEW c \in Callers, NEW op \in AskOps, requests < MaxRequests, waiting[c] = Idle,
             stage = "ready", send_control(c, op), UNCHANGED <<ctrlAckCh, ackQ, episode>>,
             driving' = (driving /\ op = "reset")
      PROVE  EpisodeInv'
  <2>0. requests' = requests + 1
    BY <1>1 DEF send_control
  <2>1. CASE NoneNew /\ UNCHANGED waiting
    BY <1>1, <1>s, <1>p, <1>n, <2>0, <2>1 DEF EpisodeInv, DrivingImpliesActive, NoneNew
  <2>2. CASE /\ ~dead /\ Asks' \subseteq Asks \cup {Control(op, requests + 1)}
             /\ waiting' = [waiting EXCEPT ![c] = [op |-> op, n |-> requests + 1]]
    <3>1. UnderWay = 0
      BY <1>1, <1>o, <2>2 DEF RequestInv, AllIdle, Live
    <3>2. Acks' = {} /\ Asks' \subseteq {Control(op, requests + 1)}
      BY <1>1, <2>2, <3>1, Exclusive, SendFlow
    <3>3. \A f \in Asks' : f.op = op /\ f.n = requests + 1
      BY <3>2 DEF Control
    <3>4. \A d \in Callers : waiting'[d].n = requests + 1 /\ waiting'[d].op = op
      BY <1>n, <1>o, <2>2
    <3>5. DrivingImpliesActive'
      BY <1>1, <1>s, <1>p DEF EpisodeInv, DrivingImpliesActive
    <3> QED
      <4>1. op = "cancel" => ~driving'
        BY <1>1
      <4>2. episode' = episode /\ episode <= requests
        BY <1>1 DEF EpisodeInv
      <4>3. episode' <= requests' /\ requests + 1 >= episode'
        BY <1>n, <2>0, <4>2
      <4>4. \A f \in Asks' :
              /\ f.op = "cancel" => ~driving'
              /\ f.op = "reset" => f.n >= episode'
        BY <3>3, <4>1, <4>3
      <4>5. \A d \in Callers : waiting'[d].n <= requests'
        BY <1>n, <2>0, <3>4
      <4>6. \A d \in Callers : waiting'[d].op = "cancel" => ~driving'
        BY <3>4, <4>1
      <4> QED
        BY <3>2, <3>5, <4>3, <4>4, <4>5, <4>6 DEF EpisodeInv
  <2> QED
    BY <1>1, <2>1, <2>2, SendFlow
<1>2. ASSUME NEW c \in Callers, request_cancel(c)
      PROVE  EpisodeInv'
  BY <1>1, <1>2 DEF request_cancel, AskOps
<1>3. ASSUME NEW c \in Callers, request_reset(c)
      PROVE  EpisodeInv'
  BY <1>1, <1>n, <1>3 DEF request_reset, AskOps
<1>4. ASSUME NEW c \in Callers, reset_returns(c)
      PROVE  EpisodeInv'
  <2>1. Head(ackQ) \in Acks /\ UnderWay' = 0 /\ Asks = {}
    BY <1>4, ReturnFlow
  <2>2. Asks' = {}
    BY <1>4, <2>1 DEF reset_returns, wireVars, Asks
  <2>3. /\ episode' = waiting[c].n /\ driving' = TRUE /\ UNCHANGED requests
        /\ waiting' = [waiting EXCEPT ![c] = Idle] /\ waiting[c].op = "reset"
    BY <1>4 DEF reset_returns
  <2>4. proc = "connected" => active /\ reset >= waiting[c].n
    BY <2>1, <2>3 DEF EpisodeInv
  <2>5. \A d \in Callers : waiting'[d] = Idle
    BY <1>n, <1>o, <2>3
  <2>6. DrivingImpliesActive'
    BY <1>p, <1>s, <2>3, <2>4 DEF DrivingImpliesActive
  <2> QED
    BY <1>n, <2>2, <2>3, <2>5, <2>6 DEF EpisodeInv, Idle
<1>5. ASSUME NEW c \in Callers, cancel_returns(c) \/ drain_gives_up(c)
      PROVE  EpisodeInv'
  <2>1. NoneNew
    BY <1>5, KeptAll, KeptChannels DEF cancel_returns, drain_gives_up, wireVars, ioVars
  <2>2. /\ waiting' = [waiting EXCEPT ![c] = Idle]
        /\ UNCHANGED <<driving, requests, episode>>
    BY <1>5 DEF cancel_returns, drain_gives_up, robotVars
  <2>3. \A d \in Callers : waiting'[d] = Idle
    BY <1>n, <1>o, <2>2
  <2>4. DrivingImpliesActive'
    BY <1>p, <1>s, <2>2 DEF DrivingImpliesActive, EpisodeInv
  <2> QED
    BY <1>n, <2>1, <2>2, <2>3, <2>4 DEF EpisodeInv, NoneNew, Idle
<1>6. CASE \A c \in Callers : ~CallStep(c)
  <2>1. NoneNew
    BY <1>6, EdgeKeeps DEF CallStep
  <2>2. UNCHANGED callVars
    BY <1>6, WaitingKept DEF Next
  <2>3. UNCHANGED driving
    BY <1>6 DEF CallStep, EdgeStep, WithSdk, EdgeNext, Setup, setup_start, setup_connected,
     setup_init_ack, setup_gives_up, IoThread, io_data, io_control, io_process_exited, io_stop,
     RunLoop, run_loop, beat_acquired, tick_executing, follow_loop, tick_obs, await_action,
     publish_action, await_gives_up, run_loop_ends, Requesting, drain_discards,
     Teardown, owner_stops, teardown, await_bye, join_io, stop, robotVars
  <2> QED
    BY <1>p, <1>s, <2>1, <2>2, <2>3, EpisodeKept
<1> QED
  BY <1>2, <1>3, <1>4, <1>5, <1>6 DEF CallStep

(* A robot that is driven is driven by a planner in an episode, and not an *)
(* older one than the last reset that returned: with one caller and no     *)
(* deadline, whatever the planner process and its pipes do.                *)
THEOREM DrivenByActive ==
  (\A c, d \in Callers : c = d) /\ ~Deadline /\ Spec => []DrivingImpliesActive
<1> SUFFICES ASSUME OneCaller, ~Deadline PROVE Spec => []DrivingImpliesActive
  BY DEF OneCaller
<1>1. Init => EpisodeInv
  BY MaxRequestsAssumption
     DEF Init, WireInit, ProcInit, EdgeInit, SdkInit, EpisodeInv, BeforeSession,
         DrivingImpliesActive, Asks, Acks, Range, Idle
<1>2. TypeOK /\ RequestInv /\ RequestInv' /\ EpisodeInv /\ [Next]_vars => EpisodeInv'
  <2> SUFFICES ASSUME TypeOK, RequestInv, RequestInv', EpisodeInv, [Next]_vars PROVE EpisodeInv'
    OBVIOUS
  <2>1. BeforeSession'
    BY BeforeStep DEF EpisodeInv
  <2>2. CASE UNCHANGED vars
    BY <2>2 DEF vars, wireVars, procVars, edgeVars, lifeVars, ioVars, robotVars, callVars,
       sdkVars, EpisodeInv, BeforeSession, DrivingImpliesActive, Asks, Acks
  <2> QED
    BY <2>1, <2>2, EpisodeSdk, EpisodeEdge DEF Next
<1>3. EpisodeInv => DrivingImpliesActive
  BY DEF EpisodeInv
<1> QED
  BY <1>1, <1>2, <1>3, RequestInvariance, TypeCorrect, PTL DEF Spec
=============================================================================
