------------------------------- MODULE Robot --------------------------------
(***************************************************************************)
(* What the planner bridge promises about the robot, whatever protocol and *)
(* timing are behind it.  The owner engages and halts the robot; while     *)
(* engaged, the planner is asked for one action at a time, and an action   *)
(* may start an execution, a move or chunk that is followed until it ends  *)
(* or the robot is halted.                                                 *)
(***************************************************************************)
VARIABLES
  engaged,    \* the robot may be driven
  asking,     \* an observation waits for its action
  executing,  \* a move or chunk is in progress
  moving      \* the last twist is not zero

vars == <<engaged, asking, executing, moving>>

Init == ~engaged /\ ~asking /\ ~executing /\ ~moving

(* A reset returned. *)
Engage ==
  /\ engaged' = TRUE
  /\ UNCHANGED <<asking, executing, moving>>

(* A cancel or reset is requested. *)
Halt ==
  /\ engaged' \in {engaged, FALSE}
  /\ executing' = FALSE /\ moving' = FALSE
  /\ UNCHANGED asking

(* The planner is asked when nothing is in progress or what was has ended. *)
Ask ==
  /\ ~asking /\ asking'
  /\ ~executing'
  /\ moving' \in (IF executing THEN BOOLEAN ELSE {moving})
  /\ UNCHANGED engaged

(* Its action drives an engaged robot and stops any other. *)
Answer ==
  /\ asking /\ ~asking'
  /\ IF engaged THEN executing' \in BOOLEAN /\ moving' \in BOOLEAN
                ELSE ~moving' /\ UNCHANGED executing
  /\ UNCHANGED engaged

(* The question is dropped: its loop ended. *)
Drop ==
  /\ asking /\ ~asking'
  /\ UNCHANGED <<engaged, executing, moving>>

Follow ==
  /\ executing
  /\ executing' \in BOOLEAN /\ moving' \in BOOLEAN
  /\ UNCHANGED <<engaged, asking>>

Next == Engage \/ Halt \/ Ask \/ Answer \/ Drop \/ Follow

Spec == Init /\ [][Next]_vars
=============================================================================
