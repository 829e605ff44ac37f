--------------------------- MODULE SocialCostLayer --------------------------
(***************************************************************************)
(* The social cost layer (social_cost_layer.cpp) in a Nav2 layered         *)
(* costmap.  The costmap's thread asks each layer for the bounds of what   *)
(* changed, resets the master grid inside all of them and has each layer   *)
(* paint its costs there; pedestrians arrive on another thread, between    *)
(* the two calls as well.                                                  *)
(*                                                                         *)
(* The grid has one axis: a Box is an interval, and on each axis boxes,    *)
(* clipping and reach do the same.  A cell has social cost or has none.    *)
(***************************************************************************)
EXTENDS Integers

CONSTANTS
  Size,             \* cells of the grid
  Positions,        \* where pedestrians may be, outside of the grid too
  PersonalRadius,   \* personal_space_radius, in cells
  GroupRadius,      \* group_extra_radius, in cells
  OtherBounds       \* what the other layers of the costmap may ask for

ASSUME GridAssumption == Size \in Nat \ {0} /\ Positions \subseteq Int
ASSUME RadiusAssumption == PersonalRadius \in Nat /\ GroupRadius \in Nat
ASSUME OtherAssumption == \A b \in OtherBounds : b \subseteq 0 .. Size - 1

VARIABLES
  latest,     \* latest_peds_
  fresh,      \* latest_peds_ arrived within stale_timeout
  last_box,   \* last_box_
  phase,      \* idle, or costs: between updateBounds and updateCosts
  bounds,     \* cells of the cycle in progress
  master,     \* cells of the master grid that have social cost
  announced,  \* history: pedestrians of the last updateBounds
  shown,      \* history: pedestrians of the last updateCosts
  torn        \* history: TRUE once pedestrians were painted that neither their
              \* own updateBounds nor the next one saw

vars == <<latest, fresh, last_box, phase, bounds, master, announced, shown, torn>>

Cells == 0 .. Size - 1

(* A roster of pedestrians; grouped ones share an interaction of positive  *)
(* weight.                                                                 *)
Rosters == [at : SUBSET Positions, grouped : BOOLEAN]
NoRoster == [at |-> {}, grouped |-> FALSE]

TypeOK ==
  /\ latest \in Rosters /\ announced \in Rosters /\ shown \in Rosters
  /\ fresh \in BOOLEAN /\ torn \in BOOLEAN
  /\ last_box \subseteq Cells
  /\ phase \in {"idle", "costs"}
  /\ bounds \subseteq Cells
  /\ master \subseteq Cells

Init ==
  /\ latest = NoRoster /\ announced = NoRoster /\ shown = NoRoster
  /\ fresh = FALSE /\ torn = FALSE
  /\ last_box = {} /\ phase = "idle" /\ bounds = {} /\ master = {}

-----------------------------------------------------------------------------
reach == IF GroupRadius > PersonalRadius THEN GroupRadius ELSE PersonalRadius

(* A Box is the interval of cells it covers, with ends outside of the grid *)
(* moved to its first or last cell, as worldToMapEnforceBounds does when   *)
(* the costmap and cellWindow use it.                                      *)
enforce(c) == IF c < 0 THEN 0 ELSE IF c >= Size THEN Size - 1 ELSE c
Between(cells) == {c \in Cells : \E a, b \in cells : a <= c /\ c <= b}
segmentBox(a, b, r) == enforce(a - r) .. enforce(b + r)
unionBox(a, b) == Between(a \cup b)

Pairs(r) == IF r.grouped THEN {ab \in r.at \X r.at : ab[1] < ab[2]} ELSE {}

CentresOnly(r) == Between({enforce(p) : p \in r.at})  \* mutant
roster_box(r) ==
  Between(UNION ({segmentBox(p, p, reach) : p \in r.at}
            \cup {segmentBox(ab[1], ab[2], GroupRadius) : ab \in Pairs(r)}))

(* The disks and capsules of a roster. *)
CostOf(r) ==
  UNION ({(p - PersonalRadius) .. (p + PersonalRadius) : p \in r.at}
    \cup {(ab[1] - GroupRadius) .. (ab[2] + GroupRadius) : ab \in Pairs(r)})

Unclipped(r, window) == CostOf(r)  \* mutant
painted(r, window) == CostOf(r) \cap window

currentPedestrians == IF fresh THEN latest ELSE NoRoster

-----------------------------------------------------------------------------
pedestriansCallback ==
  /\ latest' \in Rosters
  /\ fresh' = TRUE
  /\ UNCHANGED <<last_box, phase, bounds, master, announced, shown, torn>>

(* stale_timeout passes. *)
becomes_stale ==
  /\ fresh /\ fresh' = FALSE
  /\ UNCHANGED <<latest, last_box, phase, bounds, master, announced, shown, torn>>

(* A cycle with nothing to update ends here. *)
ForgetLastBox(box) == box  \* mutant
request(box) == unionBox(box, last_box)

updateBounds ==
  /\ phase = "idle"
  /\ last_box' = roster_box(currentPedestrians)
  /\ \E others \in OtherBounds : bounds' = unionBox(request(last_box'), others)
  /\ phase' = IF bounds' = {} THEN "idle" ELSE "costs"
  /\ announced' = currentPedestrians
  /\ torn' = (torn \/ shown \notin {announced, announced'})
  /\ UNCHANGED <<latest, fresh, master, shown>>

updateCosts ==
  /\ phase = "costs"
  /\ phase' = "idle"
  /\ shown' = currentPedestrians
  /\ master' = (master \ bounds) \cup painted(currentPedestrians, bounds)
  /\ UNCHANGED <<latest, fresh, last_box, bounds, announced, torn>>

(* The costmap is cleared, which the costmap does not do during a cycle.   *)
reset ==
  /\ phase = "idle"
  /\ latest' = NoRoster
  /\ master' = {} /\ announced' = NoRoster /\ shown' = NoRoster /\ torn' = FALSE
  /\ UNCHANGED <<fresh, last_box, phase, bounds>>

Next == pedestriansCallback \/ becomes_stale \/ updateBounds \/ updateCosts \/ reset

Spec == Init /\ [][Next]_vars

-----------------------------------------------------------------------------
(* Costs of pedestrians that moved or left are removed by the next cycle,  *)
(* which resets last_box_ too, unless the message they came with was seen  *)
(* by updateCosts alone.                                                   *)
NoGhost == phase = "idle" /\ ~torn => master \subseteq CostOf(shown)

(* Pedestrians that did not change between the two calls are painted whole.*)
PaintedWhole ==
  phase = "idle" /\ shown = announced => CostOf(shown) \cap Cells \subseteq master

(* A message older than stale_timeout is ignored: after a cycle without    *)
(* pedestrians the costmap has no social cost.                             *)
OldOnesIgnored ==
  phase = "idle" /\ ~fresh /\ announced = NoRoster /\ shown = NoRoster => master = {}
=============================================================================
