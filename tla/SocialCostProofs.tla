-------------------------- MODULE SocialCostProofs --------------------------
(***************************************************************************)
(* Types and the two safety properties of the social cost layer, for every *)
(* grid, every set of positions, every pair of radii and every choice of   *)
(* the other layers.                                                       *)
(*                                                                         *)
(* The argument: last_box_ covers what the last updateBounds announced, so *)
(* the bounds of a cycle cover what the last updateBounds announced and    *)
(* what this one announces.  One of the two was painted by the last cycle  *)
(* (else the history is torn), so the master grid has social cost only     *)
(* inside the bounds when updateCosts comes.                               *)
(***************************************************************************)
EXTENDS SocialCostLayer, TLAPS

(* What was announced lies in last_box_, and in the bounds of the cycle in *)
(* progress.                                                               *)
Announced ==
  /\ CostOf(announced) \cap Cells \subseteq last_box
  /\ phase = "costs" => CostOf(announced) \cap Cells \subseteq bounds

(* The cycle in progress resets all social cost there is.                  *)
AllReset == phase = "costs" /\ ~torn => master \subseteq bounds

IInv == TypeOK /\ Announced /\ AllReset /\ NoGhost /\ PaintedWhole

-----------------------------------------------------------------------------
LEMMA SizeNat == Size \in Nat /\ Size > 0
BY GridAssumption

(* Clipping to the grid keeps the order, and the cells of the grid.        *)
LEMMA EnforceKeeps ==
  ASSUME NEW lo \in Int, NEW hi \in Int, NEW c \in Cells, lo <= c, c <= hi
  PROVE  c \in enforce(lo) .. enforce(hi)
BY SizeNat DEF enforce, Cells

(* A box holds the cells it is made of, and cells only.                    *)
LEMMA BetweenHolds ==
  ASSUME NEW S
  PROVE  S \cap Cells \subseteq Between(S) /\ Between(S) \subseteq Cells
BY SizeNat DEF Between, Cells

LEMMA UnionHolds ==
  ASSUME NEW a, NEW b, a \subseteq Cells, b \subseteq Cells
  PROVE  a \subseteq unionBox(a, b) /\ b \subseteq unionBox(a, b)
         /\ unionBox(a, b) \subseteq Cells
BY BetweenHolds DEF unionBox

LEMMA NoRosterType == NoRoster \in Rosters
BY DEF NoRoster, Rosters

LEMMA NoRosterFree == CostOf(NoRoster) = {}
BY DEF CostOf, NoRoster, Pairs

LEMMA CurrentType == TypeOK => currentPedestrians \in Rosters
BY NoRosterType DEF TypeOK, currentPedestrians

-----------------------------------------------------------------------------
(* The box of a roster holds every cell that the roster's disks and        *)
(* capsules reach: what updateBounds asks for is enough for updateCosts.   *)
LEMMA BoxCoversCost ==
  ASSUME NEW r \in Rosters
  PROVE  CostOf(r) \cap Cells \subseteq roster_box(r)
<1> DEFINE disks == {segmentBox(p, p, reach) : p \in r.at}
           capsules == {segmentBox(ab[1], ab[2], GroupRadius) : ab \in Pairs(r)}
<1>1. r.at \subseteq Int
  BY GridAssumption DEF Rosters
<1>2. reach \in Nat /\ reach >= PersonalRadius
  BY RadiusAssumption DEF reach
<1> SUFFICES ASSUME NEW c \in Cells, c \in CostOf(r)
             PROVE  c \in UNION (disks \cup capsules)
  BY BetweenHolds DEF roster_box
<1>3. CASE \E p \in r.at : c \in (p - PersonalRadius) .. (p + PersonalRadius)
  <2>1. PICK p \in r.at : c \in (p - PersonalRadius) .. (p + PersonalRadius)
    BY <1>3
  <2>2. p - reach <= c /\ c <= p + reach /\ p - reach \in Int /\ p + reach \in Int
    BY <1>1, <1>2, <2>1, SizeNat, RadiusAssumption DEF Cells
  <2>3. c \in segmentBox(p, p, reach)
    BY <2>2, EnforceKeeps DEF segmentBox
  <2> QED
    BY <2>3
<1>4. CASE \E ab \in Pairs(r) : c \in (ab[1] - GroupRadius) .. (ab[2] + GroupRadius)
  <2>1. PICK ab \in Pairs(r) : c \in (ab[1] - GroupRadius) .. (ab[2] + GroupRadius)
    BY <1>4
  <2>2. ab[1] \in Int /\ ab[2] \in Int
    BY <1>1 DEF Pairs
  <2>3. /\ ab[1] - GroupRadius <= c /\ c <= ab[2] + GroupRadius
        /\ ab[1] - GroupRadius \in Int /\ ab[2] + GroupRadius \in Int
    BY <2>1, <2>2, SizeNat, RadiusAssumption DEF Cells
  <2>4. c \in segmentBox(ab[1], ab[2], GroupRadius)
    BY <2>3, EnforceKeeps DEF segmentBox
  <2> QED
    BY <2>4
<1> QED
  BY <1>3, <1>4 DEF CostOf

LEMMA BoxType == ASSUME NEW r PROVE roster_box(r) \subseteq Cells
BY BetweenHolds DEF roster_box

-----------------------------------------------------------------------------
LEMMA InitIInv == Init => IInv
BY NoRosterType, NoRosterFree
DEF Init, IInv, TypeOK, Announced, AllReset, NoGhost, PaintedWhole

LEMMA BoundsStep == IInv /\ updateBounds => IInv'
<1> SUFFICES ASSUME IInv, updateBounds PROVE IInv'
  OBVIOUS
<1> DEFINE cur == currentPedestrians
<1>1. cur \in Rosters /\ announced' = cur /\ last_box' = roster_box(cur)
  BY CurrentType DEF IInv, updateBounds
<1>2. last_box' \subseteq Cells /\ last_box \subseteq Cells
  BY <1>1, BoxType DEF IInv, TypeOK
<1>3. PICK others \in OtherBounds : bounds' = unionBox(request(last_box'), others)
  BY DEF updateBounds
<1>4. /\ last_box \subseteq bounds' /\ last_box' \subseteq bounds'
      /\ bounds' \subseteq Cells
  <2>1. others \subseteq Cells
    BY OtherAssumption DEF Cells
  <2>2. /\ last_box' \subseteq request(last_box') /\ last_box \subseteq request(last_box')
        /\ request(last_box') \subseteq Cells
    BY <1>2, UnionHolds DEF request
  <2>3. request(last_box') \subseteq bounds' /\ bounds' \subseteq Cells
    BY <1>3, <2>1, <2>2, UnionHolds
  <2> QED
    BY <2>2, <2>3
<1>5. CostOf(cur) \cap Cells \subseteq last_box'
  BY <1>1, BoxCoversCost
<1>6. phase = "idle" /\ phase' \in {"idle", "costs"} /\ (phase' = "idle" => bounds' = {})
  BY DEF updateBounds
<1>7. /\ torn' = (torn \/ shown \notin {announced, cur})
      /\ UNCHANGED <<latest, fresh, master, shown>>
  BY <1>1 DEF updateBounds
<1>8. TypeOK'
  BY <1>1, <1>2, <1>4, <1>6, <1>7 DEF IInv, TypeOK
<1>9. Announced'
  <2>1. CostOf(cur) = CostOf(announced)'
    BY <1>1 DEF CostOf, Pairs
  <2> QED
    BY <1>4, <1>5, <2>1 DEF Announced, Cells
<1>10. AllReset'
  <2> SUFFICES ASSUME ~torn' PROVE master \subseteq bounds'
    BY <1>7 DEF AllReset
  <2>1. ~torn /\ (shown = announced \/ shown = cur)
    BY <1>7 DEF IInv, TypeOK
  <2>2. master \subseteq CostOf(shown) \cap Cells
    BY <1>6, <2>1 DEF IInv, NoGhost, TypeOK
  <2>3. CostOf(announced) \cap Cells \subseteq last_box
    BY DEF IInv, Announced
  <2> QED
    BY <1>4, <1>5, <2>1, <2>2, <2>3
<1>11. NoGhost'
  <2>1. torn' \in BOOLEAN /\ (~torn' => ~torn)
    BY <1>7 DEF IInv, TypeOK
  <2>2. CostOf(shown)' = CostOf(shown)
    BY <1>7 DEF CostOf, Pairs
  <2> QED
    BY <1>6, <1>7, <2>1, <2>2 DEF IInv, NoGhost
<1>12. PaintedWhole'
  <2> SUFFICES ASSUME phase' = "idle", shown' = announced'
               PROVE  CostOf(shown)' \cap Cells \subseteq master'
    BY DEF PaintedWhole, Cells
  <2>1. CostOf(shown)' = CostOf(cur)
    BY <1>1 DEF CostOf, Pairs
  <2>2. CostOf(cur) \cap Cells = {}
    BY <1>4, <1>5, <1>6
  <2> QED
    BY <2>1, <2>2
<1> QED
  BY <1>8, <1>9, <1>10, <1>11, <1>12 DEF IInv

LEMMA CostsStep == IInv /\ updateCosts => IInv'
<1> SUFFICES ASSUME IInv, updateCosts PROVE IInv'
  OBVIOUS
<1> DEFINE cur == currentPedestrians
<1>1. cur \in Rosters /\ shown' = cur /\ phase = "costs" /\ phase' = "idle"
  BY CurrentType DEF IInv, updateCosts
<1>2. /\ master' = (master \ bounds) \cup (CostOf(cur) \cap bounds)
      /\ UNCHANGED <<latest, fresh, last_box, bounds, announced, torn>>
  BY DEF updateCosts, painted
<1>3. CostOf(shown)' = CostOf(cur) /\ CostOf(announced)' = CostOf(announced)
  BY <1>1, <1>2 DEF CostOf, Pairs
<1>4. TypeOK'
  BY <1>1, <1>2 DEF IInv, TypeOK
<1>5. Announced' /\ AllReset'
  BY <1>1, <1>2, <1>3 DEF IInv, Announced, AllReset, Cells
<1>6. NoGhost'
  BY <1>1, <1>2, <1>3 DEF IInv, AllReset, NoGhost
<1>7. PaintedWhole'
  <2> SUFFICES ASSUME cur = announced
               PROVE  CostOf(cur) \cap Cells \subseteq master'
    BY <1>1, <1>2, <1>3 DEF PaintedWhole, Cells
  <2>1. CostOf(cur) \cap Cells \subseteq bounds
    BY <1>1 DEF IInv, Announced
  <2> QED
    BY <1>2, <2>1
<1> QED
  BY <1>4, <1>5, <1>6, <1>7 DEF IInv

LEMMA ResetStep == IInv /\ reset => IInv'
<1> SUFFICES ASSUME IInv, reset PROVE IInv'
  OBVIOUS
<1>1. CostOf(announced)' = {} /\ CostOf(shown)' = {}
  BY NoRosterFree DEF reset, CostOf, Pairs
<1> QED
  BY <1>1, NoRosterType
  DEF IInv, reset, TypeOK, Announced, AllReset, NoGhost, PaintedWhole, Cells

LEMMA QuietStep ==
  IInv /\ (pedestriansCallback \/ becomes_stale \/ UNCHANGED vars) => IInv'
<1> SUFFICES ASSUME IInv, pedestriansCallback \/ becomes_stale \/ UNCHANGED vars
             PROVE  IInv'
  OBVIOUS
<1>1. /\ UNCHANGED <<last_box, phase, bounds, master, announced, shown, torn>>
      /\ latest' \in Rosters /\ fresh' \in BOOLEAN
  BY DEF IInv, TypeOK, pedestriansCallback, becomes_stale, vars
<1>2. CostOf(announced)' = CostOf(announced) /\ CostOf(shown)' = CostOf(shown)
  BY <1>1 DEF CostOf, Pairs
<1> QED
  BY <1>1, <1>2
  DEF IInv, TypeOK, Announced, AllReset, NoGhost, PaintedWhole, Cells

THEOREM Inductive == Spec => []IInv
<1>1. IInv /\ [Next]_vars => IInv'
  BY BoundsStep, CostsStep, ResetStep, QuietStep DEF Next
<1> QED
  BY InitIInv, <1>1, PTL DEF Spec

-----------------------------------------------------------------------------
(* Every variable of the layer keeps its type: updateCosts paints nothing  *)
(* outside of the grid, where setCost would write past its array.          *)
THEOREM LayerTypes == Spec => []TypeOK
<1>1. IInv => TypeOK
  BY DEF IInv
<1> QED
  BY Inductive, <1>1, PTL

(* The costs of pedestrians that moved or left are removed by the next     *)
(* cycle, because updateBounds asks for last_box_ as well.                 *)
THEOREM OldCostsRemoved == Spec => []NoGhost
<1>1. IInv => NoGhost
  BY DEF IInv
<1> QED
  BY Inductive, <1>1, PTL

(* Pedestrians that did not change between updateBounds and updateCosts    *)
(* are painted whole, wherever they are and however they are grouped.      *)
THEOREM NothingClipped == Spec => []PaintedWhole
<1>1. IInv => PaintedWhole
  BY DEF IInv
<1> QED
  BY Inductive, <1>1, PTL
=============================================================================
