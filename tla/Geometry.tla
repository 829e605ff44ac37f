------------------------------ MODULE Geometry ------------------------------
(***************************************************************************)
(* The pure functions behind observations and chunks: the lookahead points *)
(* of geometry.py and of chunk.py, the costmap lookup of utils/costmap.py  *)
(* and the canonical scan of utils/scan.py.                                *)
(*                                                                         *)
(* A length is counted in units of 5 cm, the distance of two samples of a  *)
(* chord; paths run along the axes, so that walking them stays in whole    *)
(* units.  Bearings are counted in units of which a turn has Turn.         *)
(***************************************************************************)
EXTENDS Integers, Sequences, FiniteSetsExt

CONSTANTS
  Resolution,  \* units along a cell of the costmap
  Turn,        \* units of a full turn, even
  RangeMin,    \* of the laser
  RangeMax

ASSUME GeometryAssumption ==
  /\ Resolution \in Nat \ {0}
  /\ Turn \in Nat \ {0} /\ Turn % 2 = 0
  /\ RangeMin \in Nat \ {0} /\ RangeMax \in Nat /\ RangeMin <= RangeMax

Abs(n) == IF n < 0 THEN -n ELSE n
Sign(n) == IF n < 0 THEN -1 ELSE IF n = 0 THEN 0 ELSE 1
Clamp(n, a, b) == IF a <= b THEN IF n < a THEN a ELSE IF n > b THEN b ELSE n
                            ELSE IF n < b THEN b ELSE IF n > a THEN a ELSE n
Isqrt(n) == CHOOSE r \in 0 .. n : r * r <= n /\ n < (r + 1) * (r + 1)

-----------------------------------------------------------------------------
(* Lookahead.  A point is <<x, y>>, a path a sequence of points.           *)

(* Length of a piece of a path, and squared length of any chord.           *)
Length(p, q) == Abs(q[1] - p[1]) + Abs(q[2] - p[2])
Distance2(p, q) == (q[1] - p[1]) * (q[1] - p[1]) + (q[2] - p[2]) * (q[2] - p[2])

(* The point of the segment from p to q that is closest to r. *)
Projection(p, q, r) == <<Clamp(r[1], p[1], q[1]), Clamp(r[2], p[2], q[2])>>

PointAlong(p, q, d) == <<p[1] + d * Sign(q[1] - p[1]), p[2] + d * Sign(q[2] - p[2])>>

(* argmin over the segments: the first of the closest ones. *)
LastClosest(path, r) ==  \* mutant
  LET d2(i) == Distance2(Projection(path[i], path[i + 1], r), r)
  IN Max({i \in 1 .. Len(path) - 1 : \A j \in 1 .. Len(path) - 1 : d2(i) <= d2(j)})

closest(path, r) ==
  LET d2(i) == Distance2(Projection(path[i], path[i + 1], r), r)
  IN Min({i \in 1 .. Len(path) - 1 : \A j \in 1 .. Len(path) - 1 : d2(i) <= d2(j)})

(* geometry.lookahead_on_path: acc[i] is the way from the projection to    *)
(* the start of segment i; the first segment whose end is far enough holds *)
(* the point.                                                              *)
lookahead_on_path(path, r, lookahead) ==
  IF Len(path) = 1 THEN path[1]
  ELSE LET c == closest(path, r)
           p == Projection(path[c], path[c + 1], r)
           from(i) == IF i = c THEN p ELSE path[i]
           acc[i \in c .. Len(path)] ==
             IF i = c THEN 0 ELSE acc[i - 1] + Length(from(i - 1), path[i])
           ends == {i \in c .. Len(path) - 1 : acc[i + 1] >= lookahead}
       IN IF ends = {} THEN path[Len(path)]
          ELSE PointAlong(from(Min(ends)), path[Min(ends) + 1], lookahead - acc[Min(ends)])

(* chunk._lookahead: ahead[i] is what is left to walk at segment i, of     *)
(* which the part before the projection counts from the segment's start.   *)
chunk_lookahead(path, r, lookahead) ==
  LET c == closest(path, r)
      start(i) == IF i = c THEN Length(path[c], Projection(path[c], path[c + 1], r)) ELSE 0
      left(i) == Length(path[i], path[i + 1]) - start(i)
      ahead[i \in c .. Len(path)] == IF i = c THEN lookahead ELSE ahead[i - 1] - left(i - 1)
      ends == {i \in c .. Len(path) - 1 : left(i) >= ahead[i]}
  IN IF ends = {} THEN path[Len(path)]
     ELSE PointAlong(path[Min(ends)], path[Min(ends) + 1], start(Min(ends)) + ahead[Min(ends)])

-----------------------------------------------------------------------------
(* The clear lookahead.  A costmap is the set of its blocked cells: cells  *)
(* outside of it, unknown ones and those of an empty costmap are clear.    *)

(* CostmapGrid.is_clear at the point <<x / q, y / q>>; int() truncates, so *)
(* a point less than a cell below the origin reads the first row.          *)
is_clear(costmap, x, y, q) ==
  LET cell(n) == Sign(n) * (Abs(n) \div (q * Resolution))
  IN <<cell(x), cell(y)>> \notin costmap

(* The samples of a chord, 5 cm or one unit a piece: np.linspace puts the  *)
(* first on the robot and the last on the carrot.  A length of whole units *)
(* may come out of the division a little short of them, as 0.3 / 0.05 does.*)
Samples(r, c, short) ==
  LET length == Isqrt(Distance2(r, c))
      whole == length * length = Distance2(r, c)
  IN Max({2, IF whole /\ short THEN length - 1 ELSE length})

CarrotClear(r, c, costmap, short) == is_clear(costmap, c[1], c[2], 1)  \* mutant

chord_clear(r, c, costmap, short) ==
  LET q == Samples(r, c, short) - 1
  IN \A k \in 0 .. q : is_clear(costmap, q * r[1] + k * (c[1] - r[1]),
                              q * r[2] + k * (c[2] - r[2]), q)

Minimum == 6  \* 0.3 m
Step == 5     \* 0.25 m
Candidates(lookahead) == {d \in Minimum .. lookahead : (d - Minimum) % Step = 0}

(* The last candidate with a clear chord, else the minimum one unchecked;  *)
(* short holds the candidates whose division comes out short.              *)
lookahead_clear_on_path(path, r, lookahead, costmap, short) ==
  LET at(d) == lookahead_on_path(path, r, d)
      clear == {d \in Candidates(lookahead) : chord_clear(r, at(d), costmap, d \in short)}
  IN at(IF clear = {} THEN Minimum ELSE Max(clear))

-----------------------------------------------------------------------------
(* The canonical scan.  A beam that returns nothing reads NoReturn.        *)

NoReturn == 0

(* _wrap: into [-Turn/2, Turn/2). *)
wrap(a) == ((a + Turn \div 2) % Turn) - Turn \div 2

clean(range) == IF range = NoReturn \/ range < RangeMin THEN RangeMax
                ELSE Min({range, RangeMax})

(* Where beam i looks, in the order of the message. *)
bearing(angle_min, increment, i) == wrap(angle_min + increment * (i - 1))

UncoveredSigned(gap, increment) == 2 * gap > 3 * increment  \* mutant

uncovered(gap, increment) == 2 * gap > 3 * Abs(increment)

(* np.interp between the beams on either side of phi, the circle closed:   *)
(* below is how far back the last beam at or before phi lies, above how    *)
(* far ahead the first one at or after it; rounded down to a unit.         *)
canonical_scan(ranges, angle_min, increment, beams) ==
  LET n == Len(ranges)
      r(i) == clean(ranges[i])
      theta(i) == bearing(angle_min, increment, i)
      ray(phi) ==
        LET below(i) == (phi - theta(i)) % Turn
            above(i) == (theta(i) - phi) % Turn
            a == CHOOSE i \in 1 .. n : \A j \in 1 .. n : below(i) <= below(j)
            b == CHOOSE i \in 1 .. n : \A j \in 1 .. n : above(i) <= above(j)
            gap == Min({below(a), above(b)})
        IN IF uncovered(gap, increment) THEN RangeMax
           ELSE IF below(a) + above(b) = 0 THEN r(a)
           ELSE (r(a) * above(b) + r(b) * below(a)) \div (below(a) + above(b))
  IN IF n = 0 THEN <<>>
     ELSE IF n < 2 \/ increment = 0 THEN [k \in 1 .. beams |-> RangeMax]
     ELSE [k \in 1 .. beams |-> ray(wrap((Turn \div beams) * (k - 1)))]
=============================================================================
