---------------------------- MODULE GeofencesProofs ----------------------------
(***************************************************************************)
(* Proofs about Geofences, for any grid, any scan and any rules: zones     *)
(* that a diagonal divides agree with their parts on every target, and a   *)
(* convex zone holds what is left of all its sides and nothing else.       *)
(***************************************************************************)
EXTENDS Geofences, FiniteSetTheorems, SequenceTheorems, TLAPS

Odd(S) == Cardinality(S) % 2 = 1

(* A member more or less changes whether the size of a set is odd. *)
LEMMA OddStep ==
    ASSUME NEW S, IsFiniteSet(S), NEW x
    PROVE  /\ IsFiniteSet(S \ {x})
           /\ x \in S => (Odd(S) <=> ~Odd(S \ {x}))
           /\ x \notin S => (Odd(S) <=> Odd(S \ {x}))
<1>1. Cardinality(S) \in Nat  BY FS_CardinalityType
<1>2. IsFiniteSet(S \ {x}) /\ Cardinality(S \ {x}) = IF x \in S THEN Cardinality(S) - 1
                                                     ELSE Cardinality(S)
  BY FS_RemoveElement
<1> QED  BY <1>1, <1>2 DEF Odd

(* The ray casting of a triangle and of a quadrangle, edge by edge. *)
LEMMA OddThree ==
    ASSUME NEW S \in SUBSET (1..3)
    PROVE  Odd(S) <=> (1 \in S <=> (2 \in S <=> 3 \in S))
<1>0. IsFiniteSet(1..3)
  <2>1. 1 \in Int /\ 3 \in Int  OBVIOUS
  <2> QED  BY <2>1, FS_Interval, Zenon
<1>1. IsFiniteSet(S)  BY <1>0, FS_Subset
<1>. DEFINE S3 == S \ {3}
            S2 == S3 \ {2}
            S1 == S2 \ {1}
<1>3. IsFiniteSet(S3) /\ (Odd(S) <=> ~(3 \in S <=> Odd(S3)))  BY <1>1, OddStep
<1>2. IsFiniteSet(S2) /\ (Odd(S3) <=> ~(2 \in S3 <=> Odd(S2)))  BY <1>3, OddStep
<1>4. IsFiniteSet(S1) /\ (Odd(S2) <=> ~(1 \in S2 <=> Odd(S1)))  BY <1>2, OddStep
<1>5. S1 = {}
  <2>1. S \subseteq {1, 2, 3}  OBVIOUS
  <2> QED  BY <2>1
<1>6. ~Odd(S1)
  <2>1. Cardinality(S1) = 0  BY <1>5, FS_EmptySet
  <2> QED  BY <2>1 DEF Odd
<1>7. (2 \in S3 <=> 2 \in S) /\ (1 \in S2 <=> 1 \in S)  OBVIOUS
<1> QED  BY <1>2, <1>3, <1>4, <1>6, <1>7

LEMMA OddFour ==
    ASSUME NEW S \in SUBSET (1..4)
    PROVE  Odd(S) <=> ~(1 \in S <=> (2 \in S <=> (3 \in S <=> 4 \in S)))
<1>0. IsFiniteSet(1..4)
  <2>1. 1 \in Int /\ 4 \in Int  OBVIOUS
  <2> QED  BY <2>1, FS_Interval, Zenon
<1>1. IsFiniteSet(S)  BY <1>0, FS_Subset
<1>. DEFINE S3 == S \ {4}
<1>2. Odd(S) <=> ~(4 \in S <=> Odd(S3))  BY <1>1, OddStep
<1>3. S3 \in SUBSET (1..3)  OBVIOUS
<1>4. Odd(S3) <=> (1 \in S3 <=> (2 \in S3 <=> 3 \in S3))  BY <1>3, OddThree
<1>5. (1 \in S3 <=> 1 \in S) /\ (2 \in S3 <=> 2 \in S) /\ (3 \in S3 <=> 3 \in S)  OBVIOUS
<1> QED  BY <1>2, <1>4, <1>5

(* The grid of positions: the zones' vertices and the targets. *)
Position == [lat : Int, lon : Int]

(* An edge is crossed in both directions or in none. *)
LEMMA Undirected ==
    ASSUME NEW p, p.lat \in Int, p.lon \in Int, NEW a \in Position, NEW b \in Position
    PROVE  Crosses(p, a, b) <=> Crosses(p, b, a)
<1>1. /\ a.lat \in Int /\ a.lon \in Int /\ b.lat \in Int /\ b.lon \in Int  BY DEF Position
<1>2. ASSUME NEW x \in Int, NEW y \in Int, NEW ax \in Int, NEW ay \in Int,
             NEW bx \in Int, NEW by \in Int
      PROVE  /\ (x - bx) * (ay - by) < (y - by) * (ax - bx)
                    <=> (x - ax) * (by - ay) > (y - ay) * (bx - ax)
             /\ (x - bx) * (ay - by) > (y - by) * (ax - bx)
                    <=> (x - ax) * (by - ay) < (y - ay) * (bx - ax)
  OBVIOUS
<1>3. (a.lat > p.lat) # (b.lat > p.lat) <=> (b.lat > p.lat) # (a.lat > p.lat)
  OBVIOUS
<1>4. (a.lat > p.lat) # (b.lat > p.lat) => a.lat > b.lat \/ b.lat > a.lat
  BY <1>1
<1> QED  BY <1>1, <1>2, <1>3, <1>4 DEF Crosses

(* The ray casting of a triangle and of a quadrangle, edge by edge. *)
LEMMA CastThree ==
    ASSUME NEW p, NEW v \in Seq(Position), Len(v) = 3
    PROVE  PointInPolygon(p, v)
               <=> (Crosses(p, v[3], v[1]) <=> (Crosses(p, v[1], v[2]) <=> Crosses(p, v[2], v[3])))
<1>. DEFINE before(i) == IF i = 1 THEN Len(v) ELSE i - 1
            S == {i \in 1..Len(v) : Crosses(p, v[before(i)], v[i])}
<1>1. S \in SUBSET (1..3)  OBVIOUS
<1>2. before(1) = 3 /\ before(2) = 1 /\ before(3) = 2  OBVIOUS
<1>3. /\ 1 \in S <=> Crosses(p, v[3], v[1])
      /\ 2 \in S <=> Crosses(p, v[1], v[2])
      /\ 3 \in S <=> Crosses(p, v[2], v[3])
  BY <1>2
<1>4. PointInPolygon(p, v) <=> Odd(S)  BY DEF PointInPolygon, Odd
<1>. HIDE DEF S
<1> QED  BY <1>1, <1>3, <1>4, OddThree

LEMMA CastFour ==
    ASSUME NEW p, NEW v \in Seq(Position), Len(v) = 4
    PROVE  PointInPolygon(p, v)
               <=> ~(Crosses(p, v[4], v[1]) <=> (Crosses(p, v[1], v[2])
                       <=> (Crosses(p, v[2], v[3]) <=> Crosses(p, v[3], v[4]))))
<1>. DEFINE before(i) == IF i = 1 THEN Len(v) ELSE i - 1
            S == {i \in 1..Len(v) : Crosses(p, v[before(i)], v[i])}
<1>1. S \in SUBSET (1..4)  OBVIOUS
<1>2. before(1) = 4 /\ before(2) = 1 /\ before(3) = 2 /\ before(4) = 3  OBVIOUS
<1>3. /\ 1 \in S <=> Crosses(p, v[4], v[1])
      /\ 2 \in S <=> Crosses(p, v[1], v[2])
      /\ 3 \in S <=> Crosses(p, v[2], v[3])
      /\ 4 \in S <=> Crosses(p, v[3], v[4])
  BY <1>2
<1>4. PointInPolygon(p, v) <=> Odd(S)  BY DEF PointInPolygon, Odd
<1>. HIDE DEF S
<1> QED  BY <1>1, <1>3, <1>4, OddFour

Located(p) == p.lat \in Int /\ p.lon \in Int

(* The zones as sequences of positions. *)
LEMMA Outlines ==
    ASSUME outline \in [1..4 -> Point]
    PROVE  /\ outline \in Seq(Position) /\ Len(outline) = 4
           /\ \A i \in 1..4 : outline[i] \in Position
           /\ Polygon("whole") = outline
           /\ Polygon("first") = <<outline[1], outline[2], outline[3]>>
           /\ Polygon("second") = <<outline[1], outline[3], outline[4]>>
<1>1. Point \subseteq Position  BY GridAssumption DEF Point, Position
<1>2. outline \in [1..4 -> Position]  BY <1>1
<1>3. outline \in Seq(Position)
  <2>1. outline = <<outline[1], outline[2], outline[3], outline[4]>>  BY <1>2
  <2>2. \A i \in 1..4 : outline[i] \in Position  BY <1>2
  <2>3. <<outline[1], outline[2], outline[3], outline[4]>> \in Seq(Position)  BY <2>2
  <2> QED  BY <2>1, <2>3, Zenon
<1>4. Len(outline) = 4  BY <1>2, <1>3, LenProperties
<1> QED  BY <1>2, <1>3, <1>4 DEF Polygon

(* The diagonal is crossed by the rays of both parts or of none. *)
LEMMA Division ==
    ASSUME NEW p, Located(p), outline \in [1..4 -> Point]
    PROVE  PointInPolygon(p, Polygon("whole"))
               <=> ~(PointInPolygon(p, Polygon("first")) <=> PointInPolygon(p, Polygon("second")))
<1>. DEFINE first == <<outline[1], outline[2], outline[3]>>
            second == <<outline[1], outline[3], outline[4]>>
            C(i, j) == Crosses(p, outline[i], outline[j])
<1>1. \A i \in 1..4 : outline[i] \in Position  BY Outlines
<1>2. first \in Seq(Position) /\ Len(first) = 3 /\ second \in Seq(Position) /\ Len(second) = 3
  BY <1>1
<1>3. PointInPolygon(p, first) <=> (C(3, 1) <=> (C(1, 2) <=> C(2, 3)))
  BY <1>2, CastThree
<1>4. PointInPolygon(p, second) <=> (C(4, 1) <=> (C(1, 3) <=> C(3, 4)))
  BY <1>2, CastThree
<1>5. PointInPolygon(p, outline) <=> ~(C(4, 1) <=> (C(1, 2) <=> (C(2, 3) <=> C(3, 4))))
  BY Outlines, CastFour
<1>6. C(1, 3) <=> C(3, 1)
  <2>1. p.lat \in Int /\ p.lon \in Int  BY DEF Located
  <2>2. outline[1] \in Position /\ outline[3] \in Position  BY <1>1
  <2> QED  BY <2>1, <2>2, Undirected
<1>. HIDE DEF C
<1>7. PointInPolygon(p, outline) <=> ~(PointInPolygon(p, first) <=> PointInPolygon(p, second))
  BY <1>3, <1>4, <1>5, <1>6
<1> QED  BY <1>7, Outlines

(* A position west of an edge and one east of it. *)
LEMMA Beside ==
    ASSUME NEW h \in Int, NEW g \in Int, NEW k \in Int, NEW t \in Int, 0 <= t, t <= k, 0 < k
    PROVE  /\ h < g /\ h < 0 => h * k < t * g
           /\ h > g /\ h > 0 => h * k >= t * g
<1>1. ASSUME h < g, h < 0  PROVE h * k < t * g
  <2>1. CASE g >= 0
    <3>1. t * g >= 0  BY <2>1
    <3>2. h * k < 0  BY <1>1
    <3> QED  BY <3>1, <3>2
  <2>2. CASE g < 0
    <3>1. h * k < g * k  BY <1>1
    <3>2. g * k <= t * g  BY <2>2
    <3> QED  BY <3>1, <3>2
  <2> QED  BY <2>1, <2>2
<1>2. ASSUME h > g, h > 0  PROVE h * k >= t * g
  <2>1. CASE g < 0
    <3>1. t * g <= 0  BY <2>1
    <3>2. h * k > 0  BY <1>2
    <3> QED  BY <3>1, <3>2
  <2>2. CASE g >= 0
    <3>1. t * g <= k * g  BY <2>2
    <3>2. k * g <= h * k  BY <1>2
    <3> QED  BY <3>1, <3>2
  <2> QED  BY <2>1, <2>2
<1> QED  BY <1>1, <1>2

Straddles(p, a, b) == ~(b.lat > p.lat <=> a.lat > p.lat)

(* An edge in a box: who crosses it is not above, below or east of the box, *)
(* and who is west of the box crosses it if it straddles its latitude.      *)
LEMMA EdgeInBox ==
    ASSUME NEW p, Located(p), NEW a \in Position, NEW b \in Position,
           NEW s \in Int, NEW n \in Int, NEW w \in Int, NEW e \in Int,
           a.lat \in s..n, b.lat \in s..n, a.lon \in w..e, b.lon \in w..e
    PROVE  /\ Crosses(p, a, b) => p.lat \in s..n /\ p.lon <= e
           /\ p.lon < w => (Crosses(p, a, b) <=> Straddles(p, a, b))
<1>. DEFINE x == p.lon  y == p.lat  ax == a.lon  ay == a.lat  bx == b.lon  by == b.lat
<1>1. /\ x \in Int /\ y \in Int /\ ax \in Int /\ ay \in Int /\ bx \in Int /\ by \in Int
      /\ ay \in s..n /\ by \in s..n /\ ax \in w..e /\ bx \in w..e
  BY DEF Position, Located
<1>2. Crosses(p, a, b) <=>
          /\ Straddles(p, a, b)
          /\ IF ay > by THEN (x - bx) * (ay - by) < (y - by) * (ax - bx)
             ELSE (x - bx) * (ay - by) > (y - by) * (ax - bx)
  BY DEF Crosses, Straddles
<1>3. Straddles(p, a, b) <=> \/ by <= y /\ y < ay
                             \/ ay <= y /\ y < by
  BY <1>1 DEF Straddles
<1>. HIDE DEF x, y, ax, ay, bx, by
<1>4. CASE by <= y /\ y < ay
  <2>1. /\ x - bx < ax - bx /\ x - bx < 0 => (x - bx) * (ay - by) < (y - by) * (ax - bx)
        /\ x - bx > ax - bx /\ x - bx > 0 => (x - bx) * (ay - by) >= (y - by) * (ax - bx)
    <3>1. /\ x - bx \in Int /\ ax - bx \in Int /\ ay - by \in Int /\ y - by \in Int
          /\ 0 <= y - by /\ y - by <= ay - by /\ 0 < ay - by
      BY <1>1, <1>4
    <3> QED  BY <3>1, Beside
  <2>2. (x < w => x - bx < ax - bx /\ x - bx < 0) /\ (x > e => x - bx > ax - bx /\ x - bx > 0)
    BY <1>1
  <2>3. /\ (x - bx) * (ay - by) \in Int /\ (y - by) * (ax - bx) \in Int
    BY <1>1
  <2>4. y \in s..n /\ ay > by /\ Straddles(p, a, b)  BY <1>1, <1>3, <1>4
  <2>5. Crosses(p, a, b) <=> (x - bx) * (ay - by) < (y - by) * (ax - bx)  BY <1>2, <2>4
  <2>6. x < w => Crosses(p, a, b)  BY <2>1, <2>2, <2>5
  <2>7. Crosses(p, a, b) => ~(x > e)  BY <2>1, <2>2, <2>3, <2>5
  <2> QED  BY <1>1, <2>4, <2>6, <2>7 DEF x, y
<1>5. CASE ay <= y /\ y < by
  <2>1. /\ x - bx < ax - bx /\ x - bx < 0 => (x - bx) * (by - ay) < (by - y) * (ax - bx)
        /\ x - bx > ax - bx /\ x - bx > 0 => (x - bx) * (by - ay) >= (by - y) * (ax - bx)
    <3>1. /\ x - bx \in Int /\ ax - bx \in Int /\ by - ay \in Int /\ by - y \in Int
          /\ 0 <= by - y /\ by - y <= by - ay /\ 0 < by - ay
      BY <1>1, <1>5
    <3> QED  BY <3>1, Beside
  <2>2. (x < w => x - bx < ax - bx /\ x - bx < 0) /\ (x > e => x - bx > ax - bx /\ x - bx > 0)
    BY <1>1
  <2>3. /\ (x - bx) * (by - ay) \in Int /\ (by - y) * (ax - bx) \in Int
        /\ (x - bx) * (ay - by) = -((x - bx) * (by - ay))
        /\ (y - by) * (ax - bx) = -((by - y) * (ax - bx))
    BY <1>1
  <2>4. y \in s..n /\ ~(ay > by) /\ Straddles(p, a, b)  BY <1>1, <1>3, <1>5
  <2>5. Crosses(p, a, b) <=> (x - bx) * (by - ay) < (by - y) * (ax - bx)  BY <1>2, <2>3, <2>4
  <2>6. x < w => Crosses(p, a, b)  BY <2>1, <2>2, <2>5
  <2>7. Crosses(p, a, b) => ~(x > e)  BY <2>1, <2>2, <2>3, <2>5
  <2> QED  BY <1>1, <2>4, <2>6, <2>7 DEF x, y
<1>6. CASE ~Straddles(p, a, b)
  BY <1>2, <1>6
<1> QED  BY <1>3, <1>4, <1>5, <1>6

(* The least and the greatest of up to four numbers. *)
LEMMA Extremes ==
    ASSUME NEW a \in Int, NEW b \in Int, NEW c \in Int, NEW d \in Int,
           NEW S, S = {a, b, c, d}
    PROVE  /\ Least(S) \in Int /\ Greatest(S) \in Int
           /\ \A z \in S : Least(S) <= z /\ z <= Greatest(S)
<1>1. \E x \in S : \A y \in S : x <= y
  <2>1. CASE a <= b /\ a <= c /\ a <= d  BY <2>1
  <2>2. CASE b <= a /\ b <= c /\ b <= d  BY <2>2
  <2>3. CASE c <= a /\ c <= b /\ c <= d  BY <2>3
  <2>4. CASE d <= a /\ d <= b /\ d <= c  BY <2>4
  <2> QED  BY <2>1, <2>2, <2>3, <2>4
<1>2. \E x \in S : \A y \in S : x >= y
  <2>1. CASE a >= b /\ a >= c /\ a >= d  BY <2>1
  <2>2. CASE b >= a /\ b >= c /\ b >= d  BY <2>2
  <2>3. CASE c >= a /\ c >= b /\ c >= d  BY <2>3
  <2>4. CASE d >= a /\ d >= b /\ d >= c  BY <2>4
  <2> QED  BY <2>1, <2>2, <2>3, <2>4
<1>3. S \subseteq Int  OBVIOUS
<1>4. Least(S) \in S /\ \A z \in S : Least(S) <= z  BY <1>1 DEF Least
<1>5. Greatest(S) \in S /\ \A z \in S : Greatest(S) >= z  BY <1>2 DEF Greatest
<1>6. \A z \in S : z <= Greatest(S)  BY <1>3, <1>5
<1>7. Least(S) \in Int /\ Greatest(S) \in Int  BY <1>3, <1>4, <1>5
<1> QED  BY <1>4, <1>6, <1>7

(* A box holds the vertices it is made of. *)
LEMMA BoxHolds ==
    ASSUME NEW v \in Seq(Position), Len(v) \in {3, 4}
    PROVE  LET box == BoundingBox(v) IN
               /\ {box.south, box.north, box.west, box.east} \subseteq Int
               /\ \A i \in 1..Len(v) : /\ v[i].lat \in box.south..box.north
                                       /\ v[i].lon \in box.west..box.east
<1>. DEFINE lats == {v[i].lat : i \in DOMAIN v}
            lons == {v[i].lon : i \in DOMAIN v}
            last == Len(v)
<1>1. DOMAIN v = 1..Len(v)  BY LenProperties
<1>2. \A i \in 1..Len(v) : v[i].lat \in Int /\ v[i].lon \in Int
  <2>1. \A i \in 1..Len(v) : v[i] \in Position  BY ElementOfSeq
  <2> QED  BY <2>1 DEF Position
<1>3. 1 \in 1..Len(v) /\ 2 \in 1..Len(v) /\ 3 \in 1..Len(v) /\ last \in 1..Len(v)  OBVIOUS
<1>4. /\ lats = {v[1].lat, v[2].lat, v[3].lat, v[last].lat}
      /\ lons = {v[1].lon, v[2].lon, v[3].lon, v[last].lon}
  <2>1. 1..3 = {1, 2, 3, 3} /\ 1..4 = {1, 2, 3, 4}  OBVIOUS
  <2>2. DOMAIN v = {1, 2, 3, last}  BY <1>1, <2>1
  <2> QED  BY <2>2
<1>. HIDE DEF lats, lons, last
<1>5. /\ v[1].lat \in Int /\ v[2].lat \in Int /\ v[3].lat \in Int /\ v[last].lat \in Int
       /\ v[1].lon \in Int /\ v[2].lon \in Int /\ v[3].lon \in Int /\ v[last].lon \in Int
  BY <1>2, <1>3
<1>6. /\ Least(lats) \in Int /\ Greatest(lats) \in Int
      /\ \A z \in lats : Least(lats) <= z /\ z <= Greatest(lats)
  BY <1>4, <1>5, Extremes, Zenon
<1>7. /\ Least(lons) \in Int /\ Greatest(lons) \in Int
      /\ \A z \in lons : Least(lons) <= z /\ z <= Greatest(lons)
  BY <1>4, <1>5, Extremes, Zenon
<1>8. \A i \in 1..Len(v) : v[i].lat \in lats /\ v[i].lon \in lons
  BY <1>1 DEF lats, lons
<1>9. BoundingBox(v) = [south |-> Least(lats), north |-> Greatest(lats),
                        west |-> Least(lons), east |-> Greatest(lons)]
  BY DEF BoundingBox, lats, lons
<1>10. \A i \in 1..Len(v) : /\ v[i].lat \in Least(lats)..Greatest(lats)
                            /\ v[i].lon \in Least(lons)..Greatest(lons)
  BY <1>2, <1>6, <1>7, <1>8
<1> QED  BY <1>6, <1>7, <1>9, <1>10

(* No target inside a polygon is outside its box. *)
LEMMA InOwnBox ==
    ASSUME NEW p, Located(p), NEW v \in Seq(Position), Len(v) \in {3, 4},
           PointInPolygon(p, v)
    PROVE  Holds(BoundingBox(v), p)
<1>. DEFINE box == BoundingBox(v)
            Edge(i, j) == /\ Crosses(p, v[i], v[j]) => p.lat \in box.south..box.north
                                                      /\ p.lon <= box.east
                          /\ p.lon < box.west =>
                                 (Crosses(p, v[i], v[j]) <=> Straddles(p, v[i], v[j]))
<1>1. {box.south, box.north, box.west, box.east} \subseteq Int  BY BoxHolds
<1>2. \A i, j \in 1..Len(v) : Edge(i, j)
  <2>1. SUFFICES ASSUME NEW i \in 1..Len(v), NEW j \in 1..Len(v)  PROVE Edge(i, j)
    OBVIOUS
  <2>2. v[i] \in Position /\ v[j] \in Position  BY ElementOfSeq
  <2>3. /\ v[i].lat \in box.south..box.north /\ v[i].lon \in box.west..box.east
        /\ v[j].lat \in box.south..box.north /\ v[j].lon \in box.west..box.east
    BY BoxHolds
  <2>. HIDE DEF box
  <2> QED  BY <1>1, <2>2, <2>3, EdgeInBox
<1>3. p.lon \in Int  BY DEF Located
<1>. HIDE DEF box
<1>4. SUFFICES /\ p.lat \in box.south..box.north /\ p.lon <= box.east
               /\ ~(p.lon < box.west)
  BY <1>1, <1>3 DEF Holds, box
<1>5. CASE Len(v) = 3
  <2>1. Edge(3, 1) /\ Edge(1, 2) /\ Edge(2, 3)  BY <1>2, <1>5
  <2>2. Crosses(p, v[3], v[1]) <=> (Crosses(p, v[1], v[2]) <=> Crosses(p, v[2], v[3]))
    BY <1>5, CastThree
  <2>3. ~(Straddles(p, v[3], v[1]) <=> (Straddles(p, v[1], v[2]) <=> Straddles(p, v[2], v[3])))
    BY DEF Straddles
  <2> QED  BY <2>1, <2>2, <2>3
<1>6. CASE Len(v) = 4
  <2>1. Edge(4, 1) /\ Edge(1, 2) /\ Edge(2, 3) /\ Edge(3, 4)  BY <1>2, <1>6
  <2>2. ~(Crosses(p, v[4], v[1]) <=> (Crosses(p, v[1], v[2])
             <=> (Crosses(p, v[2], v[3]) <=> Crosses(p, v[3], v[4]))))
    BY <1>6, CastFour
  <2>3. Straddles(p, v[4], v[1]) <=> (Straddles(p, v[1], v[2])
             <=> (Straddles(p, v[2], v[3]) <=> Straddles(p, v[3], v[4])))
    BY DEF Straddles
  <2> QED  BY <2>1, <2>2, <2>3
<1> QED  BY <1>5, <1>6

-----------------------------------------------------------------------------
(***************************************************************************)
(* Convexity.  The turns of a position at the sides of a triangle add up   *)
(* to the triangle's, and weigh its corners so that they balance at the    *)
(* position: an edge is crossed by the sign of its turn and the heights of *)
(* its ends, so the ray casting accepts no one right of a side and all     *)
(* that are left of the three.  A convex zone is two such triangles.       *)
(***************************************************************************)

(* Twice the area of a triangle, of its coordinates. *)
Area(ax, ay, bx, by, cx, cy) == (bx - ax) * (cy - ay) - (by - ay) * (cx - ax)

LEMMA TurnIs ==
    ASSUME NEW p, NEW q, NEW r
    PROVE  Turn(p, q, r) = Area(p.lon, p.lat, q.lon, q.lat, r.lon, r.lat)
  BY DEF Turn, Area

(* The sides of a triangle, seen from a position. *)
LEMMA TurnLaws ==
    ASSUME NEW p, Located(p), NEW a \in Position, NEW b \in Position, NEW c \in Position
    PROVE  /\ Turn(a, b, p) \in Int
           /\ Turn(b, c, p) + Turn(c, a, p) + Turn(a, b, p) = Turn(a, b, c)
           /\ Turn(b, c, p) * (a.lat - p.lat) + Turn(c, a, p) * (b.lat - p.lat)
                  + Turn(a, b, p) * (c.lat - p.lat) = 0
           /\ Turn(a, b, p) = -Turn(b, a, p)
           /\ Turn(a, b, c) = Turn(b, c, a)
           /\ Turn(a, b, a) = 0 /\ Turn(a, b, b) = 0
<1>1. PICK x \in Int : x = p.lon
  BY DEF Located
<1>2. PICK y \in Int : y = p.lat
  BY DEF Located
<1>3. PICK ax \in Int : ax = a.lon
  BY DEF Position
<1>4. PICK ay \in Int : ay = a.lat
  BY DEF Position
<1>5. PICK bx \in Int : bx = b.lon
  BY DEF Position
<1>6. PICK by \in Int : by = b.lat
  BY DEF Position
<1>7. PICK cx \in Int : cx = c.lon
  BY DEF Position
<1>8. PICK cy \in Int : cy = c.lat
  BY DEF Position
<1>9. /\ Turn(a, b, p) = Area(ax, ay, bx, by, x, y) /\ Turn(b, a, p) = Area(bx, by, ax, ay, x, y)
      /\ Turn(b, c, p) = Area(bx, by, cx, cy, x, y) /\ Turn(c, a, p) = Area(cx, cy, ax, ay, x, y)
      /\ Turn(a, b, c) = Area(ax, ay, bx, by, cx, cy)
      /\ Turn(b, c, a) = Area(bx, by, cx, cy, ax, ay)
      /\ Turn(a, b, a) = Area(ax, ay, bx, by, ax, ay) /\ Turn(a, b, b) = Area(ax, ay, bx, by, bx, by)
  BY <1>1, <1>2, <1>3, <1>4, <1>5, <1>6, <1>7, <1>8, TurnIs
<1>10. /\ Area(ax, ay, bx, by, x, y) \in Int
       /\ Area(bx, by, cx, cy, x, y) + Area(cx, cy, ax, ay, x, y) + Area(ax, ay, bx, by, x, y)
              = Area(ax, ay, bx, by, cx, cy)
       /\ Area(bx, by, cx, cy, x, y) * (ay - y) + Area(cx, cy, ax, ay, x, y) * (by - y)
              + Area(ax, ay, bx, by, x, y) * (cy - y) = 0
       /\ Area(ax, ay, bx, by, x, y) = -Area(bx, by, ax, ay, x, y)
       /\ Area(ax, ay, bx, by, cx, cy) = Area(bx, by, cx, cy, ax, ay)
       /\ Area(ax, ay, bx, by, ax, ay) = 0 /\ Area(ax, ay, bx, by, bx, by) = 0
  BY DEF Area
<1>11. /\ Turn(a, b, p) \in Int
       /\ Turn(b, c, p) + Turn(c, a, p) + Turn(a, b, p) = Turn(a, b, c)
       /\ Turn(a, b, p) = -Turn(b, a, p)
       /\ Turn(a, b, c) = Turn(b, c, a)
       /\ Turn(a, b, a) = 0 /\ Turn(a, b, b) = 0
  BY <1>9, <1>10, Zenon
<1>12. Turn(b, c, p) * (a.lat - p.lat) + Turn(c, a, p) * (b.lat - p.lat)
         + Turn(a, b, p) * (c.lat - p.lat) = 0
  <2>1. a.lat - p.lat = ay - y /\ b.lat - p.lat = by - y /\ c.lat - p.lat = cy - y
    BY <1>2, <1>4, <1>6, <1>8
  <2> QED
    BY <1>9, <1>10, <2>1, Zenon
<1> QED
  BY <1>11, <1>12, Zenon

LEMMA TurnAffine ==
    ASSUME NEW p, Located(p), NEW a \in Position, NEW b \in Position, NEW c \in Position,
           NEW q \in Position, NEW r \in Position
    PROVE  Turn(a, b, c) * Turn(q, r, p)
               = Turn(b, c, p) * Turn(q, r, a) + Turn(c, a, p) * Turn(q, r, b)
                 + Turn(a, b, p) * Turn(q, r, c)
<1>1. PICK px \in Int : px = p.lon
  BY DEF Located
<1>2. PICK py \in Int : py = p.lat
  BY DEF Located
<1>3. PICK ax \in Int : ax = a.lon
  BY DEF Position
<1>4. PICK ay \in Int : ay = a.lat
  BY DEF Position
<1>5. PICK bx \in Int : bx = b.lon
  BY DEF Position
<1>6. PICK by \in Int : by = b.lat
  BY DEF Position
<1>7. PICK cx \in Int : cx = c.lon
  BY DEF Position
<1>8. PICK cy \in Int : cy = c.lat
  BY DEF Position
<1>9. PICK qx \in Int : qx = q.lon
  BY DEF Position
<1>10. PICK qy \in Int : qy = q.lat
  BY DEF Position
<1>11. PICK rx \in Int : rx = r.lon
  BY DEF Position
<1>12. PICK ry \in Int : ry = r.lat
  BY DEF Position
<1>13. Area(ax, ay, bx, by, cx, cy) * Area(qx, qy, rx, ry, px, py)
         = Area(bx, by, cx, cy, px, py) * Area(qx, qy, rx, ry, ax, ay)
           + Area(cx, cy, ax, ay, px, py) * Area(qx, qy, rx, ry, bx, by)
           + Area(ax, ay, bx, by, px, py) * Area(qx, qy, rx, ry, cx, cy)
  BY DEF Area
<1>14. /\ Turn(a, b, c) = Area(ax, ay, bx, by, cx, cy)
       /\ Turn(q, r, p) = Area(qx, qy, rx, ry, px, py)
       /\ Turn(b, c, p) = Area(bx, by, cx, cy, px, py)
       /\ Turn(q, r, a) = Area(qx, qy, rx, ry, ax, ay)
       /\ Turn(c, a, p) = Area(cx, cy, ax, ay, px, py)
       /\ Turn(q, r, b) = Area(qx, qy, rx, ry, bx, by)
       /\ Turn(a, b, p) = Area(ax, ay, bx, by, px, py)
       /\ Turn(q, r, c) = Area(qx, qy, rx, ry, cx, cy)
  BY <1>1, <1>2, <1>3, <1>4, <1>5, <1>6, <1>7, <1>8, <1>9, <1>10, <1>11, <1>12, TurnIs
<1> QED
  BY <1>13, <1>14, Zenon

(* An edge is crossed upwards by who is left of it, downwards by who is    *)
(* right of it: of the sign of the turn and the heights of the ends.       *)
Crossed(t, u, v) == \/ u <= 0 /\ v > 0 /\ t > 0
                    \/ u > 0 /\ v <= 0 /\ t < 0

LEMMA CrossedIs ==
    ASSUME NEW p, Located(p), NEW a \in Position, NEW b \in Position
    PROVE  Crosses(p, a, b) <=> Crossed(Turn(a, b, p), a.lat - p.lat, b.lat - p.lat)
<1>1. PICK x \in Int : x = p.lon
  BY DEF Located
<1>2. PICK y \in Int : y = p.lat
  BY DEF Located
<1>3. PICK ax \in Int : ax = a.lon
  BY DEF Position
<1>4. PICK ay \in Int : ay = a.lat
  BY DEF Position
<1>5. PICK bx \in Int : bx = b.lon
  BY DEF Position
<1>6. PICK by \in Int : by = b.lat
  BY DEF Position
<1>7. Crosses(p, a, b) <=>
          /\ (by > y) # (ay > y)
          /\ IF ay > by THEN (x - bx) * (ay - by) < (y - by) * (ax - bx)
             ELSE (x - bx) * (ay - by) > (y - by) * (ax - bx)
  BY <1>1, <1>2, <1>3, <1>4, <1>5, <1>6 DEF Crosses
<1>8. PICK t \in Int : t = Area(ax, ay, bx, by, x, y)
  BY DEF Area
<1>9. t = Turn(a, b, p)
  BY <1>1, <1>2, <1>3, <1>4, <1>5, <1>6, <1>8, TurnIs
<1>10. PICK l \in Int : l = (x - bx) * (ay - by)
  OBVIOUS
<1>11. PICK m \in Int : m = (y - by) * (ax - bx)
  OBVIOUS
<1>12. t = l - m
  BY <1>8, <1>10, <1>11 DEF Area
<1>13. (by > y) # (ay > y) <=> \/ by <= y /\ y < ay
                               \/ ay <= y /\ y < by
  OBVIOUS
<1>14. Crosses(p, a, b) <=> \/ by <= y /\ y < ay /\ l < m
                            \/ ay <= y /\ y < by /\ l > m
  BY <1>7, <1>10, <1>11, <1>13
<1>15. Crossed(t, ay - y, by - y) <=> \/ by <= y /\ y < ay /\ l < m
                                      \/ ay <= y /\ y < by /\ l > m
  BY <1>12 DEF Crossed
<1> QED
  BY <1>2, <1>4, <1>6, <1>9, <1>14, <1>15

LEMMA Signs ==
    ASSUME NEW s \in Int, NEW u \in Int
    PROVE  /\ s * u \in Int
           /\ s > 0 /\ u > 0 => s * u > 0
           /\ s < 0 /\ u > 0 => s * u < 0
           /\ s > 0 /\ u < 0 => s * u < 0
           /\ s < 0 /\ u < 0 => s * u > 0
           /\ s = 0 \/ u = 0 => s * u = 0
  OBVIOUS

(* The ray casting of a triangle by the heights u, v, w of its corners and *)
(* the turns i, j, k of the sides that face them.                          *)
LEMMA CastByTurns ==
    ASSUME NEW i \in Int, NEW j \in Int, NEW k \in Int, NEW u \in Int, NEW v \in Int,
           NEW w \in Int, i + j + k > 0, i * u + j * v + k * w = 0
    PROVE  LET in == Crossed(j, w, u) <=> (Crossed(k, u, v) <=> Crossed(i, v, w))
           IN  /\ in => i >= 0 /\ j >= 0 /\ k >= 0
               /\ i > 0 /\ j > 0 /\ k > 0 /\ ~(u = 0 /\ v = 0 /\ w = 0) => in
<1>1. PICK a \in Int : a = i * u
  OBVIOUS
<1>2. PICK b \in Int : b = j * v
  OBVIOUS
<1>3. PICK c \in Int : c = k * w
  OBVIOUS
<1>4. a + b + c = 0
  BY <1>1, <1>2, <1>3
<1>5. /\ i > 0 /\ u > 0 => a > 0
      /\ i < 0 /\ u > 0 => a < 0
      /\ i > 0 /\ u < 0 => a < 0
      /\ i < 0 /\ u < 0 => a > 0
      /\ i = 0 \/ u = 0 => a = 0
  BY <1>1, Signs
<1>6. /\ j > 0 /\ v > 0 => b > 0
      /\ j < 0 /\ v > 0 => b < 0
      /\ j > 0 /\ v < 0 => b < 0
      /\ j < 0 /\ v < 0 => b > 0
      /\ j = 0 \/ v = 0 => b = 0
  BY <1>2, Signs
<1>7. /\ k > 0 /\ w > 0 => c > 0
      /\ k < 0 /\ w > 0 => c < 0
      /\ k > 0 /\ w < 0 => c < 0
      /\ k < 0 /\ w < 0 => c > 0
      /\ k = 0 \/ w = 0 => c = 0
  BY <1>3, Signs
<1> QED
  BY <1>4, <1>5, <1>6, <1>7 DEF Crossed

Cast(p, a, b, c) == Crosses(p, c, a) <=> (Crosses(p, a, b) <=> Crosses(p, b, c))

LEMMA CastIs ==
    ASSUME NEW p, NEW a \in Position, NEW b \in Position, NEW c \in Position
    PROVE  PointInPolygon(p, <<a, b, c>>) <=> Cast(p, a, b, c)
<1>1. PICK v : v = <<a, b, c>>
  OBVIOUS
<1>2. v \in Seq(Position) /\ Len(v) = 3 /\ v[1] = a /\ v[2] = b /\ v[3] = c
  BY <1>1
<1> QED
  BY <1>1, <1>2, CastThree DEF Cast

(* The ray casting finds no position outside a triangle, and all inside. *)
LEMMA Triangle ==
    ASSUME NEW p, Located(p), NEW a \in Position, NEW b \in Position, NEW c \in Position,
           Turn(a, b, c) > 0
    PROVE  /\ Cast(p, a, b, c) =>
                  Turn(b, c, p) >= 0 /\ Turn(c, a, p) >= 0 /\ Turn(a, b, p) >= 0
           /\ Turn(b, c, p) > 0 /\ Turn(c, a, p) > 0 /\ Turn(a, b, p) > 0 => Cast(p, a, b, c)
<1>1. PICK i \in Int : i = Turn(b, c, p)
  BY TurnLaws
<1>2. PICK j \in Int : j = Turn(c, a, p)
  BY TurnLaws
<1>3. PICK k \in Int : k = Turn(a, b, p)
  BY TurnLaws
<1>4. PICK u \in Int : u = a.lat - p.lat
  BY DEF Located, Position
<1>5. PICK v \in Int : v = b.lat - p.lat
  BY DEF Located, Position
<1>6. PICK w \in Int : w = c.lat - p.lat
  BY DEF Located, Position
<1>7. i + j + k = Turn(a, b, c) /\ i * u + j * v + k * w = 0
  BY <1>1, <1>2, <1>3, <1>4, <1>5, <1>6, TurnLaws
<1>8. i + j + k > 0
  BY <1>7
<1>9. ~(u = 0 /\ v = 0 /\ w = 0)
  <2>1. SUFFICES ASSUME u = 0, v = 0, w = 0 PROVE FALSE
    OBVIOUS
  <2>2. a.lat = p.lat /\ b.lat = p.lat /\ c.lat = p.lat
    BY <1>4, <1>5, <1>6, <2>1 DEF Located, Position
  <2>3. Turn(a, b, c) = 0
    BY <2>2 DEF Turn, Located, Position
  <2> QED
    BY <2>3
<1>10. /\ Crosses(p, c, a) <=> Crossed(j, w, u)
       /\ Crosses(p, a, b) <=> Crossed(k, u, v)
       /\ Crosses(p, b, c) <=> Crossed(i, v, w)
  BY <1>1, <1>2, <1>3, <1>4, <1>5, <1>6, CrossedIs
<1>11. /\ Cast(p, a, b, c) => i >= 0 /\ j >= 0 /\ k >= 0
       /\ i > 0 /\ j > 0 /\ k > 0 => Cast(p, a, b, c)
  BY <1>7, <1>8, <1>9, <1>10, CastByTurns DEF Cast
<1> QED
  BY <1>1, <1>2, <1>3, <1>11

(* What a triangle has on the left of a line, it has with all it holds. *)
LEMMA LeftOf ==
    ASSUME NEW p, Located(p), NEW a \in Position, NEW b \in Position, NEW c \in Position,
           Turn(a, b, c) > 0, Cast(p, a, b, c), NEW q \in Position, NEW r \in Position,
           Turn(q, r, a) >= 0, Turn(q, r, b) >= 0, Turn(q, r, c) >= 0
    PROVE  Turn(q, r, p) >= 0
<1>1. Turn(b, c, p) >= 0 /\ Turn(c, a, p) >= 0 /\ Turn(a, b, p) >= 0
  BY Triangle
<1>2. PICK d \in Int : d = Turn(a, b, c) /\ d > 0
  BY TurnLaws DEF Located, Position
<1>3. PICK t \in Int : t = Turn(q, r, p)
  BY TurnLaws
<1>4. PICK e \in Int : e = Turn(b, c, p) * Turn(q, r, a) /\ e >= 0
  <2>1. PICK m \in Int : m = Turn(b, c, p)
    BY TurnLaws
  <2>2. PICK n \in Int : n = Turn(q, r, a)
    BY TurnLaws DEF Located, Position
  <2>3. m >= 0 /\ n >= 0
    BY <1>1, <2>1, <2>2
  <2>4. m * n \in Int /\ m * n >= 0
    BY <2>3
  <2> QED
    BY <2>1, <2>2, <2>4
<1>5. PICK f \in Int : f = Turn(c, a, p) * Turn(q, r, b) /\ f >= 0
  <2>1. PICK m \in Int : m = Turn(c, a, p)
    BY TurnLaws
  <2>2. PICK n \in Int : n = Turn(q, r, b)
    BY TurnLaws DEF Located, Position
  <2>3. m >= 0 /\ n >= 0
    BY <1>1, <2>1, <2>2
  <2>4. m * n \in Int /\ m * n >= 0
    BY <2>3
  <2> QED
    BY <2>1, <2>2, <2>4
<1>6. PICK g \in Int : g = Turn(a, b, p) * Turn(q, r, c) /\ g >= 0
  <2>1. PICK m \in Int : m = Turn(a, b, p)
    BY TurnLaws
  <2>2. PICK n \in Int : n = Turn(q, r, c)
    BY TurnLaws DEF Located, Position
  <2>3. m >= 0 /\ n >= 0
    BY <1>1, <2>1, <2>2
  <2>4. m * n \in Int /\ m * n >= 0
    BY <2>3
  <2> QED
    BY <2>1, <2>2, <2>4
<1>7. d * t = e + f + g
  BY <1>2, <1>3, <1>4, <1>5, <1>6, TurnAffine
<1>8. ~(t < 0)
  <2>1. t < 0 => d * t < 0
    BY <1>2, Signs
  <2>2. e + f + g >= 0
    BY <1>4, <1>5, <1>6
  <2> QED
    BY <1>7, <2>1, <2>2
<1> QED
  BY <1>3, <1>8

(* A position on the diagonal belongs to one of the two triangles. *)
LEMMA OnDiagonal ==
    ASSUME NEW p, Located(p), NEW a \in Position, NEW b \in Position, NEW c \in Position,
           NEW d \in Position, Turn(a, b, c) > 0, Turn(a, c, d) > 0, Turn(a, c, p) = 0,
           Turn(a, b, p) > 0, Turn(b, c, p) > 0, Turn(c, d, p) > 0, Turn(d, a, p) > 0
    PROVE  ~(Cast(p, a, b, c) <=> Cast(p, a, c, d))
<1>1. PICK i \in Int : i = Turn(b, c, p) /\ i > 0
  BY TurnLaws
<1>2. PICK k \in Int : k = Turn(a, b, p) /\ k > 0
  BY TurnLaws
<1>3. PICK m \in Int : m = Turn(c, d, p) /\ m > 0
  BY TurnLaws
<1>4. PICK n \in Int : n = Turn(d, a, p) /\ n > 0
  BY TurnLaws
<1>5. PICK u \in Int : u = a.lat - p.lat
  BY DEF Located, Position
<1>6. PICK v \in Int : v = b.lat - p.lat
  BY DEF Located, Position
<1>7. PICK w \in Int : w = c.lat - p.lat
  BY DEF Located, Position
<1>8. PICK z \in Int : z = d.lat - p.lat
  BY DEF Located, Position
<1>9. Turn(c, a, p) = 0
  <2>1. PICK t \in Int : t = Turn(c, a, p)
    BY TurnLaws
  <2>2. Turn(a, c, p) = -t
    BY <2>1, TurnLaws
  <2> QED
    BY <2>1, <2>2
<1>10. i * u + k * w = 0
  <2>1. i * u + 0 * v + k * w = 0
    BY <1>1, <1>2, <1>5, <1>6, <1>7, <1>9, TurnLaws
  <2> QED
    BY <2>1
<1>11. /\ Crosses(p, c, a) <=> Crossed(0, w, u)
       /\ Crosses(p, a, b) <=> Crossed(k, u, v)
       /\ Crosses(p, b, c) <=> Crossed(i, v, w)
       /\ Crosses(p, a, c) <=> Crossed(0, u, w)
       /\ Crosses(p, c, d) <=> Crossed(m, w, z)
       /\ Crosses(p, d, a) <=> Crossed(n, z, u)
  BY <1>1, <1>2, <1>3, <1>4, <1>5, <1>6, <1>7, <1>8, <1>9, CrossedIs
<1>12. Cast(p, a, b, c) <=> (Crossed(0, w, u) <=> (Crossed(k, u, v) <=> Crossed(i, v, w)))
  BY <1>11 DEF Cast
<1>13. Cast(p, a, c, d) <=> (Crossed(n, z, u) <=> (Crossed(0, u, w) <=> Crossed(m, w, z)))
  BY <1>11 DEF Cast
(* The ends of the diagonal lie on different sides of the ray, or on it. *)
<1>14. \/ u > 0 /\ w < 0
       \/ u < 0 /\ w > 0
       \/ u = 0 /\ w = 0
  <2>1. PICK e \in Int : e = i * u
    OBVIOUS
  <2>2. PICK f \in Int : f = k * w
    OBVIOUS
  <2>3. e + f = 0
    BY <1>10, <2>1, <2>2
  <2>4. (u > 0 => e > 0) /\ (u < 0 => e < 0) /\ (u = 0 => e = 0)
    BY <1>1, <2>1, Signs
  <2>5. (w > 0 => f > 0) /\ (w < 0 => f < 0) /\ (w = 0 => f = 0)
    BY <1>2, <2>2, Signs
  <2> QED
    BY <2>3, <2>4, <2>5
<1>15. CASE u # 0
  BY <1>1, <1>2, <1>3, <1>4, <1>12, <1>13, <1>14, <1>15 DEF Crossed
<1>16. CASE u = 0
  <2>1. PICK e \in Int : e = c.lon - a.lon
    BY DEF Position
  <2>2. a.lat = p.lat /\ c.lat = p.lat
    BY <1>5, <1>7, <1>14, <1>16 DEF Located, Position
  <2>3. Turn(a, b, c) = -(v * e)
    <3>1. PICK x \in Int : x = b.lon - a.lon
      BY DEF Position
    <3>2. b.lat - a.lat = v /\ c.lat - a.lat = 0
      BY <1>6, <2>2 DEF Located, Position
    <3>3. Turn(a, b, c) = x * 0 - v * e
      BY <2>1, <3>1, <3>2 DEF Turn
    <3> QED
      BY <3>3
  <2>4. Turn(a, c, d) = e * z
    <3>1. PICK x \in Int : x = d.lon - a.lon
      BY DEF Position
    <3>2. c.lat - a.lat = 0 /\ d.lat - a.lat = z
      BY <1>8, <2>2 DEF Located, Position
    <3>3. Turn(a, c, d) = e * z - 0 * x
      BY <2>1, <3>1, <3>2 DEF Turn
    <3> QED
      BY <3>3
  <2>5. v * e < 0 /\ e * z > 0
    <3>1. PICK f \in Int : f = v * e
      OBVIOUS
    <3>2. -f > 0
      BY <2>3, <3>1
    <3> QED
      BY <2>4, <3>1, <3>2
  <2>6. (v > 0 /\ z <= 0) \/ (v <= 0 /\ z > 0)
    <3>1. CASE e > 0
      <4>1. ~(v > 0) /\ ~(z < 0) /\ ~(z = 0)
        BY <2>5, <3>1, Signs
      <4> QED
        BY <4>1
    <3>2. CASE e < 0
      <4>1. ~(v < 0) /\ ~(v = 0) /\ ~(z > 0)
        BY <2>5, <3>2, Signs
      <4> QED
        BY <4>1
    <3>3. CASE e = 0
      BY <2>5, <3>3, Signs
    <3> QED
      BY <3>1, <3>2, <3>3
  <2> QED
    BY <1>1, <1>2, <1>3, <1>4, <1>12, <1>13, <1>14, <1>16, <2>6 DEF Crossed
<1> QED
  BY <1>15, <1>16

-----------------------------------------------------------------------------
(* Every corner of a convex outline is left of, or on, every side. *)
LEMMA ConvexSides ==
    ASSUME NEW a \in Position, NEW b \in Position, NEW c \in Position, NEW d \in Position,
           Turn(a, b, c) > 0, Turn(b, c, d) > 0, Turn(c, d, a) > 0, Turn(d, a, b) > 0
    PROVE  /\ Turn(a, c, d) > 0
           /\ \A z \in {a, b, c, d} : /\ Turn(a, b, z) >= 0 /\ Turn(b, c, z) >= 0
                                     /\ Turn(c, d, z) >= 0 /\ Turn(d, a, z) >= 0
<1>1. \A z \in {a, b, c, d} : Located(z)
  BY DEF Located, Position
<1>2. /\ Turn(a, b, a) = 0 /\ Turn(a, b, b) = 0 /\ Turn(b, c, b) = 0 /\ Turn(b, c, c) = 0
      /\ Turn(c, d, c) = 0 /\ Turn(c, d, d) = 0 /\ Turn(d, a, d) = 0 /\ Turn(d, a, a) = 0
  BY <1>1, TurnLaws
<1>3. ASSUME NEW x \in Position, NEW y \in Position, NEW z \in Position
      PROVE  Turn(x, y, z) = Turn(y, z, x)
  <2>1. Located(x)
    BY DEF Located, Position
  <2> QED
    BY <2>1, TurnLaws
<1>4. /\ Turn(a, b, d) = Turn(d, a, b) /\ Turn(b, c, a) = Turn(a, b, c)
      /\ Turn(c, d, b) = Turn(b, c, d) /\ Turn(d, a, c) = Turn(c, d, a)
      /\ Turn(a, c, d) = Turn(c, d, a)
  BY <1>3
<1>5. \A x, y, z \in {a, b, c, d} : Turn(x, y, z) \in Int
  BY <1>1, TurnLaws, ZenonT(60)
<1> QED
  BY <1>2, <1>4, <1>5

(* The ray casting of a convex zone and of its two parts: a position left  *)
(* of every side is in the zone, one right of a side in none of the three. *)
LEMMA Convexity ==
    ASSUME NEW p, Located(p), outline \in [1..4 -> Point], Convex(outline)
    PROVE  /\ (\A t \in Sides(p) : t > 0) => PointInPolygon(p, Polygon("whole"))
           /\ (\E t \in Sides(p) : t < 0) => /\ ~PointInPolygon(p, Polygon("whole"))
                                           /\ ~PointInPolygon(p, Polygon("first"))
                                           /\ ~PointInPolygon(p, Polygon("second"))
<1>1. PICK a \in Position : a = outline[1]
  BY Outlines
<1>2. PICK b \in Position : b = outline[2]
  BY Outlines
<1>3. PICK c \in Position : c = outline[3]
  BY Outlines
<1>4. PICK d \in Position : d = outline[4]
  BY Outlines
<1>5. /\ Turn(a, b, c) > 0 /\ Turn(b, c, d) > 0 /\ Turn(c, d, a) > 0 /\ Turn(d, a, b) > 0
  BY <1>1, <1>2, <1>3, <1>4 DEF Convex
<1>6. /\ Turn(a, c, d) > 0
      /\ \A z \in {a, b, c, d} : /\ Turn(a, b, z) >= 0 /\ Turn(b, c, z) >= 0
                                /\ Turn(c, d, z) >= 0 /\ Turn(d, a, z) >= 0
  BY <1>5, ConvexSides
<1>7. Sides(p) = {Turn(a, b, p), Turn(b, c, p), Turn(c, d, p), Turn(d, a, p)}
  <2>1. /\ (1 % 4) + 1 = 2 /\ (2 % 4) + 1 = 3 /\ (3 % 4) + 1 = 4 /\ (4 % 4) + 1 = 1
    OBVIOUS
  <2>2. 1..4 = {1, 2, 3, 4}
    OBVIOUS
  <2>3. Sides(p) = {Turn(outline[i], outline[(i % 4) + 1], p) : i \in {1, 2, 3, 4}}
    BY <2>2, Zenon DEF Sides
  <2> QED
    BY <1>1, <1>2, <1>3, <1>4, <2>1, <2>3
<1>8. /\ PointInPolygon(p, Polygon("first")) <=> Cast(p, a, b, c)
      /\ PointInPolygon(p, Polygon("second")) <=> Cast(p, a, c, d)
  <2>1. Polygon("first") = <<a, b, c>> /\ Polygon("second") = <<a, c, d>>
    BY <1>1, <1>2, <1>3, <1>4, Outlines
  <2> QED
    BY <2>1, CastIs
<1>9. PointInPolygon(p, Polygon("whole")) <=> ~(Cast(p, a, b, c) <=> Cast(p, a, c, d))
  BY <1>8, Division
<1>10. ASSUME \A t \in Sides(p) : t > 0
       PROVE  ~(Cast(p, a, b, c) <=> Cast(p, a, c, d))
  <2>1. Turn(a, b, p) > 0 /\ Turn(b, c, p) > 0 /\ Turn(c, d, p) > 0 /\ Turn(d, a, p) > 0
    BY <1>7, <1>10
  <2>2. PICK t \in Int : t = Turn(a, c, p)
    BY TurnLaws
  <2>3. Turn(c, a, p) = -t
    BY <2>2, TurnLaws
  <2>4. CASE t > 0
    <3>1. Cast(p, a, c, d)
      BY <1>6, <2>1, <2>2, <2>4, Triangle
    <3>2. ~Cast(p, a, b, c)
      <4>1. ~(-t >= 0)
        BY <2>4
      <4> QED
        BY <1>5, <2>3, <4>1, Triangle
    <3> QED
      BY <3>1, <3>2
  <2>5. CASE t < 0
    <3>1. Cast(p, a, b, c)
      <4>1. -t > 0
        BY <2>5
      <4> QED
        BY <1>5, <2>1, <2>3, <4>1, Triangle
    <3>2. ~Cast(p, a, c, d)
      <4>1. ~(t >= 0)
        BY <2>5
      <4> QED
        BY <1>6, <2>2, <4>1, Triangle
    <3> QED
      BY <3>1, <3>2
  <2>6. CASE t = 0
    BY <1>5, <1>6, <2>1, <2>2, <2>6, OnDiagonal
  <2> QED
    BY <2>4, <2>5, <2>6
<1>11. ASSUME Cast(p, a, b, c) \/ Cast(p, a, c, d)
       PROVE  ~(\E t \in Sides(p) : t < 0)
  <2>1. \A q, r \in Position :
            /\ \A z \in {a, b, c, d} : Turn(q, r, z) >= 0
            => Turn(q, r, p) >= 0
    BY <1>5, <1>6, <1>11, LeftOf
  <2>2. Turn(a, b, p) >= 0 /\ Turn(b, c, p) >= 0 /\ Turn(c, d, p) >= 0 /\ Turn(d, a, p) >= 0
    BY <1>6, <2>1
  <2>3. /\ Turn(a, b, p) \in Int /\ Turn(b, c, p) \in Int
        /\ Turn(c, d, p) \in Int /\ Turn(d, a, p) \in Int
    BY TurnLaws
  <2> QED
    BY <1>7, <2>2, <2>3
<1> QED
  BY <1>8, <1>9, <1>10, <1>11

-----------------------------------------------------------------------------
(* The filters are about the scan and the zones as they are evaluated. *)
Filtered ==
    stage = "evaluate" => near = {z \in Zone : Meet(BoundingBox(Polygon(z)), scan)}

FenceInv ==
    /\ outline \in [1..4 -> Point] /\ Convex(outline)
    /\ scan \in Scan /\ target \in Targets(scan)
    /\ Filtered
    /\ ZonesTile

(* The filters drop no target that the ray casting accepts. *)
LEMMA NothingDropped ==
    ASSUME outline \in [1..4 -> Point], scan \in Scan, target \in Targets(scan),
           NEW z \in Zone, PointInPolygon(target, Polygon(z))
    PROVE  Holds(BoundingBox(Polygon(z)), target) /\ Meet(BoundingBox(Polygon(z)), scan)
<1>. DEFINE box == BoundingBox(Polygon(z))
<1>1. Polygon(z) \in Seq(Position) /\ Len(Polygon(z)) \in {3, 4}
  <2>1. \A i \in 1..4 : outline[i] \in Position  BY Outlines
  <2>2. CASE z = "whole"  BY <2>2, Outlines
  <2>3. \A a, b, c \in Position : <<a, b, c>> \in Seq(Position) /\ Len(<<a, b, c>>) = 3
    OBVIOUS
  <2>4. CASE z = "first"  BY <2>1, <2>4, <2>3, Outlines
  <2>5. CASE z = "second"
    <3>1. Polygon(z) = <<outline[1], outline[3], outline[4]>>  BY <2>5, Outlines
    <3> QED  BY <2>1, <2>3, <3>1
  <2> QED  BY <2>2, <2>4, <2>5 DEF Zone
<1>2. /\ {scan.south, scan.north, scan.west, scan.east} \subseteq Int
      /\ target.lat \in scan.south..scan.north /\ target.lon \in scan.west..scan.east
  BY GridAssumption DEF Targets
<1>3. Located(target)  BY <1>2 DEF Located
<1>4. {box.south, box.north, box.west, box.east} \subseteq Int  BY <1>1, BoxHolds
<1>5. Holds(box, target)
  <2>. DEFINE v == Polygon(z)
  <2>1. v \in Seq(Position) /\ Len(v) \in {3, 4} /\ PointInPolygon(target, v)  BY <1>1
  <2>. HIDE DEF v
  <2>2. Holds(BoundingBox(v), target)  BY <1>3, <2>1, InOwnBox
  <2> QED  BY <2>2 DEF v
<1>. HIDE DEF box
<1>6. Meet(box, scan)  BY <1>2, <1>4, <1>5 DEF Holds, Meet
<1> QED  BY <1>5, <1>6 DEF box

LEMMA FenceInvariant == FenceSpec => []FenceInv
<1>1. FenceInit => FenceInv
  BY DEF FenceInit, FenceInv, Filtered, ZonesTile, PartsAgree
<1>2. FenceInv /\ [FenceNext]_fenceVars => FenceInv'
  <2>1. SUFFICES ASSUME FenceInv, [FenceNext]_fenceVars  PROVE FenceInv'
    OBVIOUS
  <2>2. CASE UNCHANGED fenceVars
    BY <2>1, <2>2, ZenonT(60) DEF FenceInv, Filtered, ZonesTile, PartsAgree, Sides, fenceVars, Violations,
                      Targets, Polygon
  <2>3. CASE ZonesForBox
    BY <2>1, <2>3 DEF ZonesForBox, FenceInv, Filtered, ZonesTile, PartsAgree, Targets, Polygon
  <2>4. CASE EvaluateTarget
    <3>1. /\ outline' = outline /\ scan' = scan /\ target' = target /\ regime' = regime
          /\ stage = "evaluate" /\ stage' = "done"
      BY <2>4 DEF EvaluateTarget
    <3>2. Violations(target)' = Violations(target) /\ Sides(target)' = Sides(target)
      BY <3>1 DEF Violations, Sides
    <3>3. Located(target)
      BY <2>1, GridAssumption DEF FenceInv, Targets, Located
    <3>4. ASSUME NEW z \in Zone, NEW v \in Violations(target)
          PROVE  <<z, v>> \in breaches' <=> PointInPolygon(target, Polygon(z))
      <4>1. <<z, v>> \in breaches' <=> /\ z \in near
                                      /\ Holds(BoundingBox(Polygon(z)), target)
                                      /\ PointInPolygon(target, Polygon(z))
        BY <2>4 DEF EvaluateTarget
      <4>2. z \in near <=> Meet(BoundingBox(Polygon(z)), scan)
        BY <2>1, <3>1 DEF FenceInv, Filtered
      <4> QED  BY <2>1, <4>1, <4>2, NothingDropped DEF FenceInv
    <3>5. "whole" \in Zone /\ "first" \in Zone /\ "second" \in Zone  BY DEF Zone
    <3>6. PartsAgree'
      <4>1. SUFFICES ASSUME NEW v \in Violations(target)
                     PROVE  <<"whole", v>> \in breaches'
                                <=> ~(<<"first", v>> \in breaches' <=> <<"second", v>> \in breaches')
        BY <3>2 DEF PartsAgree
      <4> QED  BY <2>1, <3>3, <3>4, <3>5, Division DEF FenceInv
    <3>7. ZonesTile'
      <4>1. SUFFICES ASSUME NEW v \in Violations(target)
                     PROVE  /\ (\A t \in Sides(target) : t > 0) => <<"whole", v>> \in breaches'
                            /\ (\E t \in Sides(target) : t < 0) =>
                                   /\ <<"whole", v>> \notin breaches'
                                   /\ ~(<<"first", v>> \in breaches' /\ <<"second", v>> \in breaches')
        BY <3>2, <3>6 DEF ZonesTile
      <4> QED  BY <2>1, <3>3, <3>4, <3>5, Convexity DEF FenceInv
    <3> QED  BY <2>1, <3>1, <3>7 DEF FenceInv, Filtered, Targets
  <2> QED  BY <2>1, <2>2, <2>3, <2>4 DEF FenceNext
<1> QED  BY <1>1, <1>2, PTL DEF FenceSpec

(* Whatever the zone and the scan, a target in the zone is reported by      *)
(* exactly one of two neighbours that divide it, and a target outside by    *)
(* both or neither (application/use_cases/geofence_monitor.py:14-38).       *)
THEOREM PartsShareTargets == FenceSpec => []PartsAgree
<1>1. FenceInv => PartsAgree  BY DEF FenceInv, ZonesTile
<1> QED  BY <1>1, FenceInvariant, PTL

(* On any grid, what a target does is a breach if it is inside a convex     *)
(* zone and none if it is outside, and of two zones that divide it exactly  *)
(* one reports it (application/use_cases/geofence_monitor.py:14-38).        *)
THEOREM ZonesAlwaysTile == FenceSpec => []ZonesTile
<1>1. FenceInv => ZonesTile  BY DEF FenceInv
<1> QED  BY <1>1, FenceInvariant, PTL
=============================================================================
