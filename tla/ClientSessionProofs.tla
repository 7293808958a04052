------------------------ MODULE ClientSessionProofs ------------------------
(***************************************************************************)
(* The safety properties of ClientSession, and of the geometry of Compass, *)
(* for any map, any starting place and any number of disturbances.         *)
(***************************************************************************)
EXTENDS ClientSession, ListProofs

----------------------------------------------------------------------------
(* Going round the map *)

\* A step that is not longer than the side of the map goes round it once at most.
LEMMA WrapsOnce ==
  ASSUME NEW m \in Nat \ {0}, NEW x \in 0 .. m - 1, NEW s \in Int, -m <= s, s <= m
  PROVE  (x + s) % m = IF x + s < 0 THEN x + s + m ELSE IF x + s >= m THEN x + s - m ELSE x + s
<1>1. CASE x + s < 0
  <2>1. x + s = -1 * m + (x + s + m) /\ x + s + m \in 0 .. m - 1
    BY <1>1
  <2> QED
    BY <1>1, <2>1
<1>2. CASE x + s >= m
  <2>1. x + s = 1 * m + (x + s - m) /\ x + s - m \in 0 .. m - 1
    BY <1>2
  <2> QED
    BY <1>2, <2>1
<1>3. CASE x + s \in 0 .. m - 1
  BY <1>3
<1> QED
  BY <1>1, <1>2, <1>3

\* Two numbers whose difference is a multiple of m have the same remainder.
LEMMA SameRemainder ==
  ASSUME NEW m \in Nat \ {0}, NEW a \in Int, NEW b \in Int, NEW k \in Int, a = b + k * m
  PROVE  a % m = b % m
<1> DEFINE q == a \div m
           r == b \div m
           u == a % m
           v == b % m
           n == q - r - k
<1>1. q \in Int /\ r \in Int /\ u \in 0 .. m - 1 /\ v \in 0 .. m - 1
  OBVIOUS
<1>2. a = m * q + u /\ b = m * r + v
  OBVIOUS
<1> HIDE DEF q, r, u, v
<1>3. n \in Int
  BY <1>1
<1>4. v - u = m * q - m * r - k * m
  <2>1. u = a - m * q /\ v = b - m * r
    BY <1>1, <1>2
  <2> QED
    BY <1>1, <2>1
<1>5. m * q - m * r - k * m = m * n
  BY <1>1
<1> HIDE DEF n
<1>6. n = 0
  <2>1. n >= 1 => m * n >= m
    BY <1>3
  <2>2. n <= -1 => m * n <= -m
    BY <1>3
  <2> QED
    BY <1>1, <1>3, <1>4, <1>5, <2>1, <2>2
<1>7. u = v
  BY <1>1, <1>4, <1>5, <1>6
<1> QED
  BY <1>7 DEF u, v

\* Remainders of a sum: a part that goes round the map may do so before or after.
LEMMA RemainderOfSum ==
  ASSUME NEW m \in Nat \ {0}, NEW a \in Int, NEW b \in Int
  PROVE  /\ (a + (b % m)) % m = (a + b) % m
         /\ (a - (b % m)) % m = (a - b) % m
<1> DEFINE q == b \div m
           v == b % m
<1>1. q \in Int /\ v \in Int /\ b = m * q + v
  OBVIOUS
<1> HIDE DEF q, v
<1>2. m * q = q * m /\ m * q = -((-q) * m) /\ -q \in Int
  BY <1>1
<1>3. a + v = (a + b) + (-q) * m /\ a - v = (a - b) + q * m
  BY <1>1, <1>2
<1>4. ASSUME NEW x \in Int, NEW y \in Int, NEW k \in Int, x = y + k * m
      PROVE  x % m = y % m
  BY <1>4, SameRemainder
<1>5. /\ a + v \in Int /\ a - v \in Int /\ a + b \in Int /\ a - b \in Int
  BY <1>1
<1>6. (a + v) % m = (a + b) % m
  BY <1>2, <1>3, <1>4, <1>5, Zenon
<1>7. (a - v) % m = (a - b) % m
  BY <1>1, <1>3, <1>4, <1>5, Zenon
<1> QED
  BY <1>6, <1>7 DEF v

\* At leads from a tile of the map to a tile of the map.
LEMMA AtIsTile ==
  ASSUME NEW x \in Int, NEW y \in Int, NEW dx \in Int, NEW dy \in Int
  PROVE  At(<<x, y>>, dx, dy) \in Tiles
<1>1. (x + dx) % MapX \in 0 .. MapX - 1 /\ (y + dy) % MapY \in 0 .. MapY - 1
  BY MapAssumption
<1> QED
  BY <1>1 DEF At, Tiles

LEMMA FacingIsTile ==
  ASSUME NEW t \in Tiles, NEW d \in Directions
  PROVE  Facing(t, d) \in Tiles
<1>1. t = <<t[1], t[2]>> /\ t[1] \in Int /\ t[2] \in Int
  BY DEF Tiles
<1>2. /\ At(t, 0, -1) \in Tiles /\ At(t, 1, 0) \in Tiles
      /\ At(t, 0, 1) \in Tiles /\ At(t, -1, 0) \in Tiles
  BY <1>1, AtIsTile, SMTT(30)
<1> QED
  BY <1>2 DEF Facing, Directions

----------------------------------------------------------------------------
(* The view *)

\* Every index of a view is in a row, at most as far to the side as the row is ahead.
LEMMA RowAndSide ==
  ASSUME NEW idx \in Nat
  PROVE  /\ Row(idx) \in Nat /\ Side(idx) \in Int
         /\ Row(idx) * Row(idx) <= idx /\ idx < (Row(idx) + 1) * (Row(idx) + 1)
         /\ -Row(idx) <= Side(idx) /\ Side(idx) <= Row(idx)
         /\ Row(idx) <= idx
<1> DEFINE S == {d \in Nat : idx < (d + 1) * (d + 1)}
           m == Min(S)
<1>1. idx \in S
  BY SMT
<1>2. m \in S /\ \A d \in S : m <= d
  <2> HIDE DEF S
  <2>1. S \subseteq Nat
    BY DEF S
  <2> QED
    BY <1>1, <2>1, MinIsLowest
<1> HIDE DEF m
<1>3. m \in Nat /\ idx < (m + 1) * (m + 1)
  BY <1>2
<1>4. m * m <= idx
  <2>1. CASE m = 0
    BY <2>1
  <2>2. CASE m > 0
    <3>1. m - 1 \in Nat /\ m - 1 \notin S
      BY <1>2, <1>3, <2>2
    <3>2. ((m - 1) + 1) * ((m - 1) + 1) <= idx
      BY <3>1
    <3> QED
      BY <1>3, <3>2
  <2> QED
    BY <1>3, <2>1, <2>2
<1>5. m <= m * m
  BY <1>3
<1>6. m \in 0 .. idx
  BY <1>3, <1>4, <1>5
<1>7. \E d \in 0 .. idx : d * d <= idx /\ idx < (d + 1) * (d + 1)
  BY <1>3, <1>4, <1>6
<1> DEFINE r == Row(idx)
<1>8. r \in 0 .. idx /\ r * r <= idx /\ idx < (r + 1) * (r + 1)
  BY <1>7 DEF Row
<1> HIDE DEF r
<1>9. (r + 1) * (r + 1) = r * r + 2 * r + 1 /\ r * r \in Int
  BY <1>8
<1>10. idx - r * r - r \in Int /\ -r <= idx - r * r - r /\ idx - r * r - r <= r
  BY <1>8, <1>9
<1> QED
  BY <1>8, <1>10 DEF r, Side

\* A view of a level has as many rows as the level says, and only its first tile is its own.
LEMMA RowOfLevel ==
  ASSUME NEW reach \in Nat, NEW idx \in 1 .. (reach + 1) * (reach + 1) - 1
  PROVE  Row(idx) >= 1 /\ Row(idx) <= reach
<1> DEFINE r == Row(idx)
<1>1. idx \in Nat /\ idx >= 1 /\ idx < (reach + 1) * (reach + 1)
  <2>1. (reach + 1) * (reach + 1) \in Int
    OBVIOUS
  <2> QED
    BY <2>1
<1>2. r \in Nat /\ r * r <= idx /\ idx < (r + 1) * (r + 1)
  BY <1>1, RowAndSide
<1> HIDE DEF r
<1>3. r >= 1
  BY <1>1, <1>2
<1>4. ASSUME r >= reach + 1 PROVE FALSE
  <2>1. r * r >= (reach + 1) * (reach + 1)
    BY <1>2, <1>4
  <2> QED
    BY <1>1, <1>2, <2>1
<1> QED
  BY <1>2, <1>3, <1>4 DEF r

----------------------------------------------------------------------------
(* Hearing *)

\* The shorter way to a tile that is less than half the map away is the way it was reached.
LEMMA ShorterWay ==
  ASSUME NEW m \in Nat \ {0}, NEW x \in 0 .. m - 1, NEW s \in Int, 2 * s < m, 2 * (-s) < m
  PROVE  minimal_delta(((x + s) % m) - x, m) = s
<1> DEFINE h == m \div 2
<1>1. h \in Nat /\ 2 * h <= m /\ m <= 2 * h + 1
  OBVIOUS
<1>2. (x + s) % m = IF x + s < 0 THEN x + s + m ELSE IF x + s >= m THEN x + s - m ELSE x + s
  <2>1. -m <= s /\ s <= m
    OBVIOUS
  <2> QED
    BY <2>1, WrapsOnce
<1> DEFINE d == ((x + s) % m) - x
<1>3. d = s \/ (d = s + m) \/ (d = s - m)
  BY <1>2
<1>4. minimal_delta(d, m) = IF d > h THEN d - m ELSE IF d < -h THEN d + m ELSE d
  BY DEF minimal_delta
<1> HIDE DEF h, d
<1> QED
  BY <1>1, <1>3, <1>4 DEF d

\* A tile in sight is heard from where it is seen.
LEMMA HeardWhereSeen ==
  ASSUME NEW t \in Tiles, NEW s \in Int, NEW r \in Nat \ {0},
         -r <= s, s <= r, 2 * r < MapX, 2 * r < MapY
  PROVE  /\ compute_broadcast_direction(t, 0, At(t, s, -r)) = Octant(s, r)
         /\ compute_broadcast_direction(t, 1, At(t, r, s)) = Octant(s, r)
         /\ compute_broadcast_direction(t, 2, At(t, -s, r)) = Octant(s, r)
         /\ compute_broadcast_direction(t, 3, At(t, -r, -s)) = Octant(s, r)
<1>1. t[1] \in 0 .. MapX - 1 /\ t[2] \in 0 .. MapY - 1
  BY DEF Tiles
<1>2. MapX \in Nat \ {0} /\ MapY \in Nat \ {0}
  BY MapAssumption
<1> DEFINE Dx(n) == minimal_delta(((t[1] + n) % MapX) - t[1], MapX)
           Dy(n) == minimal_delta(((t[2] + n) % MapY) - t[2], MapY)
<1>3. ASSUME NEW n \in Int, -r <= n, n <= r PROVE Dx(n) = n /\ Dy(n) = n
  <2>1. 2 * n < MapX /\ 2 * (-n) < MapX /\ 2 * n < MapY /\ 2 * (-n) < MapY
    BY <1>2, <1>3
  <2>2. Dx(n) = n
    BY <1>1, <1>2, <1>3, <2>1, ShorterWay
  <2>3. Dy(n) = n
    BY <1>1, <1>2, <1>3, <2>1, ShorterWay
  <2> QED
    BY <2>2, <2>3
<1>4. /\ Dx(s) = s /\ Dx(-s) = -s /\ Dx(r) = r /\ Dx(-r) = -r
      /\ Dy(s) = s /\ Dy(-s) = -s /\ Dy(r) = r /\ Dy(-r) = -r
  <2>1. /\ -s \in Int /\ -r <= -s /\ -s <= r /\ r \in Int /\ -r \in Int
        /\ -r <= r /\ -r <= -r /\ r <= r
    OBVIOUS
  <2> HIDE DEF Dx, Dy
  <2> QED
    BY <1>3, <2>1, Zenon
<1>5. compute_broadcast_direction(t, 0, At(t, s, -r)) = Octant(s, r)
  <2> DEFINE far == At(t, s, -r)
  <2>1. far[1] = (t[1] + s) % MapX /\ far[2] = (t[2] + (-r)) % MapY
    BY DEF At
  <2> HIDE DEF far
  <2>2. minimal_delta(far[1] - t[1], MapX) = s /\ minimal_delta(far[2] - t[2], MapY) = -r
    BY <1>4, <2>1
  <2>3. compute_broadcast_direction(t, 0, far) = Octant(s, r)
    BY <2>2 DEF compute_broadcast_direction
  <2> QED
    BY <2>3 DEF far
<1>6. compute_broadcast_direction(t, 1, At(t, r, s)) = Octant(s, r)
  <2> DEFINE far == At(t, r, s)
  <2>1. far[1] = (t[1] + r) % MapX /\ far[2] = (t[2] + s) % MapY
    BY DEF At
  <2> HIDE DEF far
  <2>2. minimal_delta(far[1] - t[1], MapX) = r /\ minimal_delta(far[2] - t[2], MapY) = s
    BY <1>4, <2>1
  <2>3. compute_broadcast_direction(t, 1, far) = Octant(s, r)
    BY <2>2 DEF compute_broadcast_direction
  <2> QED
    BY <2>3 DEF far
<1>7. compute_broadcast_direction(t, 2, At(t, -s, r)) = Octant(s, r)
  <2> DEFINE far == At(t, -s, r)
  <2>1. far[1] = (t[1] + (-s)) % MapX /\ far[2] = (t[2] + r) % MapY
    BY DEF At
  <2> HIDE DEF far
  <2>2. minimal_delta(far[1] - t[1], MapX) = -s /\ minimal_delta(far[2] - t[2], MapY) = r
    BY <1>4, <2>1
  <2>3. compute_broadcast_direction(t, 2, far) = Octant(s, r)
    BY <2>2 DEF compute_broadcast_direction
  <2> QED
    BY <2>3 DEF far
<1>8. compute_broadcast_direction(t, 3, At(t, -r, -s)) = Octant(s, r)
  <2> DEFINE far == At(t, -r, -s)
  <2>1. far[1] = (t[1] + (-r)) % MapX /\ far[2] = (t[2] + (-s)) % MapY
    BY DEF At
  <2> HIDE DEF far
  <2>2. minimal_delta(far[1] - t[1], MapX) = -r /\ minimal_delta(far[2] - t[2], MapY) = -s
    BY <1>4, <2>1
  <2>3. compute_broadcast_direction(t, 3, far) = Octant(s, r)
    BY <2>2 DEF compute_broadcast_direction
  <2> QED
    BY <2>3 DEF far
<1> QED
  BY <1>5, <1>6, <1>7, <1>8

\* What is not further to the side than ahead is heard from ahead, or half to the side.
LEMMA AheadOctant ==
  ASSUME NEW s \in Int, NEW r \in Nat \ {0}, -r <= s, s <= r
  PROVE  Octant(s, r) = IF Within(s, r) THEN 1 ELSE IF s < 0 THEN 2 ELSE 8
<1> DEFINE a == Abs(s)
<1>1. a \in Nat /\ a <= r /\ a * a = s * s /\ Abs(r) = r
  BY DEF Abs
<1>2. ~Within(r, s)
  <2> HIDE DEF a
  <2>1. (r + a) * (r + a) >= (a + a) * (a + a)
    BY <1>1
  <2>2. (a + a) * (a + a) >= 2 * a * a
    BY <1>1
  <2>3. 2 * s * s = 2 * a * a
    BY <1>1
  <2>4. (r + a) * (r + a) \in Int /\ 2 * s * s \in Int
    BY <1>1
  <2> QED
    BY <1>1, <2>1, <2>2, <2>3, <2>4 DEF Within, a
<1> QED
  BY <1>2 DEF Octant

(***************************************************************************)
(* The octants of a listener that turns to the right: what was to its      *)
(* right is ahead, and what was ahead is to its left.                      *)
(***************************************************************************)
LEMMA OctantTurns ==
  ASSUME NEW a \in Int, NEW b \in Int, a # 0 \/ b # 0
  PROVE  /\ Octant(a, b) \in 1 .. 8
         /\ Octant(-b, a) = ((Octant(a, b) + 1) % 8) + 1
<1> DEFINE u == Abs(a)
           v == Abs(b)
<1>1. u \in Nat /\ v \in Nat /\ u * u = a * a /\ v * v = b * b /\ Abs(-b) = v
      /\ (u = 0 <=> a = 0) /\ (v = 0 <=> b = 0)
  BY DEF Abs
<1> DEFINE W == (u + v) * (u + v) < 2 * v * v
           Z == (u + v) * (u + v) < 2 * u * u
<1>2. /\ Within(a, b) <=> W
      /\ Within(b, a) <=> Z
      /\ Within(-b, a) <=> Z
      /\ Within(a, -b) <=> W
  <2>1. 2 * b * b = 2 * v * v /\ 2 * a * a = 2 * u * u /\ 2 * (-b) * (-b) = 2 * v * v
    <3> HIDE DEF u, v
    <3> QED
      BY <1>1
  <2>2. (u + v) * (u + v) = (v + u) * (v + u)
    <3> HIDE DEF u, v
    <3> QED
      BY <1>1
  <2> HIDE DEF u, v
  <2> QED
    BY <1>1, <2>1, <2>2 DEF Within, u, v
<1>3. ~(W /\ Z) /\ (a = 0 => W) /\ (b = 0 => Z)
  <2> HIDE DEF u, v
  <2>1. (u + v) * (u + v) >= u * u + v * v
    BY <1>1
  <2>2. ~(W /\ Z)
    BY <1>1, <2>1
  <2>3. ASSUME NEW n \in Nat \ {0} PROVE (0 + n) * (0 + n) < 2 * n * n /\ (n + 0) * (n + 0) < 2 * n * n
    BY <2>3
  <2>4. a = 0 => W
    BY <1>1, <2>3
  <2>5. b = 0 => Z
    BY <1>1, <2>3
  <2> QED
    BY <2>2, <2>4, <2>5
<1> HIDE DEF W, Z
<1> QED
  BY <1>2, <1>3 DEF Octant

\* A listener that turns to the right.
LEMMA SoundTurnsRight ==
  ASSUME NEW p \in Tiles, NEW t \in Tiles, NEW d \in Directions
  PROVE  /\ compute_broadcast_direction(p, d, t) \in 0 .. 8
         /\ compute_broadcast_direction(p, (d + 1) % 4, t) =
               TurnedSound(compute_broadcast_direction(p, d, t), 1)
<1> DEFINE dx == minimal_delta(t[1] - p[1], MapX)
           dy == minimal_delta(t[2] - p[2], MapY)
           Way(e) == CASE e = 0 -> Octant(dx, -dy)
                       [] e = 1 -> Octant(dy, dx)
                       [] e = 2 -> Octant(-dx, dy)
                       [] e = 3 -> Octant(-dy, -dx)
<1>1. dx \in Int /\ dy \in Int
  <2>1. /\ t[1] \in Int /\ p[1] \in Int /\ t[2] \in Int /\ p[2] \in Int
        /\ MapX \in Int /\ MapY \in Int
    BY MapAssumption DEF Tiles
  <2>2. ASSUME NEW n \in Int, NEW m \in Int PROVE minimal_delta(n, m) \in Int
    BY DEF minimal_delta
  <2>3. t[1] - p[1] \in Int /\ t[2] - p[2] \in Int
    BY <2>1
  <2> QED
    BY <2>1, <2>2, <2>3, Zenon
<1>2. \A e \in Directions :
         compute_broadcast_direction(p, e, t) = IF dx = 0 /\ dy = 0 THEN 0 ELSE Way(e)
  BY DEF compute_broadcast_direction
<1> HIDE DEF dx, dy
<1>3. ASSUME dx # 0 \/ dy # 0
      PROVE  Way(d) \in 1 .. 8 /\ Way((d + 1) % 4) = ((Way(d) + 1) % 8) + 1
  <2>0. dx = -(-dx) /\ dy = -(-dy) /\ -dx \in Int /\ -dy \in Int
        /\ (-dx # 0 \/ -dy # 0) /\ (dx # 0 \/ -dy # 0) /\ (-dx # 0 \/ dy # 0) /\ (dy # 0 \/ dx # 0)
    BY <1>1, <1>3
  <2>1. /\ Octant(dx, -dy) \in 1 .. 8
        /\ Octant(dy, dx) = ((Octant(dx, -dy) + 1) % 8) + 1
    BY <1>1, <2>0, OctantTurns
  <2>2. /\ Octant(dy, dx) \in 1 .. 8
        /\ Octant(-dx, dy) = ((Octant(dy, dx) + 1) % 8) + 1
    BY <1>1, <2>0, OctantTurns
  <2>3. /\ Octant(-dx, dy) \in 1 .. 8
        /\ Octant(-dy, -dx) = ((Octant(-dx, dy) + 1) % 8) + 1
    BY <1>1, <2>0, OctantTurns
  <2>4. /\ Octant(-dy, -dx) \in 1 .. 8
        /\ Octant(dx, -dy) = ((Octant(-dy, -dx) + 1) % 8) + 1
    BY <1>1, <2>0, OctantTurns
  <2>5. d = 0 \/ d = 1 \/ d = 2 \/ d = 3
    BY DEF Directions
  <2>6. CASE d = 0
    <3>1. (d + 1) % 4 = 1
      BY <2>6
    <3> QED
      BY <2>1, <2>6, <3>1
  <2>7. CASE d = 1
    <3>1. (d + 1) % 4 = 2
      BY <2>7
    <3> QED
      BY <2>2, <2>7, <3>1
  <2>8. CASE d = 2
    <3>1. (d + 1) % 4 = 3
      BY <2>8
    <3> QED
      BY <2>3, <2>8, <3>1
  <2>9. CASE d = 3
    <3>1. (d + 1) % 4 = 0
      BY <2>9
    <3> QED
      BY <2>4, <2>9, <3>1
  <2> QED
    BY <2>5, <2>6, <2>7, <2>8, <2>9
<1>4. (d + 1) % 4 \in Directions
  BY DEF Directions
<1> HIDE DEF Way
<1>5. CASE dx = 0 /\ dy = 0
  BY <1>2, <1>4, <1>5 DEF TurnedSound
<1>6. CASE dx # 0 \/ dy # 0
  <2>1. /\ compute_broadcast_direction(p, d, t) = Way(d)
        /\ compute_broadcast_direction(p, (d + 1) % 4, t) = Way((d + 1) % 4)
    BY <1>2, <1>4, <1>6
  <2>2. Way(d) # 0 /\ TurnedSound(Way(d), 1) = ((Way(d) + 1) % 8) + 1
    BY <1>3, <1>6 DEF TurnedSound
  <2> QED
    BY <1>3, <1>6, <2>1, <2>2
<1> QED
  BY <1>5, <1>6

\* Turns add up.
LEMMA TurnsAddUp ==
  ASSUME NEW k \in 0 .. 8, NEW q \in Nat
  PROVE  /\ TurnedSound(k, q) \in 0 .. 8
         /\ TurnedSound(TurnedSound(k, q), 1) = TurnedSound(k, q + 1)
<1>1. CASE k = 0
  BY <1>1 DEF TurnedSound
<1>2. CASE k # 0
  <2> DEFINE n == (k - 1 + 2 * q) % 8
  <2>1. n \in 0 .. 7 /\ TurnedSound(k, q) = n + 1
    BY <1>2 DEF TurnedSound
  <2>2. TurnedSound(n + 1, 1) = ((n + 2) % 8) + 1
    BY <2>1 DEF TurnedSound
  <2>3. (n + 2) % 8 = (k - 1 + 2 * (q + 1)) % 8
    BY <1>2
  <2> QED
    BY <1>2, <2>1, <2>2, <2>3 DEF TurnedSound
<1> QED
  BY <1>1, <1>2

\* Any turn of a listener.
LEMMA SoundFollows ==
  ASSUME NEW p \in Tiles, NEW t \in Tiles, NEW d \in Directions, NEW e \in Directions
  PROVE  compute_broadcast_direction(p, e, t) =
            TurnedSound(compute_broadcast_direction(p, d, t), (e - d) % 4)
<1> DEFINE f(i) == compute_broadcast_direction(p, (d + i) % 4, t)
<1>1. ASSUME NEW i \in Nat
      PROVE  f(i) \in 0 .. 8 /\ f(i + 1) = TurnedSound(f(i), 1)
  <2>1. (d + i) % 4 \in Directions /\ (((d + i) % 4) + 1) % 4 = (d + (i + 1)) % 4
    BY DEF Directions
  <2> QED
    BY <2>1, SoundTurnsRight
<1>2. (d + 0) % 4 = d
  BY DEF Directions
<1>3. f(0) = compute_broadcast_direction(p, d, t)
  BY <1>2
<1> HIDE DEF f
<1>4. f(0) \in 0 .. 8 /\ f(0) = TurnedSound(f(0), 0)
  BY <1>1 DEF TurnedSound
<1>5. f(1) = TurnedSound(f(0), 1)
  BY <1>1
<1>6. f(2) = TurnedSound(f(0), 2)
  BY <1>1, <1>4, <1>5, TurnsAddUp
<1>7. f(3) = TurnedSound(f(0), 3)
  BY <1>1, <1>4, <1>6, TurnsAddUp
<1> DEFINE q == (e - d) % 4
<1>8. q \in 0 .. 3 /\ (d + q) % 4 = e
  BY DEF Directions
<1>9. q = 0 \/ q = 1 \/ q = 2 \/ q = 3
  BY <1>8
<1> HIDE DEF q
<1>10. f(q) = TurnedSound(f(0), q)
  BY <1>4, <1>5, <1>6, <1>7, <1>9
<1> QED
  BY <1>3, <1>8, <1>10 DEF f, q

----------------------------------------------------------------------------
(* What the client decides *)

\* A list is known by its elements.
LEMMA ListOfTwo == ASSUME NEW S, NEW s \in Seq(S), Len(s) = 2 PROVE s = <<s[1], s[2]>>
OBVIOUS

LEMMA ListOfFour ==
  ASSUME NEW S, NEW s \in Seq(S), Len(s) = 4
  PROVE  s = <<s[1], s[2], s[3], s[4]>>
OBVIOUS

LEMMA ShortPlans ==
  ASSUME NEW a, NEW b, NEW c, NEW d
  PROVE  /\ Append(<<a>> \o <<>> \o <<>>, b) = <<a, b>>
         /\ Append(<<a>> \o <<b>> \o <<c>>, d) = <<a, b, c, d>>
<1> DEFINE s == Append(<<a>> \o <<>> \o <<>>, b)
           u == Append(<<a>> \o <<b>> \o <<c>>, d)
<1>1. s \in Seq({a, b}) /\ Len(s) = 2 /\ s[1] = a /\ s[2] = b
  OBVIOUS
<1>2. /\ u \in Seq({a, b, c, d}) /\ Len(u) = 4
      /\ u[1] = a /\ u[2] = b /\ u[3] = c /\ u[4] = d
  OBVIOUS
<1> HIDE DEF s, u
<1>3. s = <<s[1], s[2]>>
  BY <1>1, ListOfTwo
<1>4. u = <<u[1], u[2], u[3], u[4]>>
  BY <1>2, ListOfFour
<1> QED
  BY <1>1, <1>2, <1>3, <1>4 DEF s, u

\* The way to the four tiles that a client of level 1 sees.
LEMMA PlanOfTile ==
  ASSUME NEW t \in Targets
  PROVE  \/ t = 0 /\ addMovesToTile(t) = <<"prend">>
         \/ t = 1 /\ addMovesToTile(t) = <<"avance", "gauche", "avance", "prend">>
         \/ t = 2 /\ addMovesToTile(t) = <<"avance", "prend">>
         \/ t = 3 /\ addMovesToTile(t) = <<"avance", "droite", "avance", "prend">>
<1>1. t \in 0 .. 3
  BY ClientSessionAssumption DEF Seen, Level
<1>2. CASE t = 0
  BY <1>2 DEF getMovesToTile, addMovesToTile
<1>3. CASE t \in 1 .. 3
  <2>1. LoopLevel(t) = 1
    <3>1. 1 \in 1 .. t /\ 2 * 1 + 1 >= t /\ \A k \in 1 .. 1 - 1 : 2 * k + 1 < t
      BY <1>3
    <3>2. ASSUME NEW l \in 1 .. t, \A k \in 1 .. l - 1 : 2 * k + 1 < t PROVE l = 1
      <4>1. l # 1 => 1 \in 1 .. l - 1
        BY <1>3
      <4>2. ~(2 * 1 + 1 < t)
        BY <1>3
      <4> QED
        BY <3>2, <4>1, <4>2
    <3> QED
      BY <3>1, <3>2 DEF LoopLevel
  <2>2. Repeat("avance", 1) = <<"avance">> /\ Repeat("avance", 0) = <<>>
    BY DEF Repeat
  <2> DEFINE offset == t - (1 * 1 + 1)
             turn == IF offset < 0 THEN <<"gauche">> ELSE IF offset > 0 THEN <<"droite">> ELSE <<>>
             plan == Append(Repeat("avance", 1) \o turn \o Repeat("avance", Abs(offset)), "prend")
  <2>3. addMovesToTile(t) = plan
    <3>1. ~(t <= 0)
      BY <1>3
    <3> QED
      BY <2>1, <3>1, Zenon DEF addMovesToTile, getMovesToTile
  <2>4. offset = t - 2
    BY <1>3
  <2> HIDE DEF offset
  <2>5. CASE t = 2
    <3>1. offset = 0 /\ Abs(offset) = 0 /\ turn = <<>>
      BY <2>4, <2>5 DEF Abs
    <3>2. plan = Append(<<"avance">> \o <<>> \o <<>>, "prend")
      BY <2>2, <3>1, Zenon
    <3> QED
      BY <2>3, <2>5, <3>2, ShortPlans, Zenon
  <2>6. CASE t # 2
    <3> DEFINE way == IF t = 1 THEN "gauche" ELSE "droite"
    <3>1. Abs(offset) = 1 /\ turn = <<way>> /\ way \in Requests
      BY <1>3, <2>4, <2>6 DEF Abs, Requests, Moves
    <3> HIDE DEF way
    <3>2. plan = Append(<<"avance">> \o <<way>> \o <<"avance">>, "prend")
      BY <2>2, <3>1, Zenon
    <3>3. plan = <<"avance", way, "avance", "prend">>
      BY <3>2, ShortPlans, Zenon
    <3> QED
      BY <1>3, <2>3, <2>6, <3>3 DEF way
  <2> QED
    BY <2>5, <2>6
<1> QED
  BY <1>1, <1>2, <1>3

----------------------------------------------------------------------------
(* Types *)

Replies == Requests \cup Notes \cup {"bienvenue", "welcome", "error"}

Messages == [cmd : Replies, pos : Tiles, dir : Directions, level : 0 .. 7]

LEMMA Constants ==
  /\ MAX_EVENTS \in Nat \ {0} /\ MaxPending \in Nat \ {0, 1}
  /\ Rules \in Nat \ {0} /\ MaxNotes \in Nat
  /\ <<0, 0>> \in Tiles /\ 0 \in Directions
  /\ \A c \in Replies : Message(c) \in Messages
<1>1. <<0, 0>> \in Tiles /\ 0 \in Directions
  BY MapAssumption DEF Tiles, Directions
<1> QED
  BY <1>1, ClientSessionAssumption DEF Message, Messages

\* The tiles of a view are tiles of the map.
LEMMA VisionIsTile ==
  ASSUME NEW t \in Tiles, NEW d \in Directions, NEW idx \in Nat
  PROVE  VisionTile(t, d, idx) \in Tiles
<1> DEFINE r == Row(idx)
           s == Side(idx)
<1>1. r \in Int /\ s \in Int /\ -r \in Int /\ -s \in Int
  BY RowAndSide
<1>2. t = <<t[1], t[2]>> /\ t[1] \in Int /\ t[2] \in Int
  BY DEF Tiles
<1> HIDE DEF r, s
<1>3. At(t, s, -r) \in Tiles /\ At(t, r, s) \in Tiles /\ At(t, -s, r) \in Tiles /\ At(t, -r, -s) \in Tiles
  BY <1>1, <1>2, AtIsTile
<1> QED
  BY <1>3 DEF VisionTile, Directions, r, s

\* The plans of a client consist of commands.
LEMMA RandomPlan == \A m \in Moves : addRandomMove(m) \in Seq(Requests)
<1> TAKE m \in Moves
<1>1. m \in Requests /\ "voir" \in Requests
  BY DEF Requests
<1> QED
  BY <1>1 DEF addRandomMove
LEMMA PlansAreCommands == Plans \subseteq Seq(Requests)
<1> SUFFICES ASSUME NEW plan \in Plans PROVE plan \in Seq(Requests)
  OBVIOUS
<1>1. CASE \E t \in Targets : plan = addMovesToTile(t)
  <2>1. /\ <<"prend">> \in Seq(Requests)
        /\ <<"avance", "gauche", "avance", "prend">> \in Seq(Requests)
        /\ <<"avance", "prend">> \in Seq(Requests)
        /\ <<"avance", "droite", "avance", "prend">> \in Seq(Requests)
    BY DEF Requests, Moves
  <2> QED
    BY <1>1, <2>1, PlanOfTile, Zenon
<1>2. CASE \E m \in Moves : plan = addRandomMove(m)
  BY <1>2, RandomPlan, Zenon
<1>3. CASE plan = <<"inventaire">>
  BY <1>3 DEF Requests
<1> QED
  BY <1>1, <1>2, <1>3 DEF Plans

(***************************************************************************)
(* Sends takes the first n commands of the queue, all of them unless the   *)
(* client then waits for MaxPending answers.                               *)
(***************************************************************************)
Takes(queue, waiting, n) ==
    /\ n \in 0 .. Len(queue)
    /\ up' = up \o SubSeq(queue, 1, n)
    /\ pending' = waiting + n
    /\ commands' = SubSeq(queue, n + 1, Len(queue))
    /\ n = Len(queue) \/ pending' >= MaxPending
    /\ waiting <= MaxPending => pending' <= MaxPending

LEMMA SendsTakes ==
  ASSUME NEW queue \in Seq(Requests), NEW waiting \in Int, Sends(queue, waiting)
  PROVE  \E n \in Nat : Takes(queue, waiting, n)
<1> DEFINE room == IF waiting < MaxPending THEN MaxPending - waiting ELSE 0
           n == IF room < Len(queue) THEN room ELSE Len(queue)
<1>1. room \in Nat /\ Len(queue) \in Nat
  BY Constants
<1>2. n \in 0 .. Len(queue) /\ n \in Nat
  BY <1>1
<1>3. /\ up' = up \o SubSeq(queue, 1, n)
      /\ pending' = waiting + n
      /\ commands' = SubSeq(queue, n + 1, Len(queue))
  BY DEF Sends
<1>4. n = Len(queue) \/ waiting + n >= MaxPending
  BY <1>1, Constants
<1>5. waiting <= MaxPending => waiting + n <= MaxPending
  BY <1>1, Constants
<1> HIDE DEF n
<1> QED
  BY <1>2, <1>3, <1>4, <1>5 DEF Takes

LEMMA TakesTypes ==
  ASSUME NEW queue \in Seq(Requests), NEW waiting \in Int, NEW n \in Nat, Takes(queue, waiting, n),
         up \in Seq(Requests \cup {"login"})
  PROVE  up' \in Seq(Requests \cup {"login"}) /\ commands' \in Seq(Requests) /\ pending' \in Int
<1>1. n \in 0 .. Len(queue) /\ Len(queue) \in Nat /\ \A i \in 1 .. Len(queue) : queue[i] \in Requests
  BY DEF Takes
<1>2. SubSeq(queue, 1, n) \in Seq(Requests) /\ SubSeq(queue, n + 1, Len(queue)) \in Seq(Requests)
  BY <1>1
<1> QED
  BY <1>1, <1>2 DEF Takes

\* The client keeps its types when it sends what it has decided on.
LEMMA SendsTypes ==
  ASSUME TypeOK, NEW plan \in Seq(Requests), NEW waiting \in Int, Sends(commands \o plan, waiting)
  PROVE  up' \in Seq(Requests \cup {"login"}) /\ commands' \in Seq(Requests) /\ pending' \in Int
<1>1. commands \o plan \in Seq(Requests) /\ up \in Seq(Requests \cup {"login"})
  BY DEF TypeOK
<1> QED
  BY <1>1, SendsTakes, TakesTypes

LEMMA ReceivesTypes ==
  ASSUME TypeOK, NEW cmds, Receives(cmds)
  PROVE  /\ down' \in Seq(Messages) /\ Head(down) \in Messages
         /\ joined' \in {"no", "alive", "dead", "refused"}
         /\ pos' \in Tiles /\ dir' \in Directions /\ level' \in 1 .. 7
         /\ requests' \in Seq(Requests)
         /\ start' \in Starts /\ notes' \in 0 .. MaxNotes
         /\ kicked' \in BOOLEAN /\ dropped' \in BOOLEAN
<1>1. down \in Seq(Messages)
  BY DEF TypeOK, Messages, Replies
<1>2. down' \in Seq(Messages) /\ Head(down) \in Messages
  BY <1>1 DEF Receives
<1> QED
  BY <1>2 DEF TypeOK, Receives, player, place

LEMMA AnswerTypes ==
  ASSUME TypeOK, NEW cmds, Receives(cmds), Answered,
         cpos' \in Tiles, cdir' \in Directions, checked' \in BOOLEAN
  PROVE  TypeOK'
<1>1. /\ {addRandomMove(m) : m \in Moves} \subseteq Seq(Requests)
      /\ {<<>>} \subseteq Seq(Requests)
  BY RandomPlan
<1>2. PICK next \in Seq(Requests) : Sends(commands \o next, pending - 1)
  <2>1. PICK next \in IF pending - 1 = 0 THEN {addRandomMove(m) : m \in Moves} ELSE {<<>>} :
           Sends(commands \o next, pending - 1)
    BY DEF Answered
  <2>2. next \in Seq(Requests)
    BY <1>1, <2>1, Zenon
  <2> QED
    BY <2>1, <2>2
<1>3. up' \in Seq(Requests \cup {"login"}) /\ commands' \in Seq(Requests) /\ pending' \in Int
  BY <1>2, SendsTypes DEF TypeOK
<1>4. open' \in BOOLEAN /\ debugLevel' \in 1 .. Rules + 1 /\ goal' \in Tiles
  BY DEF Answered, TypeOK
<1> QED
  BY <1>3, <1>4, ReceivesTypes DEF TypeOK, Messages, Replies

LEMMA InitTypes == Init => TypeOK
<1> SUFFICES ASSUME Init PROVE TypeOK
  OBVIOUS
<1>1. start[1] \in Tiles /\ start[2] \in Directions
  BY ClientSessionAssumption DEF Init
<1>2. down \in Seq(Messages)
  BY Constants DEF Init, Replies
<1>3. start \in Starts /\ pos \in Tiles /\ dir \in Directions /\ level \in 1 .. 7
  BY <1>1 DEF Init
<1>4. /\ up \in Seq(Requests \cup {"login"}) /\ requests \in Seq(Requests)
      /\ commands \in Seq(Requests)
  BY DEF Init
<1>5. /\ debugLevel \in 1 .. Rules + 1 /\ notes \in 0 .. MaxNotes /\ pending \in Int
      /\ cpos \in Tiles /\ cdir \in Directions /\ goal \in Tiles
  BY Constants DEF Init
<1>6. joined \in {"no", "alive", "dead", "refused"} /\ open \in BOOLEAN /\ checked \in BOOLEAN
      /\ kicked \in BOOLEAN /\ dropped \in BOOLEAN
  BY DEF Init
<1> QED
  BY <1>2, <1>3, <1>4, <1>5, <1>6 DEF TypeOK, Messages, Replies

\* The steps of the server and of the other players.
LEMMA ServerTypes == ASSUME TypeOK, Server PROVE TypeOK'
<1>1. down \in Seq(Messages) /\ up \in Seq(Requests \cup {"login"}) /\ requests \in Seq(Requests)
  BY DEF TypeOK, Messages, Replies
<1>2. ASSUME NEW welcome \in BOOLEAN, ServerLogsIn(welcome) PROVE TypeOK'
  <2>1. up' \in Seq(Requests \cup {"login"})
    BY <1>1, <1>2 DEF ServerLogsIn
  <2>2. Message("welcome") \in Messages /\ Message("error") \in Messages
    BY Constants DEF Replies
  <2>3. down' \in Seq(Messages)
    BY <1>1, <1>2, <2>2 DEF ServerLogsIn
  <2> QED
    BY <1>2, <2>1, <2>3 DEF ServerLogsIn, TypeOK, Messages, Replies, place, mind, history
<1>3. CASE ServerQueues
  <2>1. up' \in Seq(Requests \cup {"login"}) /\ requests' \in Seq(Requests)
    BY <1>1, <1>3 DEF ServerQueues
  <2>2. dropped' \in BOOLEAN
    BY <1>3 DEF ServerQueues, TypeOK
  <2> QED
    BY <1>3, <2>1, <2>2 DEF ServerQueues, TypeOK, place, mind
<1>4. CASE ServerExecutes
  <2>1. requests' \in Seq(Requests) /\ Head(requests) \in Requests
    BY <1>1, <1>4 DEF ServerExecutes
  <2>2. pos \in Tiles /\ dir \in Directions /\ level \in 1 .. 7 /\ goal \in Tiles
    BY DEF TypeOK
  <2>3. Facing(pos, dir) \in Tiles /\ Turned(dir, Head(requests)) \in Directions
    <3>1. (dir + 1) % 4 \in 0 .. 3 /\ (dir + 3) % 4 \in 0 .. 3
      BY <2>2 DEF Directions
    <3> QED
      BY <2>2, <3>1, FacingIsTile DEF Turned, Directions
  <2>4. View \in Messages /\ Message(Head(requests)) \in Messages
    BY <2>1, <2>2, Constants DEF View, Messages, Replies, Requests
  <2>5. pos' \in Tiles /\ dir' \in Directions /\ goal' \in Tiles
    BY <1>4, <2>2, <2>3, Constants DEF ServerExecutes
  <2>6. down' \in Seq(Messages)
    BY <1>1, <1>4, <2>4 DEF ServerExecutes
  <2> QED
    BY <1>4, <2>1, <2>5, <2>6 DEF ServerExecutes, TypeOK, Messages, Replies, mind
<1> QED
  BY <1>2, <1>3, <1>4 DEF Server

LEMMA OtherPlayersTypes == ASSUME TypeOK, OtherPlayers PROVE TypeOK'
<1>1. down \in Seq(Messages)
  BY DEF TypeOK, Messages, Replies
<1>2. CASE ServerLetsDie
  <2>1. Message("-") \in Messages
    BY Constants DEF Replies, Notes
  <2>2. down' \in Seq(Messages)
    BY <1>1, <1>2, <2>1 DEF ServerLetsDie
  <2>3. requests' \in Seq(Requests) /\ joined' \in {"no", "alive", "dead", "refused"}
    BY <1>2 DEF ServerLetsDie
  <2> QED
    BY <1>2, <2>2, <2>3 DEF ServerLetsDie, TypeOK, Messages, Replies, place, mind, history
<1>3. ASSUME NEW note \in Notes, Disturbed(note), pos' \in Tiles, level' \in 1 .. 7, kicked' \in BOOLEAN
      PROVE  TypeOK'
  <2>1. Message(note) \in Messages
    BY Constants DEF Replies
  <2>2. down' \in Seq(Messages)
    BY <1>1, <1>3, <2>1 DEF Disturbed
  <2>3. notes' \in 0 .. MaxNotes /\ goal' \in Tiles
    BY <1>3, Constants DEF Disturbed, TypeOK
  <2> QED
    BY <1>3, <2>2, <2>3 DEF Disturbed, TypeOK, Messages, Replies, mind
<1>4. CASE Hears
  BY <1>3, <1>4 DEF Hears, Notes, TypeOK
<1>5. CASE IsExpelled
  <2>1. pos' \in Tiles /\ kicked' = TRUE /\ level' = level
    BY <1>5, FacingIsTile DEF IsExpelled, TypeOK
  <2> QED
    BY <1>3, <1>5, <2>1 DEF IsExpelled, Notes, TypeOK
<1>6. CASE IsRaised
  <2>1. level' \in 1 .. 7 /\ pos' = pos /\ kicked' = kicked
    BY <1>6 DEF IsRaised, TypeOK
  <2> QED
    BY <1>3, <1>6, <2>1 DEF IsRaised, Notes, TypeOK
<1> QED
  BY <1>2, <1>4, <1>5, <1>6 DEF OtherPlayers

\* The steps of the client.
LEMMA ClientTypes == ASSUME TypeOK, Client PROVE TypeOK'
<1>1. /\ down \in Seq(Messages) /\ up \in Seq(Requests \cup {"login"})
      /\ commands \in Seq(Requests) /\ pending \in Int
      /\ cpos \in Tiles /\ cdir \in Directions /\ checked \in BOOLEAN
  BY DEF TypeOK, Messages, Replies
<1>0. Rules \in Nat \ {0}
  BY Constants
<1>2. CASE handleBienvenueMsg
  <2>1. up' \in Seq(Requests \cup {"login"})
    BY <1>1, <1>2 DEF handleBienvenueMsg
  <2> QED
    BY <1>2, <2>1, ReceivesTypes DEF handleBienvenueMsg, TypeOK, Messages, Replies, mind
<1>3. CASE handleWelcomeMsg
  <2>1. up' \in Seq(Requests \cup {"login"}) /\ pending' \in Int
    BY <1>1, <1>3 DEF handleWelcomeMsg, Requests
  <2>2. cpos' \in Tiles /\ cdir' \in Directions /\ checked' \in BOOLEAN
    BY <1>3, Constants DEF handleWelcomeMsg
  <2>3. debugLevel' \in 1 .. Rules + 1
    <3>1. 1 \in 1 .. Rules + 1
      BY <1>0
    <3> QED
      BY <1>3, <3>1 DEF handleWelcomeMsg
  <2> QED
    BY <1>3, <2>1, <2>2, <2>3, ReceivesTypes DEF handleWelcomeMsg, TypeOK, Messages, Replies
<1>4. CASE handleErrorMsg
  BY <1>4, ReceivesTypes DEF handleErrorMsg, TypeOK, Messages, Replies, mind
<1>5. CASE handleAvanceResponse
  BY <1>1, <1>5, FacingIsTile, AnswerTypes DEF handleAvanceResponse
<1>6. CASE handleTurnResponse
  <2>1. (cdir + 1) % 4 \in 0 .. 3 /\ (cdir + 3) % 4 \in 0 .. 3
    BY <1>1 DEF Directions
  <2>2. cdir' \in Directions
    BY <1>1, <1>6, <2>1 DEF handleTurnResponse, Turned, Directions
  <2> QED
    BY <1>1, <1>6, <2>2, AnswerTypes DEF handleTurnResponse
<1>7. CASE handlePrendResponse
  BY <1>1, <1>7, AnswerTypes DEF handlePrendResponse
<1>8. CASE handleInventaireResponse
  BY <1>1, <1>8, AnswerTypes DEF handleInventaireResponse
<1>9. CASE LevelUpResponse
  BY <1>1, <1>9, AnswerTypes DEF LevelUpResponse
<1>10. CASE handleVoirResponse
  <2>1. Head(down) \in Messages /\ ~ViewFails /\ Head(down).cmd = "voir"
    BY <1>10, ReceivesTypes DEF handleVoirResponse, Receives
  <2>2. PICK plan \in Plans : Decides(Head(down), plan) /\ Sends(commands \o plan, pending - 1)
    BY <1>10 DEF handleVoirResponse
  <2>3. up' \in Seq(Requests \cup {"login"}) /\ commands' \in Seq(Requests) /\ pending' \in Int
    BY <1>1, <2>2, PlansAreCommands, SendsTypes
  <2>4. goal' \in Tiles
    <3>1. Head(down).pos \in Tiles /\ Head(down).dir \in Directions
      BY <2>1 DEF Messages
    <3>2. \A t \in Targets : VisionTile(Head(down).pos, Head(down).dir, t) \in Tiles
      BY <3>1, VisionIsTile, ClientSessionAssumption DEF Seen, Level
    <3> QED
      BY <2>2, <3>2 DEF Decides, TypeOK
  <2>5. debugLevel' \in 1 .. Rules + 1
    <3>1. debugLevel \in 1 .. Rules + 1 /\ debugLevel <= Rules
      <4>1. debugLevel \in 1 .. Rules + 1
        BY DEF TypeOK
      <4>2. ~(debugLevel > Rules)
        BY <2>1 DEF ViewFails
      <4> QED
        BY <1>0, <4>1, <4>2
    <3>2. debugLevel' = debugLevel \/ debugLevel' = debugLevel + 1
      BY <2>2 DEF Decides
    <3> QED
      BY <1>0, <3>1, <3>2
  <2>6. checked' \in BOOLEAN /\ open' \in BOOLEAN /\ cpos' \in Tiles /\ cdir' \in Directions
    BY <1>1, <1>10, <2>2 DEF Decides, handleVoirResponse, TypeOK
  <2>7. Receives({"voir"})
    BY <1>10 DEF handleVoirResponse
  <2> QED
    BY <2>3, <2>4, <2>5, <2>6, <2>7, ReceivesTypes DEF TypeOK, Messages, Replies
<1>11. CASE HandlerThrows
  <2>1. pending' \in Int
    BY <1>1, <1>11 DEF HandlerThrows
  <2>2. Receives({"message", "deplacement"}) \/ Receives({"voir"})
    BY <1>11 DEF HandlerThrows
  <2> QED
    BY <1>11, <2>1, <2>2, ReceivesTypes DEF HandlerThrows, TypeOK, Messages, Replies, mind
<1>12. CASE handleDieResponse
  <2>1. PICK n \in 0 .. Len(commands) : /\ pending' = pending - 1 + n
                                        /\ commands' = SubSeq(commands, n + 1, Len(commands))
    BY <1>12 DEF handleDieResponse
  <2>2. Len(commands) \in Nat /\ \A i \in 1 .. Len(commands) : commands[i] \in Requests
    BY <1>1
  <2>3. pending' \in Int /\ commands' \in Seq(Requests)
    BY <1>1, <2>1, <2>2
  <2> QED
    BY <1>12, <2>3, ReceivesTypes DEF handleDieResponse, TypeOK, Messages, Replies, mind
<1> QED
  BY <1>2, <1>3, <1>4, <1>5, <1>6, <1>7, <1>8, <1>9, <1>10, <1>11, <1>12 DEF Client

LEMMA NextTypes == ASSUME TypeOK, [Next]_vars PROVE TypeOK'
<1>1. CASE Server \/ OtherPlayers \/ Client
  BY <1>1, ServerTypes, OtherPlayersTypes, ClientTypes
<1>2. CASE onClose
  <2>1. /\ up' \in Seq(Requests \cup {"login"}) /\ down' \in Seq(Messages)
        /\ requests' \in Seq(Requests) /\ open' \in BOOLEAN
    <3>1. up' = <<>> /\ down' = <<>> /\ requests' = <<>> /\ open' = FALSE
      BY <1>2 DEF onClose
    <3>2. \A S : <<>> \in Seq(S)
      OBVIOUS
    <3> QED
      BY <3>1, <3>2, Zenon
  <2>2. joined' \in {"no", "alive", "dead", "refused"}
    BY <1>2 DEF onClose, TypeOK
  <2> QED
    BY <1>2, <2>1, <2>2 DEF onClose, TypeOK, Messages, Replies, place, mind, history
<1>3. CASE UNCHANGED vars
  BY <1>3 DEF vars, player, place, mind, history, TypeOK
<1> QED
  BY <1>1, <1>2, <1>3 DEF Next

(***************************************************************************)
(* Every variable has its type: in particular the tiles and the direction  *)
(* that Position.java computes are on the map, and debugLevel, which       *)
(* AI.java uses as an index, never goes past the end of the rules by more  *)
(* than one.                                                               *)
(***************************************************************************)
THEOREM TypesCorrect == Spec => []TypeOK
<1>1. Init => TypeOK
  BY InitTypes
<1>2. TypeOK /\ [Next]_vars => TypeOK'
  BY NextTypes
<1> QED
  BY <1>1, <1>2, PTL DEF Spec

(***************************************************************************)
(* Hearing and seeing agree: compute_broadcast_direction puts a tile in    *)
(* sight in the eighth ahead, or half to the left or right of it, where    *)
(* m_command_voir lists it, on every map with more tiles in either         *)
(* direction than the view is wide.                                        *)
(***************************************************************************)
THEOREM HearsCorrect == Spec => []HearsWhereItSees
<1>1. TypeOK => HearsWhereItSees
  <2> DEFINE v == Head(down)
  <2> SUFFICES ASSUME TypeOK, Looks, 2 * v.level < MapX, 2 * v.level < MapY,
                      NEW idx \in 1 .. (v.level + 1) * (v.level + 1) - 1
               PROVE  compute_broadcast_direction(v.pos, v.dir, VisionTile(v.pos, v.dir, idx)) =
                         IF Within(Side(idx), Row(idx)) THEN 1 ELSE IF Side(idx) < 0 THEN 2 ELSE 8
    BY DEF HearsWhereItSees
  <2>1. v.pos \in Tiles /\ v.dir \in Directions /\ v.level \in Nat
    <3>1. down \in Seq(Messages) /\ down # <<>>
      BY DEF TypeOK, Messages, Replies, Looks
    <3>2. v \in Messages
      BY <3>1
    <3> QED
      BY <3>2 DEF Messages
  <2>2. idx \in Nat
    <3>1. (v.level + 1) * (v.level + 1) \in Int
      BY <2>1
    <3> QED
      BY <3>1
  <2> DEFINE n == v.level
             r == Row(idx)
             s == Side(idx)
  <2>3. r >= 1 /\ r <= n /\ r \in Nat /\ s \in Int /\ -r <= s /\ s <= r
    BY <2>1, <2>2, RowOfLevel, RowAndSide
  <2>4. 2 * r < MapX /\ 2 * r < MapY /\ r \in Nat \ {0}
    <3>1. 2 * n < MapX /\ 2 * n < MapY /\ n \in Nat /\ MapX \in Nat /\ MapY \in Nat
      BY <2>1, MapAssumption
    <3> HIDE DEF n, r
    <3> QED
      BY <2>3, <3>1
  <2> DEFINE far == VisionTile(v.pos, v.dir, idx)
  <2>5. /\ v.dir = 0 => far = At(v.pos, s, -r)
        /\ v.dir = 1 => far = At(v.pos, r, s)
        /\ v.dir = 2 => far = At(v.pos, -s, r)
        /\ v.dir = 3 => far = At(v.pos, -r, -s)
    BY DEF VisionTile
  <2>6. compute_broadcast_direction(v.pos, v.dir, far) = Octant(s, r)
    <3> DEFINE p == v.pos
    <3> HIDE DEF p, r, s, far
    <3>1. /\ compute_broadcast_direction(p, 0, At(p, s, -r)) = Octant(s, r)
          /\ compute_broadcast_direction(p, 1, At(p, r, s)) = Octant(s, r)
          /\ compute_broadcast_direction(p, 2, At(p, -s, r)) = Octant(s, r)
          /\ compute_broadcast_direction(p, 3, At(p, -r, -s)) = Octant(s, r)
      BY <2>1, <2>3, <2>4, HeardWhereSeen DEF p
    <3>2. v.dir = 0 \/ v.dir = 1 \/ v.dir = 2 \/ v.dir = 3
      BY <2>1 DEF Directions
    <3> HIDE DEF v
    <3> QED
      BY <2>5, <3>1, <3>2 DEF p
  <2> HIDE DEF v, r, s, far
  <2>7. Octant(s, r) = IF Within(s, r) THEN 1 ELSE IF s < 0 THEN 2 ELSE 8
    BY <2>3, <2>4, AheadOctant
  <2> QED
    BY <2>6, <2>7 DEF v, r, s, far
<1> QED
  BY <1>1, TypesCorrect, PTL

(***************************************************************************)
(* A turn of a player moves every sound by two eighths the other way, from *)
(* whatever tile it comes, also when the ways round the map are equally    *)
(* long: m_command_droite, m_command_gauche and                            *)
(* compute_broadcast_direction count the directions the same way.          *)
(***************************************************************************)
THEOREM SoundCorrect == Spec => SoundTurns
<1> DEFINE Follows ==
      dir' # dir => \A t \in Tiles :
         compute_broadcast_direction(pos, dir', t) =
             TurnedSound(compute_broadcast_direction(pos, dir, t), (dir' - dir) % 4)
<1>1. TypeOK /\ TypeOK' => Follows
  BY SoundFollows DEF TypeOK
<1>2. TypeOK /\ TypeOK' => [Follows]_vars
  BY <1>1
<1> HIDE DEF Follows
<1>3. [](TypeOK) => [][Follows]_vars
  BY <1>2, PTL
<1> QED
  BY <1>3, TypesCorrect DEF SoundTurns, Follows

----------------------------------------------------------------------------
(* The session *)

(***************************************************************************)
(* Before the login, the player is where it starts and at most one of the  *)
(* greeting and the login is under way; after it, neither is.  Only a      *)
(* player that is alive has commands in its queue.                         *)
(***************************************************************************)
BeforeLogin ==
    /\ commands = <<>> /\ pending = 0
    /\ pos = start[1] /\ dir = start[2]
    /\ \/ up = <<>> /\ down = <<Message("bienvenue")>>
       \/ up = <<"login">> /\ down = <<>>
       \/ up = <<>> /\ down = <<>>

SessionInv ==
    /\ joined = "no" => BeforeLogin
    /\ joined # "no" => /\ up \in Seq(Requests)
                        /\ \A i \in DOMAIN down : down[i].cmd # "bienvenue"
    /\ joined # "alive" => requests = <<>>

\* What all steps of the client have in common.
Handled ==
    /\ open /\ down # <<>> /\ down' = Tail(down)
    /\ joined' = joined /\ pos' = pos /\ dir' = dir /\ level' = level /\ requests' = requests
    /\ start' = start /\ notes' = notes /\ kicked' = kicked /\ dropped' = dropped

\* The client takes a message without sending anything.
TakesNote ==
    /\ Head(down).cmd \in {"message", "deplacement", "voir"}
    /\ pending' = pending - 1
    /\ up' = up /\ commands' = commands /\ goal' = goal /\ open' = open

Closes ==
    /\ Head(down).cmd \in {"error", "-"}
    /\ up' = up /\ goal' = goal /\ open' = FALSE

\* The client counts an answer and sends the next commands of its queue.
GoesOn(next) ==
    /\ Sends(commands \o next, pending - 1)
    /\ open' = open

AnswerKind(next) ==
    /\ Head(down).cmd \in (Requests \cup {"incantation"}) \ {"voir"}
    /\ next = <<>> \/ (pending - 1 = 0 /\ \E m \in Moves : next = addRandomMove(m))
    /\ GoesOn(next)
    /\ goal' = goal

ViewKind(plan) ==
    /\ Head(down).cmd = "voir"
    /\ plan \in Plans
    /\ Decides(Head(down), plan)
    /\ GoesOn(plan)

LEMMA AnswerIsKind ==
  ASSUME NEW cmds, Receives(cmds), Answered, cmds \subseteq (Requests \cup {"incantation"}) \ {"voir"}
  PROVE  Handled /\ \E next \in Seq(Requests) : AnswerKind(next)
<1>1. Handled /\ Head(down).cmd \in (Requests \cup {"incantation"}) \ {"voir"}
  BY DEF Receives, Handled, player, place
<1>2. PICK next \in IF pending - 1 = 0 THEN {addRandomMove(m) : m \in Moves} ELSE {<<>>} :
         Sends(commands \o next, pending - 1)
  BY DEF Answered
<1>3. next = <<>> \/ (pending - 1 = 0 /\ \E m \in Moves : next = addRandomMove(m))
  BY <1>2
<1>4. \A S : <<>> \in Seq(S)
  OBVIOUS
<1>5. next \in Seq(Requests)
  BY <1>3, <1>4, RandomPlan, Zenon
<1>6. open' = open /\ goal' = goal
  BY DEF Answered
<1>7. AnswerKind(next)
  BY <1>1, <1>2, <1>3, <1>6, Zenon DEF AnswerKind, GoesOn
<1> QED
  BY <1>1, <1>5, <1>7

\* The six things that a step of the client can be.
LEMMA ClientKinds ==
  ASSUME TypeOK, Client
  PROVE  /\ Handled
         /\ \/ handleBienvenueMsg
            \/ handleWelcomeMsg
            \/ Closes
            \/ TakesNote
            \/ \E next \in Seq(Requests) : AnswerKind(next)
            \/ \E plan \in Seq(Requests) : ViewKind(plan)
<1> DEFINE Kinds == \/ handleBienvenueMsg
                    \/ handleWelcomeMsg
                    \/ Closes
                    \/ TakesNote
                    \/ \E next \in Seq(Requests) : AnswerKind(next)
                    \/ \E plan \in Seq(Requests) : ViewKind(plan)
<1>1. CASE handleBienvenueMsg \/ handleWelcomeMsg
  BY <1>1 DEF handleBienvenueMsg, handleWelcomeMsg, Receives, Handled, player, place
<1>2. CASE handleErrorMsg \/ handleDieResponse
  <2>1. Handled
    BY <1>2 DEF handleErrorMsg, handleDieResponse, Receives, Handled, player, place
  <2>2. Closes
    BY <1>2 DEF handleErrorMsg, handleDieResponse, Receives, Closes
  <2> QED
    BY <2>1, <2>2
<1>3. CASE HandlerThrows
  <2>1. Handled
    BY <1>3 DEF HandlerThrows, Receives, Handled, player, place
  <2>2. TakesNote
    BY <1>3 DEF HandlerThrows, Receives, TakesNote
  <2> QED
    BY <2>1, <2>2
<1>4. CASE \/ handleAvanceResponse \/ handleTurnResponse \/ handlePrendResponse
           \/ handleInventaireResponse \/ LevelUpResponse
  <2>1. /\ Answered
        /\ \E cmds \in {{"avance"}, {"droite", "gauche"}, {"prend"}, {"inventaire"}, {"incantation"}} :
              Receives(cmds)
    BY <1>4 DEF handleAvanceResponse, handleTurnResponse, handlePrendResponse,
                handleInventaireResponse, LevelUpResponse
  <2>2. \A cmds \in {{"avance"}, {"droite", "gauche"}, {"prend"}, {"inventaire"}, {"incantation"}} :
           cmds \subseteq (Requests \cup {"incantation"}) \ {"voir"}
    BY DEF Requests, Moves
  <2>3. Handled /\ \E next \in Seq(Requests) : AnswerKind(next)
    BY <2>1, <2>2, AnswerIsKind
  <2> QED
    BY <2>3
<1>5. CASE handleVoirResponse
  <2>1. Receives({"voir"}) /\ open' = open
    BY <1>5 DEF handleVoirResponse
  <2>2. Handled /\ Head(down).cmd = "voir"
    BY <2>1 DEF Receives, Handled, player, place
  <2>3. PICK plan \in Plans : Decides(Head(down), plan) /\ Sends(commands \o plan, pending - 1)
    BY <1>5 DEF handleVoirResponse
  <2>4. plan \in Seq(Requests) /\ ViewKind(plan)
    BY <2>1, <2>2, <2>3, PlansAreCommands DEF ViewKind, GoesOn
  <2> QED
    BY <2>2, <2>4
<1> QED
  BY <1>1, <1>2, <1>3, <1>4, <1>5 DEF Client

LEMMA InitSession == Init => SessionInv
BY DEF Init, SessionInv, BeforeLogin

\* Messages that are added to those on their way to the client.
LEMMA AppendedMessages ==
  ASSUME NEW s \in Seq(Messages), NEW t \in Seq(Messages)
  PROVE  /\ s \o t \in Seq(Messages) /\ DOMAIN (s \o t) = 1 .. Len(s) + Len(t)
         /\ Len(s \o t) = Len(s) + Len(t) /\ Len(s) \in Nat /\ Len(t) \in Nat
         /\ \A i \in 1 .. Len(s) + Len(t) :
               (s \o t)[i] = IF i <= Len(s) THEN s[i] ELSE t[i - Len(s)]
OBVIOUS

\* The client logs in once.
LEMMA LogsInOnce ==
  ASSUME SessionInv, NEW welcome \in BOOLEAN, ServerLogsIn(welcome)
  PROVE  joined = "no" /\ up = <<"login">> /\ down = <<>> /\ requests = <<>>
<1>1. joined = "no"
  <2>1. ASSUME joined # "no" PROVE FALSE
    <3>1. up \in Seq(Requests) /\ up # <<>>
      BY <2>1 DEF SessionInv, ServerLogsIn
    <3>2. Head(up) \in Requests
      BY <3>1
    <3> QED
      BY <3>2 DEF ServerLogsIn, Requests, Moves
  <2> QED
    BY <2>1
<1> QED
  BY <1>1 DEF SessionInv, BeforeLogin, ServerLogsIn

LEMMA ServerSession == ASSUME TypeOK, SessionInv, Server PROVE SessionInv'
<1>1. /\ down \in Seq(Messages) /\ up \in Seq(Requests \cup {"login"}) /\ requests \in Seq(Requests)
      /\ DOMAIN down = 1 .. Len(down) /\ Len(down) \in Nat
  BY DEF TypeOK, Messages, Replies
<1>2. ASSUME NEW welcome \in BOOLEAN, ServerLogsIn(welcome) PROVE SessionInv'
  <2>1. joined = "no"
    BY <1>2, LogsInOnce
  <2>2. up = <<"login">> /\ down = <<>>
    BY <1>2, LogsInOnce
  <2>3. up' = <<>>
    BY <1>2, <2>2 DEF ServerLogsIn
  <2>4. down' = <<Message("welcome")>> \/ down' = <<Message("error"), Message("error")>>
    BY <1>2, <2>2 DEF ServerLogsIn
  <2>5. \A i \in DOMAIN down' : down'[i].cmd # "bienvenue"
    BY <2>4 DEF Message
  <2>6. joined' # "no" /\ requests' = requests /\ requests = <<>>
    BY <1>2, <2>1 DEF ServerLogsIn, SessionInv
  <2> QED
    BY <2>3, <2>5, <2>6 DEF SessionInv
<1>3. CASE ServerQueues
  <2>1. joined # "no"
    BY <1>3 DEF SessionInv, BeforeLogin, ServerQueues
  <2>2. up' \in Seq(Requests) /\ down' = down /\ joined' = joined
    BY <1>3, <2>1 DEF SessionInv, ServerQueues
  <2>3. joined # "alive" => requests' = requests
    BY <1>3 DEF ServerQueues
  <2> QED
    BY <2>1, <2>2, <2>3 DEF SessionInv
<1>4. CASE ServerExecutes
  <2>1. joined = "alive" /\ joined' = joined /\ up' = up
    BY <1>4 DEF SessionInv, ServerExecutes
  <2>2. PICK m : down' = Append(down, m) /\ m.cmd # "bienvenue"
    <3>1. Head(requests) \in Requests
      BY <1>1, <1>4 DEF ServerExecutes
    <3>2. View.cmd # "bienvenue" /\ Message(Head(requests)).cmd # "bienvenue"
      BY <3>1 DEF View, Message, Requests, Moves
    <3> QED
      BY <1>4, <3>2 DEF ServerExecutes
  <2>3. \A i \in DOMAIN down' : down'[i].cmd # "bienvenue"
    BY <1>1, <2>1, <2>2 DEF SessionInv
  <2> QED
    BY <2>1, <2>3 DEF SessionInv
<1> QED
  BY <1>2, <1>3, <1>4 DEF Server

LEMMA OtherPlayersSession == ASSUME TypeOK, SessionInv, OtherPlayers PROVE SessionInv'
<1>1. down \in Seq(Messages) /\ DOMAIN down = 1 .. Len(down) /\ Len(down) \in Nat
  BY DEF TypeOK, Messages, Replies
<1>2. /\ joined = "alive" /\ joined' \in {"alive", "dead"} /\ up' = up
      /\ joined' = "dead" => requests' = <<>>
      /\ \E cmd \in Notes : down' = Append(down, Message(cmd))
  BY DEF OtherPlayers, ServerLetsDie, Hears, IsExpelled, IsRaised, Disturbed, Notes
<1>3. \A i \in DOMAIN down' : down'[i].cmd # "bienvenue"
  BY <1>1, <1>2 DEF SessionInv, Message, Notes
<1> QED
  BY <1>2, <1>3 DEF SessionInv

LEMMA ClientSessionStep == ASSUME TypeOK, SessionInv, Client PROVE SessionInv'
<1>1. /\ down \in Seq(Messages) /\ DOMAIN down = 1 .. Len(down) /\ Len(down) \in Nat
      /\ commands \in Seq(Requests) /\ pending \in Int
  BY DEF TypeOK, Messages, Replies
<1>2. Handled
  BY ClientKinds
<1>3. /\ Head(down) = down[1] /\ 1 \in DOMAIN down
      /\ \A i \in DOMAIN down' : i + 1 \in DOMAIN down /\ down'[i] = down[i + 1]
  BY <1>1, <1>2 DEF Handled
<1>4. CASE joined = "no"
  <2>1. down = <<Message("bienvenue")>> /\ up = <<>> /\ Head(down).cmd = "bienvenue"
    BY <1>2, <1>4 DEF SessionInv, BeforeLogin, Handled, Message
  <2>2. handleBienvenueMsg
    BY <2>1, ClientKinds
       DEF handleWelcomeMsg, Receives, Closes, TakesNote, AnswerKind, ViewKind, Requests, Moves
  <2>3. down' = <<>> /\ up' = <<"login">>
    BY <1>2, <2>1, <2>2 DEF Handled, handleBienvenueMsg
  <2>4. BeforeLogin'
    BY <1>2, <1>4, <2>2, <2>3 DEF SessionInv, BeforeLogin, Handled, handleBienvenueMsg
  <2> QED
    BY <1>2, <1>4, <2>4 DEF SessionInv, Handled
<1>5. CASE joined # "no"
  <2>1. up \in Seq(Requests) /\ up \in Seq(Requests \cup {"login"})
    BY <1>5 DEF SessionInv, TypeOK
  <2>2. ASSUME NEW next \in Seq(Requests), GoesOn(next) PROVE up' \in Seq(Requests)
    <3>1. commands \o next \in Seq(Requests) /\ pending - 1 \in Int
      BY <1>1
    <3>2. PICK n \in Nat : Takes(commands \o next, pending - 1, n)
      <4>1. Sends(commands \o next, pending - 1)
        BY <2>2 DEF GoesOn
      <4> QED
        BY <3>1, <4>1, SendsTakes, Zenon
    <3> DEFINE queue == commands \o next
    <3>3. n \in 0 .. Len(queue) /\ Len(queue) \in Nat /\ \A i \in 1 .. Len(queue) : queue[i] \in Requests
      BY <3>1, <3>2 DEF Takes
    <3>4. SubSeq(queue, 1, n) \in Seq(Requests) /\ up' = up \o SubSeq(queue, 1, n)
      <4> HIDE DEF queue
      <4>1. SubSeq(queue, 1, n) \in Seq(Requests)
        BY <3>3
      <4> QED
        BY <3>2, <4>1 DEF Takes, queue
    <3>5. \A s, t \in Seq(Requests) : s \o t \in Seq(Requests)
      OBVIOUS
    <3> QED
      BY <2>1, <3>4, <3>5, Zenon
  <2>3. ~handleBienvenueMsg
    BY <1>3, <1>5 DEF SessionInv, handleBienvenueMsg, Receives
  <2>4. handleWelcomeMsg => up' \in Seq(Requests)
    <3>1. "voir" \in Requests
      BY DEF Requests
    <3> QED
      BY <2>1, <3>1 DEF handleWelcomeMsg
  <2>5. up' \in Seq(Requests)
    <3>1. \/ handleWelcomeMsg
          \/ up' = up
          \/ \E next \in Seq(Requests) : GoesOn(next)
      BY <2>3, ClientKinds, Zenon DEF Closes, TakesNote, AnswerKind, ViewKind
    <3> QED
      BY <2>1, <2>2, <2>4, <3>1, Zenon
  <2> QED
    BY <1>2, <1>3, <1>5, <2>5 DEF SessionInv, Handled
<1> QED
  BY <1>4, <1>5

LEMMA NextSession == ASSUME TypeOK, SessionInv, [Next]_vars PROVE SessionInv'
<1>1. CASE Server \/ OtherPlayers \/ Client
  BY <1>1, ServerSession, OtherPlayersSession, ClientSessionStep
<1>2. CASE onClose
  <2>1. /\ up' = <<>> /\ down' = <<>> /\ requests' = <<>>
        /\ commands' = commands /\ pending' = pending
        /\ pos' = pos /\ dir' = dir /\ start' = start
        /\ joined' = "no" <=> joined = "no"
    BY <1>2 DEF onClose, place, history
  <2>2. up' \in Seq(Requests)
    BY <2>1
  <2>3. BeforeLogin => BeforeLogin'
    BY <2>1 DEF BeforeLogin
  <2> QED
    BY <2>1, <2>2, <2>3 DEF SessionInv
<1>3. CASE UNCHANGED vars
  BY <1>3 DEF vars, player, place, mind, history, SessionInv, BeforeLogin
<1> QED
  BY <1>1, <1>2, <1>3 DEF Next

----------------------------------------------------------------------------
(* A client that nobody disturbs *)

\* The commands that were decided on and not executed.
Todo == requests \o up \o commands

Turns == {"droite", "gauche"}

\* The plan s, carried out from place p and direction d, takes something on tile g.
Leads(s, p, d, g) ==
    \/ Len(s) = 1 /\ p = g
    \/ Len(s) = 2 /\ s[1] = "avance" /\ Facing(p, d) = g
    \/ Len(s) = 3 /\ s[1] \in Turns /\ s[2] = "avance" /\ Facing(p, Turned(d, s[1])) = g
    \/ /\ Len(s) = 4 /\ s[1] = "avance" /\ s[2] \in Turns /\ s[3] = "avance"
       /\ Facing(Facing(p, d), Turned(d, s[2])) = g

\* What is left of a plan: moves, and a last command that needs the moves when it is prend.
OnPlan(s, p, d, g) ==
    /\ \A i \in 1 .. Len(s) - 1 : s[i] \in Moves
    /\ Len(s) > 0 /\ s[Len(s)] = "prend" => Leads(s, p, d, g)

(***************************************************************************)
(* Every message on its way to the client answers a command, the client    *)
(* counts all that were sent and not answered, it holds back others only   *)
(* at its limit, and the answer to a look is the last thing under way.     *)
(***************************************************************************)
Flowing ==
    /\ pending = Len(down) + Len(requests) + Len(up)
    /\ pending <= MaxPending
    /\ commands # <<>> => pending = MaxPending
    /\ \A i \in DOMAIN down :
          /\ down[i].cmd \in Requests
          /\ down[i].cmd = "voir" => /\ i = Len(down) /\ Todo = <<>>
                                     /\ down[i].pos = pos /\ down[i].dir = dir
    /\ OnPlan(Todo, pos, dir, goal)

JustWelcomed ==
    /\ down = <<Message("welcome")>>
    /\ up = <<>> /\ requests = <<>> /\ commands = <<>> /\ pending = 0

FlowInv == notes = 0 /\ joined = "alive" => JustWelcomed \/ Flowing

\* What is left of a plan when its first command is executed.
LEMMA OnPlanTail ==
  ASSUME NEW s \in Seq(Requests), s # <<>>, NEW p, NEW d, NEW g, OnPlan(s, p, d, g)
  PROVE  /\ Head(s) \notin Moves => Tail(s) = <<>>
         /\ OnPlan(Tail(s), IF Head(s) = "avance" THEN Facing(p, d) ELSE p, Turned(d, Head(s)),
                   IF Head(s) = "prend" THEN <<0, 0>> ELSE g)
<1> DEFINE r == Tail(s)
           n == Len(s)
           cmd == Head(s)
           p2 == IF cmd = "avance" THEN Facing(p, d) ELSE p
           d2 == Turned(d, cmd)
           g2 == IF cmd = "prend" THEN <<0, 0>> ELSE g
<1>1. /\ n \in Nat /\ n >= 1 /\ cmd = s[1] /\ cmd \in Requests
      /\ r \in Seq(Requests) /\ Len(r) = n - 1
      /\ \A i \in 1 .. n - 1 : r[i] = s[i + 1]
  OBVIOUS
<1>2. /\ \A i \in 1 .. n - 1 : s[i] \in Moves
      /\ s[n] = "prend" => Leads(s, p, d, g)
  BY <1>1 DEF OnPlan
<1>3. cmd \notin Moves => n = 1
  BY <1>1, <1>2
<1>5. Turned(d, "avance") = d
  BY DEF Turned
<1> HIDE DEF r, n, cmd
<1>4. n = 1 => r = <<>>
  <2>1. n = 1 => Len(r) = 0
    BY <1>1
  <2> QED
    BY <1>1, <2>1, EmptySeq
<1>6. \A i \in 1 .. Len(r) - 1 : r[i] \in Moves
  BY <1>1, <1>2
<1>7. ASSUME Len(r) > 0, r[Len(r)] = "prend" PROVE Leads(r, p2, d2, g2)
  <2>1. n >= 2 /\ s[n] = "prend" /\ cmd \in Moves
    BY <1>1, <1>3, <1>7
  <2>2. Leads(s, p, d, g) /\ n = Len(s)
    BY <1>2, <2>1 DEF n
  <2>3. cmd # "prend" /\ g2 = g
    BY <2>1 DEF Moves
  <2>4. CASE n = 2
    <3>1. cmd = "avance" /\ Facing(p, d) = g
      BY <1>1, <2>2, <2>4 DEF Leads
    <3> QED
      BY <1>1, <2>3, <2>4, <3>1 DEF Leads
  <2>5. CASE n = 3
    <3>1. cmd \in Turns /\ s[2] = "avance" /\ Facing(p, Turned(d, cmd)) = g
      BY <1>1, <2>2, <2>5 DEF Leads
    <3>2. p2 = p /\ r[1] = "avance" /\ Len(r) = 2
      BY <1>1, <2>5, <3>1 DEF Turns
    <3> QED
      BY <2>3, <3>1, <3>2 DEF Leads
  <2>6. CASE n = 4
    <3>1. /\ cmd = "avance" /\ s[2] \in Turns /\ s[3] = "avance"
          /\ Facing(Facing(p, d), Turned(d, s[2])) = g
      BY <1>1, <2>2, <2>6 DEF Leads
    <3>2. p2 = Facing(p, d) /\ d2 = d /\ r[1] = s[2] /\ r[2] = "avance" /\ Len(r) = 3
      BY <1>1, <1>5, <2>6, <3>1
    <3> QED
      BY <2>3, <3>1, <3>2 DEF Leads
  <2> QED
    BY <2>1, <2>2, <2>4, <2>5, <2>6 DEF Leads
<1>8. OnPlan(r, p2, d2, g2)
  BY <1>6, <1>7 DEF OnPlan
<1> QED
  BY <1>3, <1>4, <1>8 DEF r, cmd

\* Two steps on the map are one.
LEMMA AtAt ==
  ASSUME NEW t \in Tiles, NEW a \in Int, NEW b \in Int, NEW c \in Int, NEW e \in Int
  PROVE  At(At(t, a, b), c, e) = At(t, a + c, b + e)
<1>1. /\ t[1] \in Int /\ t[2] \in Int /\ MapX \in Nat \ {0} /\ MapY \in Nat \ {0}
  BY MapAssumption DEF Tiles
<1>2. ASSUME NEW m \in Nat \ {0}, NEW x \in Int, NEW k \in Int, NEW n \in Int
      PROVE  (((x + k) % m) + n) % m = (x + (k + n)) % m
  <2>1. (n + ((x + k) % m)) % m = (n + (x + k)) % m
    <3>1. x + k \in Int
      OBVIOUS
    <3> QED
      BY <1>2, <3>1, RemainderOfSum, ZenonT(30)
  <2>2. n + (x + k) = x + (k + n)
    OBVIOUS
  <2>3. (x + k) % m \in Int
    OBVIOUS
  <2>4. n + ((x + k) % m) = ((x + k) % m) + n
    BY <2>3
  <2> QED
    BY <2>1, <2>2, <2>4
<1>3. /\ (((t[1] + a) % MapX) + c) % MapX = (t[1] + (a + c)) % MapX
      /\ (((t[2] + b) % MapY) + e) % MapY = (t[2] + (b + e)) % MapY
  BY <1>1, <1>2
<1> QED
  BY <1>3 DEF At

\* Where the client's plan for a tile leads.
LEMMA PlanLeads ==
  ASSUME NEW t \in Targets, NEW p \in Tiles, NEW d \in Directions
  PROVE  OnPlan(addMovesToTile(t), p, d, VisionTile(p, d, t))
<1> DEFINE s == addMovesToTile(t)
           g == VisionTile(p, d, t)
<1>1. d = 0 \/ d = 1 \/ d = 2 \/ d = 3
  BY DEF Directions
<1>2. ASSUME NEW r \in Int, NEW x \in Int, Row(t) = r, Side(t) = x
      PROVE  /\ d = 0 => g = At(p, x, -r)
             /\ d = 1 => g = At(p, r, x)
             /\ d = 2 => g = At(p, -x, r)
             /\ d = 3 => g = At(p, -r, -x)
  BY <1>2 DEF VisionTile
<1>3. t \in Nat
  BY ClientSessionAssumption DEF Seen, Level
<1> DEFINE r == Row(t)
<1>4. r \in Nat /\ r * r <= t /\ t < (r + 1) * (r + 1) /\ r <= t /\ Side(t) = t - r * r - r
  BY <1>3, RowAndSide DEF Side
<1> HIDE DEF r, g
<1>5. /\ (0 + 1) % 4 = 1 /\ (1 + 1) % 4 = 2 /\ (2 + 1) % 4 = 3 /\ (3 + 1) % 4 = 0
      /\ (0 + 3) % 4 = 3 /\ (1 + 3) % 4 = 0 /\ (2 + 3) % 4 = 1 /\ (3 + 3) % 4 = 2
  OBVIOUS
<1>6. /\ Facing(p, 0) = At(p, 0, -1) /\ Facing(p, 1) = At(p, 1, 0)
      /\ Facing(p, 2) = At(p, 0, 1) /\ Facing(p, 3) = At(p, -1, 0)
  BY DEF Facing
<1>7. CASE t = 0
  <2>1. r = 0 /\ Side(t) = 0
    BY <1>4, <1>7
  <2>2. g = At(p, 0, 0)
    BY <1>1, <1>2, <2>1 DEF r
  <2>3. At(p, 0, 0) = p
    <3>1. p = <<p[1], p[2]>> /\ p[1] \in 0 .. MapX - 1 /\ p[2] \in 0 .. MapY - 1
      BY DEF Tiles
    <3>2. (p[1] + 0) % MapX = p[1] /\ (p[2] + 0) % MapY = p[2]
      BY <3>1, MapAssumption
    <3> QED
      BY <3>1, <3>2 DEF At
  <2>4. s = <<"prend">>
    BY <1>7, PlanOfTile
  <2> QED
    BY <2>2, <2>3, <2>4 DEF OnPlan, Leads, g
<1>8. CASE t # 0
  <2>1. t \in 1 .. 3
    BY <1>8, ClientSessionAssumption DEF Seen, Level
  <2>2. r = 1 /\ Side(t) = t - 2
    <3>1. r # 0
      BY <1>4, <2>1
    <3>2. ~(r >= 2)
      <4>1. r >= 2 => r * r >= 4
        BY <1>4
      <4> QED
        BY <1>4, <2>1, <4>1
    <3>3. r = 1
      BY <1>4, <3>1, <3>2
    <3> QED
      BY <1>4, <2>1, <3>3
  <2>3. CASE t = 2
    <3>1. Side(t) = 0
      BY <2>2, <2>3
    <3>2. g = Facing(p, d)
      BY <1>1, <1>2, <1>6, <2>2, <3>1 DEF r
    <3>3. s = <<"avance", "prend">>
      BY <2>3, PlanOfTile
    <3> QED
      BY <3>2, <3>3 DEF OnPlan, Leads, Moves, g
  <2>4. ASSUME NEW turn \in Turns, g = Facing(Facing(p, d), Turned(d, turn)),
               s = <<"avance", turn, "avance", "prend">>
        PROVE  OnPlan(s, p, d, g)
    <3>1. /\ Len(s) = 4 /\ s[1] = "avance" /\ s[2] = turn /\ s[3] = "avance" /\ s[4] = "prend"
      BY <2>4
    <3> HIDE DEF s
    <3>2. \A i \in 1 .. Len(s) - 1 : s[i] \in Moves
      BY <2>4, <3>1 DEF Turns, Moves
    <3> QED
      BY <2>4, <3>1, <3>2 DEF OnPlan, Leads
  <2>5. \A a, b, c, e \in {-1, 0, 1} : At(At(p, a, b), c, e) = At(p, a + c, b + e)
    BY AtAt
  <2>6. CASE t = 1
    <3>1. Side(t) = -1
      BY <2>2, <2>6
    <3>2. g = Facing(Facing(p, d), Turned(d, "gauche"))
      BY <1>1, <1>2, <1>5, <1>6, <2>2, <2>5, <3>1 DEF r, Turned, Facing
    <3>3. s = <<"avance", "gauche", "avance", "prend">>
      BY <2>6, PlanOfTile
    <3> QED
      BY <2>4, <3>2, <3>3 DEF Turns, g
  <2>7. CASE t = 3
    <3>1. Side(t) = 1
      BY <2>2, <2>7
    <3>2. g = Facing(Facing(p, d), Turned(d, "droite"))
      BY <1>1, <1>2, <1>5, <1>6, <2>2, <2>5, <3>1 DEF r, Turned, Facing
    <3>3. s = <<"avance", "droite", "avance", "prend">>
      BY <2>7, PlanOfTile
    <3> QED
      BY <2>4, <3>2, <3>3 DEF Turns, g
  <2> QED
    BY <2>1, <2>3, <2>6, <2>7
<1> QED
  BY <1>7, <1>8

\* The other plans do not lead anywhere.
LEMMA OtherPlans ==
  ASSUME NEW p, NEW d, NEW g
  PROVE  /\ OnPlan(<<>>, p, d, g) /\ OnPlan(<<"voir">>, p, d, g) /\ OnPlan(<<"inventaire">>, p, d, g)
         /\ \A m \in Moves : OnPlan(addRandomMove(m), p, d, g)
<1>1. \A c \in {"voir", "inventaire"} : Len(<<c>>) = 1 /\ <<c>>[1] = c
  OBVIOUS
<1>2. \A m \in Moves : Len(<<m, "voir">>) = 2 /\ <<m, "voir">>[1] = m /\ <<m, "voir">>[2] = "voir"
  OBVIOUS
<1>3. OnPlan(<<"voir">>, p, d, g) /\ OnPlan(<<"inventaire">>, p, d, g) /\ OnPlan(<<>>, p, d, g)
  BY <1>1 DEF OnPlan
<1>4. \A m \in Moves : OnPlan(addRandomMove(m), p, d, g)
  BY <1>2 DEF OnPlan, addRandomMove
<1> QED
  BY <1>3, <1>4

\* The three queues that the commands go through.
LEMMA TodoTypes ==
  ASSUME TypeOK
  PROVE  /\ requests \in Seq(Requests) /\ commands \in Seq(Requests)
         /\ requests \in Seq(Requests \cup {"login"}) /\ up \in Seq(Requests \cup {"login"})
         /\ commands \in Seq(Requests \cup {"login"})
         /\ Todo \in Seq(Requests \cup {"login"})
         /\ Len(Todo) = Len(requests) + Len(up) + Len(commands)
         /\ Len(requests) \in Nat /\ Len(up) \in Nat /\ Len(commands) \in Nat
         /\ Todo = <<>> => requests = <<>> /\ up = <<>> /\ commands = <<>>
<1> DEFINE S == Requests \cup {"login"}
<1>1. requests \in Seq(Requests) /\ up \in Seq(S) /\ commands \in Seq(Requests)
  BY DEF TypeOK
<1>2. \A s \in Seq(Requests) : s \in Seq(S)
  BY SeqMonotonic
<1>3. requests \in Seq(S) /\ commands \in Seq(S)
  BY <1>1, <1>2
<1> HIDE DEF S
<1>4. /\ Todo \in Seq(S) /\ Len(Todo) = Len(requests) + Len(up) + Len(commands)
      /\ Len(requests) \in Nat /\ Len(up) \in Nat /\ Len(commands) \in Nat
  BY <1>1, <1>3 DEF Todo
<1>5. Todo = <<>> => Len(requests) = 0 /\ Len(up) = 0 /\ Len(commands) = 0
  BY <1>4
<1>6. Todo = <<>> => requests = <<>> /\ up = <<>> /\ commands = <<>>
  BY <1>1, <1>3, <1>5
<1> QED
  BY <1>1, <1>3, <1>4, <1>6 DEF S

\* What the client adds to its queue is added to what is to be done, and some of it is sent.
LEMMA GoesOnFlow ==
  ASSUME TypeOK, NEW next \in Seq(Requests), GoesOn(next), requests' = requests
  PROVE  /\ Todo' = Todo \o next
         /\ \E n \in Nat : /\ pending' = pending - 1 + n /\ Len(up') = Len(up) + n
                           /\ commands' # <<>> => pending' >= MaxPending
                           /\ pending - 1 <= MaxPending => pending' <= MaxPending
<1> DEFINE S == Requests \cup {"login"}
           queue == commands \o next
<1>1. /\ requests \in Seq(S) /\ up \in Seq(S) /\ commands \in Seq(S) /\ next \in Seq(S)
      /\ pending - 1 \in Int
  <2>1. next \in Seq(S)
    BY SeqMonotonic
  <2>2. pending - 1 \in Int
    BY DEF TypeOK
  <2> QED
    BY <2>1, <2>2, TodoTypes
<1>2. queue \in Seq(Requests) /\ queue \in Seq(S)
  <2>1. queue \in Seq(Requests)
    BY TodoTypes
  <2> QED
    BY <2>1, SeqMonotonic
<1>3. PICK n \in Nat : Takes(queue, pending - 1, n)
  <2>1. Sends(queue, pending - 1)
    BY DEF GoesOn
  <2> HIDE DEF queue
  <2> QED
    BY <1>1, <1>2, <2>1, SendsTakes, Zenon
<1> DEFINE sent == SubSeq(queue, 1, n)
           rest == SubSeq(queue, n + 1, Len(queue))
<1>4. /\ n \in 0 .. Len(queue) /\ Len(queue) \in Nat
      /\ up' = up \o sent /\ commands' = rest /\ pending' = pending - 1 + n
      /\ n = Len(queue) \/ pending' >= MaxPending
      /\ pending - 1 <= MaxPending => pending' <= MaxPending
  <2>1. Len(queue) \in Nat
    BY <1>2
  <2> HIDE DEF queue
  <2> QED
    BY <1>3, <2>1 DEF Takes
<1> HIDE DEF queue, S
<1>5. /\ sent \in Seq(S) /\ Len(sent) = n /\ rest \in Seq(S) /\ sent \o rest = queue
  <2>1. \A i \in 1 .. Len(queue) : queue[i] \in S
    BY <1>2
  <2>2. sent \in Seq(S) /\ Len(sent) = n
    BY <1>4, <2>1, SubSeqProperties
  <2>3. rest \in Seq(S)
    BY <1>4, <2>1, SubSeqProperties
  <2>4. sent \o rest = SubSeq(queue, 1, Len(queue))
    <3>1. 1 \in 1 .. Len(queue) + 1 /\ n \in 1 - 1 .. Len(queue) /\ Len(queue) \in n .. Len(queue)
      BY <1>4
    <3> QED
      BY <1>2, <3>1, ConcatAdjacentSubSeq
  <2>5. SubSeq(queue, 1, Len(queue)) = queue
    BY <1>2, SubSeqFull
  <2> QED
    BY <2>2, <2>3, <2>4, <2>5
<1>6. n = Len(queue) => rest = <<>>
  BY <1>4, SubSeqEmpty
<1> HIDE DEF sent, rest
<1>7. Todo' = Todo \o next
  <2>1. \A s, t, u \in Seq(S) : (s \o t) \o u = s \o (t \o u)
    BY ConcatAssociative, SMTT(30)
  <2>2. \A s, t \in Seq(S) : s \o t \in Seq(S)
    BY ConcatProperties
  <2>3. Todo' = (requests \o (up \o sent)) \o rest
    BY <1>4 DEF Todo
  <2>4. (requests \o (up \o sent)) \o rest = ((requests \o up) \o sent) \o rest
    BY <1>1, <1>5, <2>1, ZenonT(30)
  <2> DEFINE front == requests \o up
  <2>7. front \in Seq(S)
    BY <1>1, <2>2, Zenon
  <2> HIDE DEF front
  <2>8. (front \o sent) \o rest = front \o (sent \o rest)
    BY <1>5, <2>1, <2>7, Zenon
  <2>9. front \o (commands \o next) = (front \o commands) \o next
    BY <1>1, <2>1, <2>7, Zenon
  <2>5. ((requests \o up) \o sent) \o rest = (requests \o up) \o (sent \o rest)
    BY <2>8 DEF front
  <2>6. (requests \o up) \o (commands \o next) = ((requests \o up) \o commands) \o next
    BY <2>9 DEF front
  <2> QED
    BY <1>5, <2>3, <2>4, <2>5, <2>6, Zenon DEF Todo, queue
<1>8. Len(up') = Len(up) + n
  <2>1. Len(up \o sent) = Len(up) + Len(sent)
    BY <1>1, <1>5, ConcatProperties
  <2> QED
    BY <1>4, <1>5, <2>1
<1> QED
  BY <1>4, <1>6, <1>7, <1>8

\* The limit of the client is not above the length of the server's queue: both are 10.
LimitFits == MaxPending <= MAX_EVENTS

LEMMA InitFlow == Init => FlowInv
BY DEF Init, FlowInv

LEMMA ServerFlow ==
  ASSUME LimitFits, TypeOK, SessionInv, FlowInv, ~dropped, Server
  PROVE  FlowInv' /\ ~dropped'
<1>1. /\ down \in Seq(Messages) /\ DOMAIN down = 1 .. Len(down) /\ Len(down) \in Nat
      /\ up \in Seq(Requests \cup {"login"}) /\ requests \in Seq(Requests)
      /\ commands \in Seq(Requests)
      /\ Len(up) \in Nat /\ Len(requests) \in Nat
      /\ MaxPending \in Nat /\ MAX_EVENTS \in Nat \ {0} /\ MaxPending <= MAX_EVENTS
  BY Constants DEF TypeOK, Messages, Replies, LimitFits
<1>2. ASSUME NEW welcome \in BOOLEAN, ServerLogsIn(welcome) PROVE FlowInv' /\ ~dropped'
  <2>1. joined = "no" /\ up = <<"login">> /\ down = <<>> /\ requests = <<>>
    BY <1>2, LogsInOnce
  <2>2. commands = <<>> /\ pending = 0
    BY <2>1 DEF SessionInv, BeforeLogin
  <2>3. /\ up' = <<>> /\ requests' = <<>> /\ commands' = <<>> /\ pending' = 0 /\ ~dropped'
        /\ joined' = "alive" => down' = <<Message("welcome")>>
    BY <1>2, <2>1, <2>2 DEF ServerLogsIn, history
  <2> QED
    BY <2>3 DEF FlowInv, JustWelcomed
<1>3. CASE ServerQueues
  <2>1. up # <<>> /\ Len(up) >= 1
    BY <1>1, <1>3 DEF ServerQueues
  <2>2. notes = 0 /\ joined = "alive" => Flowing
    BY <2>1 DEF FlowInv, JustWelcomed
  <2>3. notes = 0 /\ joined = "alive" => Len(requests) < MAX_EVENTS
    BY <1>1, <2>1, <2>2 DEF Flowing
  <2>4. ~dropped'
    <3>1. ~(notes = 0 /\ joined = "alive" /\ Len(requests) = MAX_EVENTS)
      BY <1>1, <2>3
    <3> QED
      BY <1>3, <3>1, Zenon DEF ServerQueues
  <2>5. ASSUME notes = 0, joined = "alive" PROVE Flowing'
    <3>1. /\ requests' = Append(requests, Head(up)) /\ up' = Tail(up)
          /\ commands' = commands /\ down' = down /\ pending' = pending
          /\ pos' = pos /\ dir' = dir /\ goal' = goal
      BY <1>3, <2>3, <2>5 DEF ServerQueues, place
    <3>2. Len(requests') = Len(requests) + 1 /\ Len(up') = Len(up) - 1
      BY <1>1, <2>1, <3>1
    <3>3. requests' \o up' = requests \o up
      <4> DEFINE S == Requests \cup {"login"}
      <4>1. requests \in Seq(S) /\ up \in Seq(S) /\ Head(up) \in S
        BY <1>1, <2>1, TodoTypes
      <4>2. <<Head(up)>> \in Seq(S) /\ Tail(up) \in Seq(S) /\ up = <<Head(up)>> \o Tail(up)
        BY <2>1, <4>1
      <4> HIDE DEF S
      <4>3. Append(requests, Head(up)) = requests \o <<Head(up)>>
        BY <4>1, AppendIsConcat
      <4>4. (requests \o <<Head(up)>>) \o Tail(up) = requests \o (<<Head(up)>> \o Tail(up))
        BY <4>1, <4>2, ConcatAssociative
      <4> QED
        BY <3>1, <4>2, <4>3, <4>4
    <3>4. Todo' = Todo
      BY <3>1, <3>3 DEF Todo
    <3>5. Flowing
      BY <2>2, <2>5
    <3>6. /\ pending' = Len(down') + Len(requests') + Len(up')
          /\ pending' <= MaxPending /\ (commands' # <<>> => pending' = MaxPending)
      <4>1. /\ pending = Len(down) + Len(requests) + Len(up)
            /\ pending <= MaxPending /\ (commands # <<>> => pending = MaxPending)
        BY <3>5 DEF Flowing
      <4>2. Len(down') = Len(down) /\ pending' = pending /\ commands' = commands
        BY <3>1
      <4> QED
        BY <1>1, <3>2, <4>1, <4>2
    <3>7. OnPlan(Todo', pos', dir', goal')
      BY <3>1, <3>4, <3>5 DEF Flowing
    <3>8. \A i \in DOMAIN down' :
             /\ down'[i].cmd \in Requests
             /\ down'[i].cmd = "voir" => /\ i = Len(down') /\ Todo' = <<>>
                                         /\ down'[i].pos = pos' /\ down'[i].dir = dir'
      BY <3>1, <3>4, <3>5 DEF Flowing
    <3> QED
      BY <3>6, <3>7, <3>8 DEF Flowing
  <2>6. notes' = notes /\ joined' = joined
    BY <1>3 DEF ServerQueues
  <2> QED
    BY <2>4, <2>5, <2>6 DEF FlowInv
<1>4. CASE ServerExecutes
  <2>1. notes' = notes /\ joined' = joined /\ dropped' = dropped
    BY <1>4 DEF ServerExecutes
  <2>2. ASSUME notes = 0, joined = "alive" PROVE Flowing'
    <3>1. requests # <<>> /\ Flowing
      BY <1>4, <2>2 DEF FlowInv, JustWelcomed, ServerExecutes
    <3> DEFINE cmd == Head(requests)
               msg == IF cmd = "voir" THEN View ELSE Message(cmd)
    <3>2. /\ down' = Append(down, msg) /\ requests' = Tail(requests)
          /\ up' = up /\ commands' = commands /\ pending' = pending
          /\ pos' = IF cmd = "avance" THEN Facing(pos, dir) ELSE pos
          /\ dir' = Turned(dir, cmd)
          /\ goal' = IF cmd = "prend" THEN <<0, 0>> ELSE goal
      BY <1>4 DEF ServerExecutes
    <3>3. /\ cmd \in Requests /\ Len(requests') = Len(requests) - 1 /\ Len(down') = Len(down) + 1
          /\ Len(requests) >= 1
      BY <1>1, <3>1, <3>2
    <3>4. Todo \in Seq(Requests \cup {"login"}) /\ Todo # <<>> /\ Head(Todo) = cmd /\ Todo' = Tail(Todo)
      <4> DEFINE S == Requests \cup {"login"}
                 q == up \o commands
      <4>1. requests \in Seq(S) /\ up \in Seq(S) /\ commands \in Seq(S)
        BY TodoTypes
      <4> HIDE DEF S
      <4>2. q \in Seq(S) /\ Tail(requests) \in Seq(S)
        BY <3>1, <4>1
      <4>3. Todo = requests \o q
        BY <4>1, ConcatAssociative DEF Todo
      <4>4. Todo' = Tail(requests) \o q
        <5>1. \A s, t, u \in Seq(S) : (s \o t) \o u = s \o (t \o u)
          BY ConcatAssociative
        <5>2. Todo' = (Tail(requests) \o up) \o commands
          BY <3>2 DEF Todo
        <5> QED
          BY <4>1, <4>2, <5>1, <5>2, ZenonT(30)
      <4> HIDE DEF q
      <4>5. /\ requests \o q \in Seq(S) /\ requests \o q # <<>> /\ Head(requests \o q) = cmd
            /\ Tail(requests \o q) = Tail(requests) \o q
        BY <3>1, <4>1, <4>2
      <4> QED
        BY <4>3, <4>4, <4>5 DEF S
    <3>5. Todo \in Seq(Requests)
      BY <2>2, <3>1, TodoTypes DEF SessionInv, Todo
    <3>6. /\ OnPlan(Todo', pos', dir', goal')
          /\ cmd \notin Moves => Todo' = <<>>
      <4>1. OnPlan(Todo, pos, dir, goal)
        BY <3>1 DEF Flowing
      <4> HIDE DEF cmd
      <4> QED
        BY <3>2, <3>4, <3>5, <4>1, OnPlanTail
    <3>7. /\ msg.cmd = cmd
          /\ cmd = "voir" => /\ msg.pos = pos' /\ msg.dir = dir' /\ cmd \notin Moves
      BY <3>2 DEF View, Message, Turned, Moves
    <3> HIDE DEF cmd, msg
    <3>8. \A i \in DOMAIN down' :
             /\ down'[i].cmd \in Requests
             /\ down'[i].cmd = "voir" => /\ i = Len(down') /\ Todo' = <<>>
                                         /\ down'[i].pos = pos' /\ down'[i].dir = dir'
      <4>1. \A i \in DOMAIN down : down[i].cmd \in Requests /\ down[i].cmd # "voir"
        BY <3>1, <3>4 DEF Flowing
      <4>2. /\ DOMAIN down' = 1 .. Len(down) + 1
            /\ \A i \in 1 .. Len(down) + 1 : down'[i] = IF i = Len(down) + 1 THEN msg ELSE down[i]
        BY <1>1, <3>2
      <4> QED
        BY <1>1, <3>3, <3>6, <3>7, <4>1, <4>2
    <3>9. /\ pending' = Len(down') + Len(requests') + Len(up')
          /\ pending' <= MaxPending /\ (commands' # <<>> => pending' = MaxPending)
      BY <1>1, <3>1, <3>2, <3>3 DEF Flowing
    <3> QED
      BY <3>6, <3>8, <3>9 DEF Flowing
  <2> QED
    BY <2>1, <2>2 DEF FlowInv
<1> QED
  BY <1>2, <1>3, <1>4 DEF Server

LEMMA OtherPlayersFlow ==
  ASSUME TypeOK, FlowInv, ~dropped, OtherPlayers PROVE FlowInv' /\ ~dropped'
<1>1. CASE ServerLetsDie
  BY <1>1 DEF ServerLetsDie, history, FlowInv
<1>2. CASE \E note \in Notes : Disturbed(note)
  <2>1. notes' = notes + 1 /\ dropped' = dropped /\ notes \in Nat
    BY <1>2, ClientSessionAssumption DEF Disturbed, TypeOK
  <2> QED
    BY <2>1 DEF FlowInv
<1> QED
  BY <1>1, <1>2 DEF OtherPlayers, Hears, IsExpelled, IsRaised, Notes

LEMMA ClientFlow ==
  ASSUME TypeOK, SessionInv, FlowInv, ~dropped, Client PROVE FlowInv' /\ ~dropped'
<1>1. /\ down \in Seq(Messages) /\ DOMAIN down = 1 .. Len(down) /\ Len(down) \in Nat
      /\ up \in Seq(Requests \cup {"login"}) /\ requests \in Seq(Requests)
      /\ commands \in Seq(Requests)
      /\ Len(up) \in Nat /\ Len(requests) \in Nat /\ Len(commands) \in Nat /\ pending \in Int
      /\ MaxPending \in Nat /\ MaxPending >= 2
  BY Constants, ClientSessionAssumption, TodoTypes DEF TypeOK, Messages, Replies
<1>2. Handled
  BY ClientKinds
<1>3. /\ Head(down) = down[1] /\ Len(down) >= 1 /\ 1 \in DOMAIN down
      /\ Len(down') = Len(down) - 1 /\ DOMAIN down' = 1 .. Len(down) - 1
      /\ \A i \in DOMAIN down' : i + 1 \in DOMAIN down /\ down'[i] = down[i + 1]
  BY <1>1, <1>2 DEF Handled
<1>4. /\ requests' = requests /\ pos' = pos /\ dir' = dir
      /\ notes' = notes /\ joined' = joined /\ dropped' = dropped
  BY <1>2 DEF Handled
<1>5. SUFFICES ASSUME notes = 0, joined = "alive" PROVE JustWelcomed' \/ Flowing'
  BY <1>4 DEF FlowInv
<1>6. CASE JustWelcomed
  <2>1. Head(down).cmd = "welcome" /\ down' = <<>> /\ Len(down') = 0
    BY <1>1, <1>2, <1>3, <1>6 DEF JustWelcomed, Message, Handled
  <2>2. handleWelcomeMsg
    BY <2>1, ClientKinds
       DEF handleBienvenueMsg, Receives, Closes, TakesNote, AnswerKind, ViewKind, Requests, Moves
  <2>3. up' = <<"voir">> /\ commands' = <<>> /\ pending' = 1 /\ requests' = <<>>
    BY <1>4, <1>6, <2>2 DEF handleWelcomeMsg, JustWelcomed
  <2>4. Todo' = <<"voir">>
    BY <2>3 DEF Todo
  <2>5. OnPlan(Todo', pos', dir', goal')
    BY <2>4, OtherPlans
  <2>6. pending' = Len(down') + Len(requests') + Len(up')
    BY <2>1, <2>3
  <2> QED
    BY <1>1, <2>1, <2>3, <2>5, <2>6 DEF Flowing
<1>7. CASE Flowing
  <2>1. /\ pending = Len(down) + Len(requests) + Len(up) /\ pending <= MaxPending
        /\ commands # <<>> => pending = MaxPending
        /\ Head(down).cmd \in Requests
        /\ Head(down).cmd = "voir" => /\ 1 = Len(down) /\ Todo = <<>>
                                      /\ Head(down).pos = pos /\ Head(down).dir = dir
        /\ OnPlan(Todo, pos, dir, goal)
    BY <1>3, <1>7 DEF Flowing
  <2>2. ~handleBienvenueMsg /\ ~handleWelcomeMsg /\ ~Closes
    BY <2>1 DEF handleBienvenueMsg, handleWelcomeMsg, Receives, Closes, Requests, Moves
  \* The messages that stay on their way.
  <2>3. ASSUME Head(down).cmd = "voir" PROVE DOMAIN down' = {} /\ Len(down') = 0
    BY <1>3, <2>1, <2>3
  <2>4. ASSUME Head(down).cmd # "voir", NEW t \in Seq(Requests \cup {"login"}), Todo = <<>> => t = <<>>
               , Todo' = t
        PROVE  \A i \in DOMAIN down' :
                  /\ down'[i].cmd \in Requests
                  /\ down'[i].cmd = "voir" => /\ i = Len(down') /\ Todo' = <<>>
                                              /\ down'[i].pos = pos' /\ down'[i].dir = dir'
    BY <1>1, <1>3, <1>4, <1>7, <2>4, SMTT(30) DEF Flowing
  <2>5. CASE TakesNote
    <3>1. Head(down).cmd = "voir" /\ Todo = <<>>
      BY <2>1, <2>5 DEF TakesNote, Requests, Moves
    <3>2. /\ up' = up /\ commands' = commands /\ goal' = goal /\ pending' = pending - 1
          /\ requests = <<>> /\ up = <<>> /\ commands = <<>>
      BY <2>5, <3>1, TodoTypes DEF TakesNote
    <3>3. Todo' = Todo
      BY <1>4, <3>2 DEF Todo
    <3>4. pending' = Len(down') + Len(requests') + Len(up') /\ pending' <= MaxPending
      BY <1>1, <1>3, <1>4, <2>1, <3>2
    <3> QED
      BY <1>4, <2>1, <2>3, <3>1, <3>2, <3>3, <3>4 DEF Flowing
  <2>6. ASSUME NEW next \in Seq(Requests), GoesOn(next)
        PROVE  /\ Todo' = Todo \o next
               /\ pending' = Len(down') + Len(requests') + Len(up')
               /\ pending' <= MaxPending /\ (commands' # <<>> => pending' = MaxPending)
    <3>1. Todo' = Todo \o next
      BY <1>4, <2>6, GoesOnFlow
    <3>2. PICK n \in Nat : /\ pending' = pending - 1 + n /\ Len(up') = Len(up) + n
                           /\ commands' # <<>> => pending' >= MaxPending
                           /\ pending - 1 <= MaxPending => pending' <= MaxPending
      BY <1>4, <2>6, GoesOnFlow
    <3>3. Len(requests') = Len(requests)
      BY <1>4
    <3> QED
      BY <1>1, <1>3, <2>1, <3>1, <3>2, <3>3, SMTT(30)
  <2>7. ASSUME NEW next \in Seq(Requests), AnswerKind(next) PROVE Flowing'
    <3>1. GoesOn(next) /\ Head(down).cmd # "voir" /\ goal' = goal
      BY <2>7 DEF AnswerKind
    <3>2. /\ Todo' = Todo \o next
          /\ pending' = Len(down') + Len(requests') + Len(up')
          /\ pending' <= MaxPending /\ (commands' # <<>> => pending' = MaxPending)
      BY <2>6, <3>1
    <3>3. CASE next = <<>>
      <4>1. Todo' = Todo /\ Todo \in Seq(Requests \cup {"login"})
        BY <3>2, <3>3, TodoTypes
      <4>2. OnPlan(Todo', pos', dir', goal')
        BY <1>4, <2>1, <3>1, <4>1
      <4> QED
        BY <2>4, <3>1, <3>2, <4>1, <4>2 DEF Flowing
    <3>4. CASE pending - 1 = 0 /\ \E m \in Moves : next = addRandomMove(m)
      <4>1. Len(down) = 1 /\ Len(requests) = 0 /\ Len(up) = 0 /\ commands = <<>>
        BY <1>1, <1>3, <2>1, <3>4
      <4>2. requests = <<>> /\ up = <<>>
        BY <1>1, <4>1
      <4>3. Todo' = next
        BY <3>2, <4>1, <4>2 DEF Todo
      <4>4. OnPlan(Todo', pos', dir', goal')
        BY <3>4, <4>3, OtherPlans
      <4>5. DOMAIN down' = {}
        BY <1>3, <4>1
      <4> QED
        BY <3>2, <4>4, <4>5 DEF Flowing
    <3> QED
      BY <2>7, <3>3, <3>4 DEF AnswerKind
  <2>8. ASSUME NEW plan \in Seq(Requests), ViewKind(plan) PROVE Flowing'
    <3>1. /\ GoesOn(plan) /\ Head(down).cmd = "voir" /\ Todo = <<>>
          /\ Head(down).pos = pos /\ Head(down).dir = dir /\ Decides(Head(down), plan)
      BY <2>1, <2>8 DEF ViewKind
    <3>2. /\ Todo' = Todo \o plan
          /\ pending' = Len(down') + Len(requests') + Len(up')
          /\ pending' <= MaxPending /\ (commands' # <<>> => pending' = MaxPending)
      BY <2>6, <3>1
    <3>3. Todo' = plan
      BY <3>1, <3>2
    <3>4. OnPlan(plan, pos, dir, goal')
      <4>1. ASSUME NEW t \in Targets, plan = addMovesToTile(t), goal' = VisionTile(pos, dir, t)
            PROVE  OnPlan(plan, pos, dir, goal')
        <5>1. pos \in Tiles /\ dir \in Directions
          BY DEF TypeOK
        <5> QED
          BY <4>1, <5>1, PlanLeads
      <4>2. \/ \E t \in Targets : plan = addMovesToTile(t) /\ goal' = VisionTile(pos, dir, t)
            \/ \E m \in Moves : plan = addRandomMove(m)
            \/ plan = <<"inventaire">>
        BY <1>5, <3>1 DEF Decides
      <4> QED
        BY <4>1, <4>2, OtherPlans
    <3> QED
      BY <1>4, <2>3, <3>1, <3>2, <3>3, <3>4 DEF Flowing
  <2> QED
    BY <2>2, <2>5, <2>7, <2>8, ClientKinds
<1> QED
  BY <1>5, <1>6, <1>7 DEF FlowInv

LEMMA NextFlow ==
  ASSUME LimitFits, TypeOK, SessionInv, FlowInv, ~dropped, [Next]_vars PROVE FlowInv' /\ ~dropped'
<1>1. CASE Server \/ OtherPlayers \/ Client
  BY <1>1, ServerFlow, OtherPlayersFlow, ClientFlow
<1>2. CASE onClose
  BY <1>2 DEF onClose, history, FlowInv
<1>3. CASE UNCHANGED vars
  BY <1>3 DEF vars, player, place, mind, history, FlowInv, JustWelcomed, Flowing, Todo
<1> QED
  BY <1>1, <1>2, <1>3 DEF Next

(***************************************************************************)
(* No command of an undisturbed client meets a full queue in               *)
(* game_execute_command, as long as the limit of handleResponse is not     *)
(* above MAX_EVENTS.                                                       *)
(***************************************************************************)
THEOREM DroppedCorrect == ASSUME LimitFits PROVE Spec => []NothingDropped
<1> DEFINE Inv == TypeOK /\ SessionInv /\ FlowInv /\ ~dropped
<1>1. Init => Inv
  BY InitTypes, InitSession, InitFlow DEF Init
<1>2. Inv /\ [Next]_vars => Inv'
  BY NextTypes, NextSession, NextFlow
<1>3. Inv => NothingDropped
  BY DEF NothingDropped
<1> QED
  BY <1>1, <1>2, <1>3, PTL DEF Spec

(***************************************************************************)
(* When the server executes the prend of an undisturbed client, the player *)
(* stands on the tile that m_command_voir listed at the place which        *)
(* getMovesToTile made a way to.                                           *)
(***************************************************************************)
THEOREM ArrivesCorrect == ASSUME LimitFits PROVE Spec => []Arrives
<1> DEFINE Inv == TypeOK /\ SessionInv /\ FlowInv /\ ~dropped
<1>1. Init => Inv
  BY InitTypes, InitSession, InitFlow DEF Init
<1>2. Inv /\ [Next]_vars => Inv'
  BY NextTypes, NextSession, NextFlow
<1>3. Inv => Arrives
  <2> SUFFICES ASSUME Inv, notes = 0, requests # <<>>, Head(requests) = "prend" PROVE pos = goal
    BY DEF Arrives
  <2>1. Flowing
    BY DEF SessionInv, FlowInv, JustWelcomed
  <2> DEFINE n == Len(Todo)
  <2>2. /\ OnPlan(Todo, pos, dir, goal) /\ n \in Nat /\ n >= 1 /\ Todo[1] = "prend"
    <3>1. /\ requests \in Seq(Requests \cup {"login"}) /\ up \in Seq(Requests \cup {"login"})
          /\ commands \in Seq(Requests \cup {"login"})
      BY TodoTypes
    <3>2. Len(requests) \in Nat /\ Len(requests) >= 1 /\ requests[1] = "prend"
      BY <3>1
    <3>3. n = Len(requests) + Len(up) + Len(commands) /\ Len(up) \in Nat /\ Len(commands) \in Nat
      BY TodoTypes
    <3>4. Todo[1] = requests[1]
      BY <3>1, <3>2 DEF Todo
    <3>5. n \in Nat /\ n >= 1
      <4> HIDE DEF n
      <4> QED
        BY <3>2, <3>3
    <3> QED
      BY <2>1, <3>2, <3>4, <3>5 DEF Flowing
  <2> HIDE DEF n
  <2>3. n = 1
    <3>1. \A i \in 1 .. n - 1 : Todo[i] \in Moves
      BY <2>2 DEF OnPlan, n
    <3> QED
      BY <2>2, <3>1 DEF Moves
  <2>4. Leads(Todo, pos, dir, goal)
    BY <2>2, <2>3 DEF OnPlan, n
  <2> QED
    BY <2>3, <2>4 DEF Leads, n
<1> QED
  BY <1>1, <1>2, <1>3, PTL DEF Spec

----------------------------------------------------------------------------
(* The client's map *)

\* Where a player that started at s has tile t on its map, and how it stands on it.
FromStart(s, t) == rotate(t[1] - s[1][1], t[2] - s[1][2], (4 - s[2]) % 4)

Placed(s, t) == At(<<0, 0>>, FromStart(s, t)[1], FromStart(s, t)[2])

Standing(s, t, d) == <<Placed(s, t), (d + (4 - s[2])) % 4>>

\* Turning an offset twice.
LEMMA RotateTwice ==
  ASSUME NEW x \in Int, NEW y \in Int, NEW d \in Directions, NEW k \in Directions
  PROVE  /\ rotate(x, y, d)[1] \in Int /\ rotate(x, y, d)[2] \in Int
         /\ rotate(rotate(x, y, d)[1], rotate(x, y, d)[2], k) = rotate(x, y, (d + k) % 4)
<1>1. d \in {0, 1, 2, 3} /\ k \in {0, 1, 2, 3}
  BY DEF Directions
<1>2. /\ rotate(x, y, 0) = <<x, y>> /\ rotate(x, y, 1) = <<-y, x>>
      /\ rotate(x, y, 2) = <<-x, -y>> /\ rotate(x, y, 3) = <<y, -x>>
  BY DEF rotate
<1>3. rotate(x, y, d)[1] \in Int /\ rotate(x, y, d)[2] \in Int
  BY <1>1, <1>2
<1>4. ASSUME NEW a \in Int, NEW b \in Int
      PROVE  /\ rotate(a, b, 0) = <<a, b>> /\ rotate(a, b, 1) = <<-b, a>>
             /\ rotate(a, b, 2) = <<-a, -b>> /\ rotate(a, b, 3) = <<b, -a>>
  BY DEF rotate
<1>5. -x \in Int /\ -y \in Int /\ -(-x) = x /\ -(-y) = y
  OBVIOUS
<1>6. CASE d = 0
  BY <1>1, <1>2, <1>6
<1>7. CASE d = 1
  <2>1. /\ rotate(-y, x, 0) = <<-y, x>> /\ rotate(-y, x, 1) = <<-x, -y>>
        /\ rotate(-y, x, 2) = <<y, -x>> /\ rotate(-y, x, 3) = <<x, y>>
    BY <1>4, <1>5
  <2> QED
    BY <1>1, <1>2, <1>7, <2>1
<1>8. CASE d = 2
  <2>1. /\ rotate(-x, -y, 0) = <<-x, -y>> /\ rotate(-x, -y, 1) = <<y, -x>>
        /\ rotate(-x, -y, 2) = <<x, y>> /\ rotate(-x, -y, 3) = <<-y, x>>
    BY <1>4, <1>5
  <2> QED
    BY <1>1, <1>2, <1>8, <2>1
<1>9. CASE d = 3
  <2>1. /\ rotate(y, -x, 0) = <<y, -x>> /\ rotate(y, -x, 1) = <<x, y>>
        /\ rotate(y, -x, 2) = <<-y, x>> /\ rotate(y, -x, 3) = <<-x, -y>>
    BY <1>4, <1>5
  <2> QED
    BY <1>1, <1>2, <1>9, <2>1
<1> QED
  BY <1>1, <1>3, <1>6, <1>7, <1>8, <1>9

\* A step on a square map is a turned step on the client's map.
LEMMA PlacedMoves ==
  ASSUME MapX = MapY, NEW s \in Tiles \X Directions, NEW t \in Tiles, NEW a \in Int, NEW b \in Int
  PROVE  LET r == rotate(a, b, (4 - s[2]) % 4)
         IN  Placed(s, At(t, a, b)) = At(Placed(s, t), r[1], r[2])
<1> DEFINE k == (4 - s[2]) % 4
           x == t[1] - s[1][1]
           y == t[2] - s[1][2]
           u == ((t[1] + a) % MapX) - s[1][1]
           v == ((t[2] + b) % MapX) - s[1][2]
           o == <<0, 0>>
<1>1. /\ MapX \in Nat \ {0} /\ t[1] \in Int /\ t[2] \in Int
      /\ s[1][1] \in Int /\ s[1][2] \in Int /\ k \in {0, 1, 2, 3}
  BY MapAssumption DEF Tiles, Directions
<1>2. o \in Tiles
  BY MapAssumption DEF Tiles
<1>3. ASSUME NEW z \in Int, NEW c \in Int
      PROVE  /\ (0 + ((z % MapX) - c)) % MapX = (0 + (z - c)) % MapX
             /\ (0 + (-((z % MapX) - c))) % MapX = (0 + (-(z - c))) % MapX
  <2>1. -c \in Int /\ z % MapX \in Int
    BY <1>1
  <2>2. ((-c) + (z % MapX)) % MapX = ((-c) + z) % MapX
    BY <1>1, <2>1, RemainderOfSum, ZenonT(30)
  <2>3. (c - (z % MapX)) % MapX = (c - z) % MapX
    BY <1>1, RemainderOfSum, ZenonT(30)
  <2> DEFINE w == z % MapX
  <2> HIDE DEF w
  <2>4. /\ 0 + (w - c) = (-c) + w /\ 0 + (z - c) = (-c) + z
        /\ 0 + (-(w - c)) = c - w /\ 0 + (-(z - c)) = c - z
    BY <2>1 DEF w
  <2> QED
    BY <2>2, <2>3, <2>4 DEF w
<1>4. /\ (0 + u) % MapX = (0 + (x + a)) % MapX /\ (0 + (-u)) % MapX = (0 + ((-x) + (-a))) % MapX
      /\ (0 + v) % MapX = (0 + (y + b)) % MapX /\ (0 + (-v)) % MapX = (0 + ((-y) + (-b))) % MapX
  <2>1. /\ t[1] + a \in Int /\ t[2] + b \in Int
        /\ (t[1] + a) - s[1][1] = x + a /\ (t[2] + b) - s[1][2] = y + b
        /\ -(x + a) = (-x) + (-a) /\ -(y + b) = (-y) + (-b)
    BY <1>1
  <2>2. /\ (0 + u) % MapX = (0 + ((t[1] + a) - s[1][1])) % MapX
        /\ (0 + (-u)) % MapX = (0 + (-((t[1] + a) - s[1][1]))) % MapX
    BY <1>1, <1>3, <2>1, ZenonT(30)
  <2>3. /\ (0 + v) % MapX = (0 + ((t[2] + b) - s[1][2])) % MapX
        /\ (0 + (-v)) % MapX = (0 + (-((t[2] + b) - s[1][2]))) % MapX
    BY <1>1, <1>3, <2>1, ZenonT(30)
  <2> HIDE DEF u, v, x, y
  <2> QED
    BY <2>1, <2>2, <2>3
<1>5. /\ u \in Int /\ v \in Int /\ x \in Int /\ y \in Int
      /\ -x \in Int /\ -y \in Int /\ -a \in Int /\ -b \in Int
  BY <1>1
<1>6. FromStart(s, At(t, a, b)) = rotate(u, v, k) /\ FromStart(s, t) = rotate(x, y, k)
  BY DEF FromStart, At
<1> HIDE DEF u, v, x, y, k
<1>7. ASSUME NEW i \in Int, NEW j \in Int, NEW c \in Int, NEW e \in Int
      PROVE  At(At(o, i, j), c, e) = At(o, i + c, j + e)
  BY <1>2, AtAt
<1>8. ASSUME NEW i \in Int, NEW j \in Int, NEW c \in Int, NEW e \in Int,
             (0 + i) % MapX = (0 + c) % MapX, (0 + j) % MapX = (0 + e) % MapX
      PROVE  At(o, i, j) = At(o, c, e)
  BY <1>8 DEF At
<1> HIDE DEF o
<1>9. ASSUME NEW i \in Int, NEW j \in Int
      PROVE  /\ rotate(i, j, 0) = <<i, j>> /\ rotate(i, j, 1) = <<-j, i>>
             /\ rotate(i, j, 2) = <<-i, -j>> /\ rotate(i, j, 3) = <<j, -i>>
  BY DEF rotate
<1>10. -u \in Int /\ -v \in Int
  BY <1>5
<1>11. /\ At(o, u, v) = At(At(o, x, y), a, b)
       /\ At(o, -v, u) = At(At(o, -y, x), -b, a)
       /\ At(o, -u, -v) = At(At(o, -x, -y), -a, -b)
       /\ At(o, v, -u) = At(At(o, y, -x), b, -a)
  <2> DEFINE xa == x + a
             yb == y + b
             nxa == (-x) + (-a)
             nyb == (-y) + (-b)
             nu == -u
             nv == -v
  <2>1. xa \in Int /\ yb \in Int /\ nxa \in Int /\ nyb \in Int /\ nu \in Int /\ nv \in Int
    BY <1>5
  <2>2. /\ (0 + u) % MapX = (0 + xa) % MapX /\ (0 + nu) % MapX = (0 + nxa) % MapX
        /\ (0 + v) % MapX = (0 + yb) % MapX /\ (0 + nv) % MapX = (0 + nyb) % MapX
    BY <1>4
  <2> DEFINE nx == -x
             ny == -y
             na == -a
             nb == -b
  <2>3. nx \in Int /\ ny \in Int /\ na \in Int /\ nb \in Int /\ nxa = nx + na /\ nyb = ny + nb
    BY <1>5
  <2> HIDE DEF nxa, nyb, nu, nv, nx, ny, na, nb
  <2>4. At(At(o, x, y), a, b) = At(o, x + a, y + b)
    BY <1>5, <1>7
  <2>5. At(At(o, ny, x), nb, a) = At(o, nyb, x + a)
    BY <1>5, <1>7, <2>3
  <2>6. At(At(o, nx, ny), na, nb) = At(o, nxa, nyb)
    BY <1>5, <1>7, <2>3
  <2>7. At(At(o, y, nx), b, na) = At(o, y + b, nxa)
    BY <1>5, <1>7, <2>3
  <2> HIDE DEF xa, yb
  <2>8. At(o, u, v) = At(o, xa, yb) /\ At(o, nv, u) = At(o, nyb, xa)
    BY <1>5, <1>8, <2>1, <2>2
  <2>9. At(o, nu, nv) = At(o, nxa, nyb) /\ At(o, v, nu) = At(o, yb, nxa)
    BY <1>5, <1>8, <2>1, <2>2
  <2> QED
    BY <2>4, <2>5, <2>6, <2>7, <2>8, <2>9, Zenon DEF nu, nv, nx, ny, na, nb, xa, yb
<1>12. LET r == rotate(a, b, k)
       IN  Placed(s, At(t, a, b)) = At(Placed(s, t), r[1], r[2])
  <2>1. /\ Placed(s, At(t, a, b)) = At(o, rotate(u, v, k)[1], rotate(u, v, k)[2])
        /\ Placed(s, t) = At(o, rotate(x, y, k)[1], rotate(x, y, k)[2])
    BY <1>6 DEF Placed, o
  <2>2. k = 0 \/ k = 1 \/ k = 2 \/ k = 3
    BY <1>1
  <2>3. /\ rotate(u, v, 0) = <<u, v>> /\ rotate(u, v, 1) = <<-v, u>>
        /\ rotate(u, v, 2) = <<-u, -v>> /\ rotate(u, v, 3) = <<v, -u>>
    BY <1>5, <1>9, Zenon
  <2>4. /\ rotate(x, y, 0) = <<x, y>> /\ rotate(x, y, 1) = <<-y, x>>
        /\ rotate(x, y, 2) = <<-x, -y>> /\ rotate(x, y, 3) = <<y, -x>>
    BY <1>5, <1>9, Zenon
  <2>5. /\ rotate(a, b, 0) = <<a, b>> /\ rotate(a, b, 1) = <<-b, a>>
        /\ rotate(a, b, 2) = <<-a, -b>> /\ rotate(a, b, 3) = <<b, -a>>
    BY <1>9, Zenon
  <2> QED
    BY <1>11, <2>1, <2>2, <2>3, <2>4, <2>5
<1> QED
  BY <1>12 DEF k

\* What a player makes out at an offset ahead of it is at the same offset for its client.
LEMMA SameOffset ==
  ASSUME MapX = MapY, NEW s \in Tiles \X Directions, NEW t \in Tiles, NEW d \in Directions,
         NEW x \in Int, NEW y \in Int
  PROVE  LET e == Standing(s, t, d)[2]
         IN  At(Standing(s, t, d)[1], rotate(x, y, e)[1], rotate(x, y, e)[2]) =
                Placed(s, At(t, rotate(x, y, d)[1], rotate(x, y, d)[2]))
<1> DEFINE k == (4 - s[2]) % 4
           r == rotate(x, y, d)
           e == (d + (4 - s[2])) % 4
<1>1. k \in Directions /\ e = (d + k) % 4
  <2>1. s[2] \in {0, 1, 2, 3} /\ d \in {0, 1, 2, 3}
    BY DEF Directions
  <2> QED
    BY <2>1 DEF Directions
<1> HIDE DEF k, e, r
<1>2. r[1] \in Int /\ r[2] \in Int /\ rotate(r[1], r[2], k) = rotate(x, y, e)
  BY <1>1, RotateTwice DEF r
<1>3. Placed(s, At(t, r[1], r[2])) = At(Placed(s, t), rotate(x, y, e)[1], rotate(x, y, e)[2])
  BY <1>2, PlacedMoves DEF k
<1> QED
  BY <1>3 DEF Standing, e, r

\* The client's account of a move, from a place that corresponds to the player's.
Account(c, cmd) ==
    IF cmd = "welcome" THEN <<<<0, 0>>, 0>>
    ELSE <<IF cmd = "avance" THEN Facing(c[1], c[2]) ELSE c[1], Turned(c[2], cmd)>>

LEMMA AccountsAgree ==
  ASSUME MapX = MapY, NEW s \in Tiles \X Directions, NEW t \in Tiles, NEW d \in Directions,
         NEW cmd, cmd # "welcome"
  PROVE  Account(Standing(s, t, d), cmd) =
            Standing(s, IF cmd = "avance" THEN Facing(t, d) ELSE t, Turned(d, cmd))
<1> DEFINE e == (d + (4 - s[2])) % 4
           c == Standing(s, t, d)
<1>1. d \in {0, 1, 2, 3} /\ s[2] \in {0, 1, 2, 3} /\ e \in {0, 1, 2, 3}
  BY DEF Directions
<1>2. Turned(e, cmd) = (Turned(d, cmd) + (4 - s[2])) % 4
  <2>1. (e + 1) % 4 = (((d + 1) % 4) + (4 - s[2])) % 4
    BY <1>1
  <2>2. (e + 3) % 4 = (((d + 3) % 4) + (4 - s[2])) % 4
    BY <1>1
  <2> QED
    BY <2>1, <2>2 DEF Turned
<1>3. c = <<Placed(s, t), e>>
  BY DEF Standing
<1> HIDE DEF e, c
<1>4. Facing(c[1], c[2]) = Placed(s, Facing(t, d))
  <2>1. ASSUME NEW u, NEW i \in {0, 1, 2, 3}
        PROVE  Facing(u, i) = At(u, rotate(0, -1, i)[1], rotate(0, -1, i)[2])
    <3>1. /\ rotate(0, -1, 0) = <<0, -1>> /\ rotate(0, -1, 1) = <<1, 0>>
          /\ rotate(0, -1, 2) = <<0, 1>> /\ rotate(0, -1, 3) = <<-1, 0>>
      BY DEF rotate
    <3> QED
      BY <3>1 DEF Facing
  <2>2. At(c[1], rotate(0, -1, c[2])[1], rotate(0, -1, c[2])[2]) =
           Placed(s, At(t, rotate(0, -1, d)[1], rotate(0, -1, d)[2]))
    <3>1. 0 \in Int /\ -1 \in Int
      OBVIOUS
    <3> QED
      BY <3>1, SameOffset, ZenonT(30) DEF c
  <2>3. c[2] = e
    BY <1>3
  <2>4. /\ Facing(c[1], e) = At(c[1], rotate(0, -1, e)[1], rotate(0, -1, e)[2])
        /\ Facing(t, d) = At(t, rotate(0, -1, d)[1], rotate(0, -1, d)[2])
    BY <1>1, <2>1
  <2> QED
    BY <2>2, <2>3, <2>4
<1> QED
  BY <1>2, <1>3, <1>4 DEF Account, Standing, c, e

\* The place where the player starts is the client's origin.
LEMMA StartIsOrigin ==
  ASSUME NEW s \in Tiles \X Directions
  PROVE  Standing(s, s[1], s[2]) = <<<<0, 0>>, 0>>
<1>1. /\ s[2] \in {0, 1, 2, 3} /\ s[1][1] \in Int /\ s[1][2] \in Int
      /\ MapX \in Nat \ {0} /\ MapY \in Nat \ {0}
  BY MapAssumption DEF Tiles, Directions
<1>2. (4 - s[2]) % 4 \in {0, 1, 2, 3} /\ (s[2] + (4 - s[2])) % 4 = 0
  BY <1>1
<1>3. \A k \in {0, 1, 2, 3} : rotate(0, 0, k) = <<0, 0>>
  BY DEF rotate
<1>4. FromStart(s, s[1]) = <<0, 0>>
  <2>1. s[1][1] - s[1][1] = 0 /\ s[1][2] - s[1][2] = 0
    BY <1>1
  <2> QED
    BY <1>2, <1>3, <2>1 DEF FromStart
<1>5. Placed(s, s[1]) = <<0, 0>>
  BY <1>1, <1>4 DEF Placed, At
<1> QED
  BY <1>2, <1>5 DEF Standing

\* The tiles of a view are at offsets ahead of the player.
LEMMA VisionTurned ==
  ASSUME NEW t \in Tiles, NEW d \in Directions, NEW idx \in Nat
  PROVE  VisionTile(t, d, idx) = At(t, rotate(Side(idx), -Row(idx), d)[1],
                                       rotate(Side(idx), -Row(idx), d)[2])
<1> DEFINE r == Row(idx)
           x == Side(idx)
<1>1. r \in Int /\ x \in Int
  BY RowAndSide
<1>2. /\ d = 0 => VisionTile(t, d, idx) = At(t, x, -r)
      /\ d = 1 => VisionTile(t, d, idx) = At(t, r, x)
      /\ d = 2 => VisionTile(t, d, idx) = At(t, -x, r)
      /\ d = 3 => VisionTile(t, d, idx) = At(t, -r, -x)
  BY DEF VisionTile
<1> HIDE DEF r, x
<1>3. /\ rotate(x, -r, 0) = <<x, -r>> /\ rotate(x, -r, 1) = <<r, x>>
      /\ rotate(x, -r, 2) = <<-x, r>> /\ rotate(x, -r, 3) = <<-r, -x>>
  BY <1>1 DEF rotate
<1>4. d \in {0, 1, 2, 3}
  BY DEF Directions
<1>5. VisionTile(t, d, idx) = At(t, rotate(x, -r, d)[1], rotate(x, -r, d)[2])
  BY <1>2, <1>3, <1>4
<1> QED
  BY <1>5 DEF r, x

(***************************************************************************)
(* The client is where it says, and each message under way leads it from   *)
(* one place of the track to the next: a view was seen from the place that *)
(* it finds the client at, and the last place is the player's.             *)
(***************************************************************************)
Follows(track) ==
    /\ track[1] = <<cpos, cdir>>
    /\ \A i \in DOMAIN down :
          /\ track[i + 1] = Account(track[i], down[i].cmd)
          /\ down[i].cmd = "voir" => track[i] = Standing(start, down[i].pos, down[i].dir)
    /\ track[Len(down) + 1] = Standing(start, pos, dir)

\* Nothing arrives any more, at either end.
Lost == ~open /\ joined # "alive" /\ up = <<>> /\ down = <<>> /\ requests = <<>>

Tracked == \E track : Follows(track)

MapInv == kicked \/ Lost \/ Tracked

\* A message that is added, for a move of the player or for none.
LEMMA TrackGrows ==
  ASSUME TypeOK, Tracked, NEW m, down' = Append(down, m),
         cpos' = cpos, cdir' = cdir, start' = start,
         Account(Standing(start, pos, dir), m.cmd) = Standing(start, pos', dir'),
         m.cmd = "voir" => Standing(start, m.pos, m.dir) = Standing(start, pos, dir)
  PROVE  Tracked'
<1> DEFINE n == Len(down)
<1>1. /\ down \in Seq(Messages) /\ n \in Nat /\ DOMAIN down = 1 .. n
      /\ DOMAIN down' = 1 .. n + 1 /\ Len(down') = n + 1
      /\ \A i \in 1 .. n : down'[i] = down[i]
      /\ down'[n + 1] = m
  BY DEF TypeOK, Messages, Replies
<1>2. PICK track : Follows(track)
  BY DEF Tracked
<1>2a. PICK longer : longer = [i \in Nat |-> IF i <= n + 1 THEN track[i] ELSE Standing(start, pos', dir')]
  OBVIOUS
<1> HIDE DEF n
<1>3. /\ longer[1] = track[1] /\ longer[n + 1] = track[n + 1]
      /\ longer[n + 2] = Standing(start, pos', dir')
      /\ \A i \in 1 .. n : longer[i] = track[i] /\ longer[i + 1] = track[i + 1]
  BY <1>1, <1>2a
<1>4. /\ track[1] = <<cpos, cdir>>
      /\ \A i \in 1 .. n :
            /\ track[i + 1] = Account(track[i], down[i].cmd)
            /\ down[i].cmd = "voir" => track[i] = Standing(start, down[i].pos, down[i].dir)
      /\ track[n + 1] = Standing(start, pos, dir)
  BY <1>1, <1>2 DEF Follows, n
<1>5. \A i \in 1 .. n :
         /\ longer[i + 1] = Account(longer[i], down'[i].cmd)
         /\ down'[i].cmd = "voir" => longer[i] = Standing(start', down'[i].pos, down'[i].dir)
  BY <1>1, <1>3, <1>4
<1>6. /\ longer[(n + 1) + 1] = Account(longer[n + 1], down'[n + 1].cmd)
      /\ down'[n + 1].cmd = "voir" =>
            longer[n + 1] = Standing(start', down'[n + 1].pos, down'[n + 1].dir)
      /\ longer[(n + 1) + 1] = Standing(start', pos', dir')
  <2>1. (n + 1) + 1 = n + 2
    BY <1>1
  <2> QED
    BY <1>1, <1>3, <1>4, <2>1
<1>7. Follows(longer)'
  <2>1. \A i \in DOMAIN down' : i \in 1 .. n \/ i = n + 1
    BY <1>1
  <2>2. \A i \in DOMAIN down' :
           /\ longer[i + 1] = Account(longer[i], down'[i].cmd)
           /\ down'[i].cmd = "voir" => longer[i] = Standing(start', down'[i].pos, down'[i].dir)
    BY <1>5, <1>6, <2>1, Zenon
  <2>3. longer[1] = <<cpos', cdir'>> /\ longer[Len(down') + 1] = Standing(start', pos', dir')
    BY <1>1, <1>3, <1>4, <1>6
  <2> QED
    BY <2>2, <2>3 DEF Follows
<1> QED
  BY <1>7 DEF Tracked

\* A message that the client takes and accounts for.
LEMMA TrackShrinks ==
  ASSUME TypeOK, Tracked, Handled, <<cpos', cdir'>> = Account(<<cpos, cdir>>, Head(down).cmd)
  PROVE  Tracked'
<1> DEFINE n == Len(down)
<1>1. /\ down \in Seq(Messages) /\ n \in Nat /\ n >= 1 /\ DOMAIN down = 1 .. n
      /\ DOMAIN down' = 1 .. n - 1 /\ Len(down') = n - 1
      /\ \A i \in 1 .. n - 1 : down'[i] = down[i + 1]
      /\ Head(down) = down[1]
  BY DEF TypeOK, Messages, Replies, Handled
<1>2. PICK track : Follows(track)
  BY DEF Tracked
<1> DEFINE rest == [i \in Nat |-> track[i + 1]]
<1> HIDE DEF n
<1>3. rest[1] = track[2] /\ rest[n] = track[n + 1]
      /\ \A i \in 1 .. n - 1 : rest[i] = track[i + 1] /\ rest[i + 1] = track[(i + 1) + 1]
  <2>1. 1 + 1 = 2 /\ 1 \in Nat /\ \A i \in 1 .. n : i \in Nat /\ i + 1 \in Nat
    BY <1>1
  <2>2. \A i \in Nat : rest[i] = track[i + 1]
    OBVIOUS
  <2> HIDE DEF rest
  <2>3. n \in 1 .. n /\ \A i \in 1 .. n - 1 : i \in 1 .. n
    BY <1>1
  <2> QED
    BY <2>1, <2>2, <2>3
<1> HIDE DEF rest
<1>4. /\ track[1] = <<cpos, cdir>>
      /\ \A i \in 1 .. n :
            /\ track[i + 1] = Account(track[i], down[i].cmd)
            /\ down[i].cmd = "voir" => track[i] = Standing(start, down[i].pos, down[i].dir)
      /\ track[n + 1] = Standing(start, pos, dir)
  BY <1>1, <1>2 DEF Follows, n
<1>5. start' = start /\ pos' = pos /\ dir' = dir
  BY DEF Handled
<1>6. track[2] = <<cpos', cdir'>>
  <2>1. 1 \in 1 .. n /\ 1 + 1 = 2
    BY <1>1
  <2> QED
    BY <1>1, <1>4, <2>1
<1>7. \A i \in 1 .. n - 1 :
         /\ rest[i + 1] = Account(rest[i], down'[i].cmd)
         /\ down'[i].cmd = "voir" => rest[i] = Standing(start', down'[i].pos, down'[i].dir)
  <2>1. \A i \in 1 .. n - 1 : i + 1 \in 1 .. n
    BY <1>1
  <2> QED
    BY <1>1, <1>3, <1>4, <1>5, <2>1
<1>8. Follows(rest)'
  <2>1. (n - 1) + 1 = n
    BY <1>1
  <2> QED
    BY <1>1, <1>3, <1>4, <1>5, <1>6, <1>7, <2>1 DEF Follows
<1> QED
  BY <1>8 DEF Tracked

LEMMA InitMap == Init => MapInv
<1> SUFFICES ASSUME Init PROVE Tracked
  BY DEF MapInv
<1> DEFINE o == <<<<0, 0>>, 0>>
           track == [i \in Nat |-> o]
<1>1. Standing(start, pos, dir) = o
  <2>1. start \in Tiles \X Directions
    BY ClientSessionAssumption DEF Init
  <2> QED
    BY <2>1, StartIsOrigin DEF Init
<1>2. /\ DOMAIN down = {1} /\ Len(down) = 1 /\ down[1].cmd = "bienvenue"
      /\ <<cpos, cdir>> = o
  BY DEF Init, Message
<1>3. Account(o, "bienvenue") = o
  BY DEF Account, Turned
<1>4. track[1] = o /\ track[1 + 1] = o
  OBVIOUS
<1> HIDE DEF o, track
<1>5. Follows(track)
  BY <1>1, <1>2, <1>3, <1>4 DEF Follows
<1> QED
  BY <1>5 DEF Tracked

LEMMA ServerMap ==
  ASSUME MapX = MapY, TypeOK, SessionInv, ~kicked, Tracked, Server PROVE Tracked'
<1>1. start \in Tiles \X Directions /\ pos \in Tiles /\ dir \in Directions
  BY ClientSessionAssumption DEF TypeOK
<1>2. ASSUME NEW welcome \in BOOLEAN, ServerLogsIn(welcome) PROVE Tracked'
  <2>1. joined = "no" /\ up = <<"login">> /\ down = <<>> /\ requests = <<>>
    BY <1>2, LogsInOnce
  <2>2. pos = start[1] /\ dir = start[2]
    BY <2>1 DEF SessionInv, BeforeLogin
  <2> DEFINE o == <<<<0, 0>>, 0>>
  <2>3. Standing(start, pos, dir) = o
    BY <1>1, <2>2, StartIsOrigin
  <2>4. cpos' = cpos /\ cdir' = cdir /\ pos' = pos /\ dir' = dir /\ start' = start
    BY <1>2 DEF ServerLogsIn, place, mind, history
  <2>5. <<cpos, cdir>> = o
    <3>1. PICK track : Follows(track)
      BY DEF Tracked
    <3>2. Len(down) + 1 = 1
      BY <2>1
    <3> QED
      BY <2>3, <3>1, <3>2 DEF Follows
  <2> DEFINE track == [i \in Nat |-> o]
  <2>6. \A i \in 1 .. 3 : track[i] = o
    OBVIOUS
  <2>7. Account(o, "welcome") = o /\ Account(o, "error") = o
    BY DEF Account, Turned
  <2>8. down' = <<Message("welcome")>> \/ down' = <<Message("error"), Message("error")>>
    BY <1>2, <2>1 DEF ServerLogsIn
  <2> HIDE DEF o, track
  <2>9. /\ Len(down') + 1 \in 1 .. 3
        /\ \A i \in DOMAIN down' : /\ i \in 1 .. 3 /\ i + 1 \in 1 .. 3
                                   /\ down'[i].cmd = "welcome" \/ down'[i].cmd = "error"
    <3>1. CASE down' = <<Message("welcome")>>
      <4>1. DOMAIN down' = {1} /\ Len(down') = 1 /\ down'[1].cmd = "welcome"
        BY <3>1 DEF Message
      <4> QED
        BY <4>1
    <3>2. CASE down' = <<Message("error"), Message("error")>>
      <4>1. /\ DOMAIN down' = {1, 2} /\ Len(down') = 2
            /\ down'[1].cmd = "error" /\ down'[2].cmd = "error"
        BY <3>2 DEF Message
      <4> QED
        BY <4>1
    <3> QED
      BY <2>8, <3>1, <3>2
  <2>10. Follows(track)'
    <3>1. \A i \in DOMAIN down' : track[i + 1] = Account(track[i], down'[i].cmd) /\ down'[i].cmd # "voir"
      BY <2>6, <2>7, <2>9
    <3>2. track[1] = <<cpos', cdir'>> /\ track[Len(down') + 1] = Standing(start', pos', dir')
      BY <2>3, <2>4, <2>5, <2>6, <2>9
    <3> QED
      BY <3>1, <3>2 DEF Follows
  <2> QED
    BY <2>10 DEF Tracked
<1>3. CASE ServerQueues
  <2>1. /\ down' = down /\ cpos' = cpos /\ cdir' = cdir
        /\ pos' = pos /\ dir' = dir /\ start' = start
    BY <1>3 DEF ServerQueues, place, mind
  <2> QED
    BY <2>1 DEF Tracked, Follows
<1>4. CASE ServerExecutes
  <2> DEFINE cmd == Head(requests)
             msg == IF cmd = "voir" THEN View ELSE Message(cmd)
  <2>1. /\ down' = Append(down, msg)
        /\ pos' = IF cmd = "avance" THEN Facing(pos, dir) ELSE pos
        /\ dir' = Turned(dir, cmd)
        /\ cpos' = cpos /\ cdir' = cdir /\ start' = start
    BY <1>4 DEF ServerExecutes, mind
  <2>2. cmd \in Requests
    BY <1>4 DEF ServerExecutes, TypeOK
  <2>3. cmd # "welcome" /\ msg.cmd = cmd /\ (cmd = "voir" => msg.pos = pos /\ msg.dir = dir)
    BY <2>2 DEF Requests, Moves, View, Message
  <2> HIDE DEF cmd, msg
  <2>4. Account(Standing(start, pos, dir), cmd) = Standing(start, pos', dir')
    BY <1>1, <2>1, <2>3, AccountsAgree
  <2> QED
    BY <2>1, <2>3, <2>4, TrackGrows
<1> QED
  BY <1>2, <1>3, <1>4 DEF Server

LEMMA OtherPlayersMap ==
  ASSUME MapX = MapY, TypeOK, ~kicked', Tracked, OtherPlayers PROVE Tracked'
<1>1. start \in Tiles \X Directions /\ pos \in Tiles /\ dir \in Directions
  BY ClientSessionAssumption DEF TypeOK
<1>2. /\ pos' = pos /\ dir' = dir /\ cpos' = cpos /\ cdir' = cdir /\ start' = start
      /\ \E note \in Notes : down' = Append(down, Message(note))
  BY DEF OtherPlayers, ServerLetsDie, Hears, IsExpelled, IsRaised, Disturbed, Notes,
         place, mind, history
<1>3. PICK note \in Notes : down' = Append(down, Message(note))
  BY <1>2
<1> DEFINE msg == Message(note)
<1>4. msg.cmd = note /\ note # "welcome" /\ note # "voir" /\ note # "avance" /\ Turned(dir, note) = dir
  BY DEF Message, Notes, Turned
<1> HIDE DEF msg
<1>5. Account(Standing(start, pos, dir), note) = Standing(start, pos', dir')
  BY <1>1, <1>2, <1>4, AccountsAgree
<1>6. down' = Append(down, msg)
  BY <1>3 DEF msg
<1> QED
  BY <1>2, <1>4, <1>5, <1>6, TrackGrows

LEMMA ClientMap ==
  ASSUME TypeOK, Tracked, Client PROVE Tracked'
<1> DEFINE cmd == Head(down).cmd
<1>1. <<cpos', cdir'>> = Account(<<cpos, cdir>>, cmd)
  <2>1. ASSUME cpos' = cpos, cdir' = cdir, cmd \notin Moves, cmd # "welcome"
        PROVE  <<cpos', cdir'>> = Account(<<cpos, cdir>>, cmd)
    BY <2>1 DEF Account, Turned, Moves
  <2>2. CASE handleBienvenueMsg \/ handleErrorMsg
    BY <2>1, <2>2 DEF handleBienvenueMsg, handleErrorMsg, Receives, mind, Moves
  <2>3. CASE handleWelcomeMsg
    BY <2>3 DEF handleWelcomeMsg, Receives, Account
  <2>4. CASE handleAvanceResponse
    BY <2>4 DEF handleAvanceResponse, Receives, Account, Turned
  <2>5. CASE handleTurnResponse
    BY <2>5 DEF handleTurnResponse, Receives, Account
  <2>6. CASE handlePrendResponse \/ handleInventaireResponse \/ LevelUpResponse
    BY <2>1, <2>6
       DEF handlePrendResponse, handleInventaireResponse, LevelUpResponse, Receives, Moves
  <2>7. CASE handleVoirResponse \/ HandlerThrows \/ handleDieResponse
    BY <2>1, <2>7
       DEF handleVoirResponse, HandlerThrows, handleDieResponse, Receives, mind, Moves
  <2> QED
    BY <2>2, <2>3, <2>4, <2>5, <2>6, <2>7 DEF Client
<1> QED
  BY <1>1, ClientKinds, TrackShrinks

LEMMA NextMap ==
  ASSUME MapX = MapY, TypeOK, SessionInv, MapInv, [Next]_vars PROVE MapInv'
<1>1. CASE kicked
  <2>1. kicked' = kicked \/ kicked' = TRUE
    BY DEF Next, vars, history, Server, ServerLogsIn, ServerQueues, ServerExecutes, OtherPlayers,
           ServerLetsDie, Hears, IsExpelled, IsRaised, onClose, Client, handleBienvenueMsg,
           handleWelcomeMsg, handleErrorMsg, handleAvanceResponse, handleTurnResponse,
           handlePrendResponse, handleInventaireResponse, LevelUpResponse, handleVoirResponse,
           HandlerThrows, handleDieResponse, Receives
  <2> QED
    BY <1>1, <2>1 DEF MapInv
<1>2. CASE Lost
  <2>1. ~Server /\ ~OtherPlayers /\ ~Client /\ ~onClose
    <3>1. ~Client
      BY <1>2, ClientKinds DEF Lost, Handled
    <3> QED
      BY <1>2, <3>1 DEF Lost, Server, ServerLogsIn, ServerQueues, ServerExecutes, OtherPlayers,
                        ServerLetsDie, Hears, IsExpelled, IsRaised, Disturbed, onClose
  <2> QED
    BY <1>2, <2>1 DEF Next, vars, player, MapInv, Lost
<1>3. CASE Tracked /\ ~kicked
  <2>1. CASE Server
    BY <1>3, <2>1, ServerMap DEF MapInv
  <2>2. CASE OtherPlayers
    BY <1>3, <2>2, OtherPlayersMap DEF MapInv
  <2>3. CASE Client
    BY <1>3, <2>3, ClientMap DEF MapInv
  <2>4. CASE onClose
    <3>1. joined' # "alive"
      BY <2>4 DEF onClose
    <3> QED
      BY <2>4, <3>1 DEF onClose, MapInv, Lost
  <2>5. CASE UNCHANGED vars
    <3>1. /\ down' = down /\ cpos' = cpos /\ cdir' = cdir
          /\ pos' = pos /\ dir' = dir /\ start' = start
      BY <2>5 DEF vars, player, place, mind, history
    <3> QED
      BY <1>3, <3>1 DEF MapInv, Tracked, Follows
  <2> QED
    BY <2>1, <2>2, <2>3, <2>4, <2>5 DEF Next
<1> QED
  BY <1>1, <1>2, <1>3 DEF MapInv

(***************************************************************************)
(* updateVisibleTiles stores each entry of a view for the tile that        *)
(* m_command_voir listed, on every square map, however many moves were     *)
(* under way between the look and its answer, unless the player was        *)
(* expelled: its client's map is then wrong.                               *)
(***************************************************************************)
THEOREM MapCorrect == Spec => []MapsAgree
<1> DEFINE Inv == TypeOK /\ SessionInv /\ (MapX = MapY => MapInv)
<1>1. Init => Inv
  BY InitTypes, InitSession, InitMap
<1>2. Inv /\ [Next]_vars => Inv'
  BY NextTypes, NextSession, NextMap
<1>3. Inv => MapsAgree
  <2> SUFFICES ASSUME Inv, MapX = MapY, ~kicked, down # <<>>, Head(down).cmd = "voir", NEW idx \in Seen
               PROVE  ClientTile(idx) = Image(VisionTile(Head(down).pos, Head(down).dir, idx))
    BY DEF MapsAgree
  <2> DEFINE v == Head(down)
             x == Side(idx)
             y == -Row(idx)
  <2>1. v \in Messages /\ v = down[1] /\ 1 \in DOMAIN down
    <3>1. down \in Seq(Messages) /\ down # <<>>
      BY DEF TypeOK, Messages, Replies
    <3> QED
      BY <3>1
  <2>2. v.pos \in Tiles /\ v.dir \in Directions /\ start \in Tiles \X Directions
    BY <2>1, ClientSessionAssumption DEF Messages, TypeOK
  <2>3. idx \in Nat /\ x \in Int /\ y \in Int
    <3>1. idx \in Nat
      BY DEF Seen, Level
    <3>2. Row(idx) \in Nat /\ x \in Int
      BY <3>1, RowAndSide
    <3> QED
      BY <3>1, <3>2
  <2>4. <<cpos, cdir>> = Standing(start, v.pos, v.dir)
    <3>1. PICK track : Follows(track)
      BY DEF MapInv, Lost, Tracked
    <3> QED
      BY <2>1, <3>1 DEF Follows
  <2> HIDE DEF v, x, y
  <2>5. At(cpos, rotate(x, y, cdir)[1], rotate(x, y, cdir)[2]) =
           Placed(start, At(v.pos, rotate(x, y, v.dir)[1], rotate(x, y, v.dir)[2]))
    <3> DEFINE e == Standing(start, v.pos, v.dir)
    <3>1. At(e[1], rotate(x, y, e[2])[1], rotate(x, y, e[2])[2]) =
             Placed(start, At(v.pos, rotate(x, y, v.dir)[1], rotate(x, y, v.dir)[2]))
      BY <2>2, <2>3, SameOffset
    <3>2. e[1] = cpos /\ e[2] = cdir
      BY <2>4
    <3> HIDE DEF e
    <3> QED
      BY <3>1, <3>2
  <2>6. VisionTile(v.pos, v.dir, idx) = At(v.pos, rotate(x, y, v.dir)[1], rotate(x, y, v.dir)[2])
    BY <2>2, <2>3, VisionTurned DEF x, y
  <2>7. ClientTile(idx) = At(cpos, rotate(x, y, cdir)[1], rotate(x, y, cdir)[2])
    BY DEF ClientTile, x, y
  <2>8. Image(VisionTile(v.pos, v.dir, idx)) = Placed(start, VisionTile(v.pos, v.dir, idx))
    BY DEF Image, Placed, FromStart
  <2> QED
    BY <2>5, <2>6, <2>7, <2>8 DEF v
<1> QED
  BY <1>1, <1>2, <1>3, PTL DEF Spec

=============================================================================
