------------------------------ MODULE Compass ------------------------------
(***************************************************************************)
(* The geometry of the map, a torus of MapX by MapY tiles with y growing   *)
(* to the south: the tile in front of a player, the tiles it sees, and the *)
(* direction from which it hears another one.  Pure functions of game.c.   *)
(***************************************************************************)
EXTENDS Integers

CONSTANTS MapX, MapY   \* m_server.map_x, m_server.map_y

ASSUME MapAssumption == MapX \in Nat \ {0, 1} /\ MapY \in Nat \ {0, 1}

Tiles == (0 .. MapX - 1) \X (0 .. MapY - 1)

Directions == 0 .. 3   \* NORTH, EAST, SOUTH, WEST

\* The tile that is dx to the east and dy to the south of t.
At(t, dx, dy) == <<(t[1] + dx) % MapX, (t[2] + dy) % MapY>>

\* Mutant: a step to the north or the west does not go round the map.
FacingUnwrapped(t, dir) ==
    CASE dir = 0 -> <<t[1], t[2] - 1>>
      [] dir = 1 -> At(t, 1, 0)
      [] dir = 2 -> At(t, 0, 1)
      [] dir = 3 -> <<t[1] - 1, t[2]>>

\* The tile to which m_command_avance and m_command_expulse move players.
Facing(t, dir) ==
    CASE dir = 0 -> At(t, 0, -1)
      [] dir = 1 -> At(t, 1, 0)
      [] dir = 2 -> At(t, 0, 1)
      [] dir = 3 -> At(t, -1, 0)

----------------------------------------------------------------------------
(* m_command_voir lists the tiles row by row: row d has 2d+1 tiles.        *)

\* The row of the tile with index idx; the rows before it hold d * d tiles.
Row(idx) == CHOOSE d \in 0 .. idx : d * d <= idx /\ idx < (d + 1) * (d + 1)

\* How far to the right of the line of sight it is; negative is to the left.
Side(idx) == idx - Row(idx) * Row(idx) - Row(idx)

\* Mutant: the rows of a player that looks to the south are not turned round.
VisionTileUnturned(t, dir, idx) ==
    LET d == Row(idx)
        s == Side(idx)
    IN  CASE dir = 0 -> At(t, s, -d)
          [] dir = 1 -> At(t, d, s)
          [] dir = 2 -> At(t, s, d)
          [] dir = 3 -> At(t, -d, -s)

\* The tile that m_command_voir lists at index idx.
VisionTile(t, dir, idx) ==
    LET d == Row(idx)
        s == Side(idx)
    IN  CASE dir = 0 -> At(t, s, -d)
          [] dir = 1 -> At(t, d, s)
          [] dir = 2 -> At(t, -s, d)
          [] dir = 3 -> At(t, -d, -s)

----------------------------------------------------------------------------
(* compute_broadcast_direction *)

\* The way round the torus that is not the longer one.
minimal_delta(delta, max) ==
    IF delta > max \div 2 THEN delta - max
    ELSE IF delta < -(max \div 2) THEN delta + max
    ELSE delta

Abs(n) == IF n < 0 THEN -n ELSE n

\* a / b < tan(pi/8), which is sqrt(2) - 1; never equal for integers.
Within(a, b) == (Abs(a) + Abs(b)) * (Abs(a) + Abs(b)) < 2 * b * b

\* floor((phi + pi/8) / (pi/4)) + 1 for the angle phi from ahead, to the left.
Octant(right, ahead) ==
    IF Within(right, ahead) THEN (IF ahead > 0 THEN 1 ELSE 5)
    ELSE IF Within(ahead, right) THEN (IF right < 0 THEN 3 ELSE 7)
    ELSE IF ahead > 0 THEN (IF right < 0 THEN 2 ELSE 8)
    ELSE (IF right < 0 THEN 4 ELSE 6)

\* Mutant: the turn of a listener that looks to the east goes the wrong way.
BroadcastMirrored(listener, dir, emitter) ==
    LET dx == minimal_delta(emitter[1] - listener[1], MapX)
        dy == minimal_delta(emitter[2] - listener[2], MapY)
    IN  IF dx = 0 /\ dy = 0 THEN 0
        ELSE CASE dir = 0 -> Octant(dx, -dy)
               [] dir = 1 -> Octant(-dy, dx)
               [] dir = 2 -> Octant(-dx, dy)
               [] dir = 3 -> Octant(-dy, -dx)

compute_broadcast_direction(listener, dir, emitter) ==
    LET dx == minimal_delta(emitter[1] - listener[1], MapX)
        dy == minimal_delta(emitter[2] - listener[2], MapY)
    IN  IF dx = 0 /\ dy = 0 THEN 0
        ELSE CASE dir = 0 -> Octant(dx, -dy)
               [] dir = 1 -> Octant(dy, dx)
               [] dir = 2 -> Octant(-dx, dy)
               [] dir = 3 -> Octant(-dy, -dx)

=============================================================================
