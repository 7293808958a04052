------------------------------ MODULE TileList ------------------------------
(***************************************************************************)
(* The doubly linked lists of players that hang off the tiles of the map,  *)
(* at the level of their pointers: tile.players, player.next_on_tile,      *)
(* player.prev_on_tile and player.pos, and the operations of game.c on     *)
(* them: registration, movement, death and the loop of m_command_expulse,  *)
(* which walks a list while it moves the players it meets.                 *)
(*                                                                         *)
(* The server runs these in one thread: only the expulse loop takes more   *)
(* than one step, and nothing else happens until it ends.                  *)
(***************************************************************************)
EXTENDS TileSeq

CONSTANTS
    Players,    \* the player structures that malloc can return
    Tiles,      \* the tiles of the map
    Adjacent,   \* Adjacent[t]: the tiles a player on t may face
    Null        \* the NULL pointer

ASSUME TileListAssumption ==
    /\ Null \notin Players
    /\ Tiles # {}
    /\ Adjacent \in [Tiles -> SUBSET Tiles]
    /\ \A t \in Tiles : t \notin Adjacent[t]

VARIABLES
    map,      \* the pointers: [first, next, prev, pos]
    alive,    \* the players that are allocated
    emitter,  \* the player whose m_command_expulse is running, or Null
    it,       \* its loop variable
    dest,     \* the tile (new_x, new_y) it moves players to
    lists,    \* history: the tiles' players as sequences
    before    \* history: those sequences when the expulse loop started

vars == <<map, alive, emitter, it, dest, lists, before>>

Pointer == Players \cup {Null}

----------------------------------------------------------------------------
(* The pointer operations *)

\* Mutant: the player's position is not brought up to date.
AddKeepingPosition(m, t, p) ==
    [first |-> [m.first EXCEPT ![t] = p],
     next  |-> [m.next EXCEPT ![p] = m.first[t]],
     prev  |-> [q \in Players |-> CASE q = m.first[t] -> p
                                    [] q = p /\ q # m.first[t] -> Null
                                    [] OTHER -> m.prev[q]],
     pos   |-> m.pos]

m_game_add_player_to_tile(m, t, p) ==
    [first |-> [m.first EXCEPT ![t] = p],
     next  |-> [m.next EXCEPT ![p] = m.first[t]],
     prev  |-> [q \in Players |-> CASE q = m.first[t] -> p
                                    [] q = p /\ q # m.first[t] -> Null
                                    [] OTHER -> m.prev[q]],
     pos   |-> [m.pos EXCEPT ![p] = t]]

\* Mutant: the follower keeps pointing back to the player that left.
RemoveKeepingBackPointer(m, p) ==
    [first |-> IF m.prev[p] = Null THEN [m.first EXCEPT ![m.pos[p]] = m.next[p]] ELSE m.first,
     next  |-> [q \in Players |-> CASE q = p -> Null
                                    [] q = m.prev[p] /\ q # p -> m.next[p]
                                    [] OTHER -> m.next[q]],
     prev  |-> [m.prev EXCEPT ![p] = Null],
     pos   |-> m.pos]

m_game_remove_player_from_tile(m, p) ==
    [first |-> IF m.prev[p] = Null THEN [m.first EXCEPT ![m.pos[p]] = m.next[p]] ELSE m.first,
     next  |-> [q \in Players |-> CASE q = p -> Null
                                    [] q = m.prev[p] /\ q # p -> m.next[p]
                                    [] OTHER -> m.next[q]],
     prev  |-> [q \in Players |-> CASE q = p -> Null
                                    [] q = m.next[p] /\ q # p -> m.prev[p]
                                    [] OTHER -> m.prev[q]],
     pos   |-> m.pos]

\* Mutant: the position is updated before the player is taken off its tile.
MoveUpdatingFirst(m, p, t) ==
    m_game_add_player_to_tile(
        m_game_remove_player_from_tile([m EXCEPT !.pos[p] = t], p), t, p)

m_game_move_player(m, p, t) ==
    m_game_add_player_to_tile(m_game_remove_player_from_tile(m, p), t, p)

\* The same movement on the sequences.
MovedLists(p, t) ==
    [u \in Tiles |-> LET rest == Without(lists[u], p)
                     IN  IF u = t THEN PushFront(rest, p) ELSE rest]

----------------------------------------------------------------------------
\* Mutant: the memory of the map is not zeroed.
InitUnset ==
    /\ map = [first |-> [t \in Tiles |-> t],
              next  |-> [p \in Players |-> Null],
              prev  |-> [p \in Players |-> Null],
              pos   |-> [p \in Players |-> CHOOSE t \in Tiles : TRUE]]
    /\ alive = {}
    /\ emitter = Null
    /\ it = Null
    /\ dest = CHOOSE t \in Tiles : TRUE
    /\ lists = [t \in Tiles |-> <<>>]
    /\ before = lists

\* game_init_map: no tile has a player.
Init ==
    /\ map = [first |-> [t \in Tiles |-> Null],
              next  |-> [p \in Players |-> Null],
              prev  |-> [p \in Players |-> Null],
              pos   |-> [p \in Players |-> CHOOSE t \in Tiles : TRUE]]
    /\ alive = {}
    /\ emitter = Null
    /\ it = Null
    /\ dest = CHOOSE t \in Tiles : TRUE
    /\ lists = [t \in Tiles |-> <<>>]
    /\ before = lists

Idle == emitter = Null

\* game_register_player puts a new player on a tile.
game_register_player(p, t) ==
    /\ Idle
    /\ p \notin alive
    /\ map' = m_game_add_player_to_tile(map, t, p)
    /\ alive' = alive \cup {p}
    /\ lists' = [lists EXCEPT ![t] = PushFront(@, p)]
    /\ UNCHANGED <<emitter, it, dest, before>>

\* m_command_avance moves its player to the tile it faces.
m_command_avance(p, t) ==
    /\ Idle
    /\ p \in alive
    /\ t \in Adjacent[map.pos[p]]
    /\ map' = m_game_move_player(map, p, t)
    /\ lists' = MovedLists(p, t)
    /\ UNCHANGED <<alive, emitter, it, dest, before>>

\* game_player_die takes the player off its tile and frees it.
game_player_die(p) ==
    /\ Idle
    /\ p \in alive
    /\ map' = m_game_remove_player_from_tile(map, p)
    /\ alive' = alive \ {p}
    /\ lists' = [lists EXCEPT ![map.pos[p]] = Without(@, p)]
    /\ UNCHANGED <<emitter, it, dest, before>>

\* m_command_expulse up to its loop; the emitter's tile holds at least the emitter.
m_command_expulse(p, t) ==
    /\ Idle
    /\ p \in alive
    /\ t \in Adjacent[map.pos[p]]
    /\ emitter' = p
    /\ it' = map.first[map.pos[p]]
    /\ dest' = t
    /\ before' = lists
    /\ UNCHANGED <<map, alive, lists>>

\* Mutant: the loop stops at its emitter in place of passing over it.
ExpulseLoopStops ==
    /\ emitter # Null
    /\ it # Null
    /\ IF it = emitter
       THEN UNCHANGED <<map, lists>> /\ it' = Null
       ELSE /\ map' = m_game_move_player(map, it, dest)
            /\ lists' = MovedLists(it, dest)
            /\ it' = map'.next[it]
    /\ UNCHANGED <<alive, emitter, dest, before>>

\* Mutant: the loop starts over at the tile after each player it moves.
ExpulseLoopRestart ==
    /\ emitter # Null
    /\ it # Null
    /\ IF it = emitter
       THEN UNCHANGED <<map, lists>>
       ELSE /\ map' = m_game_move_player(map, it, dest)
            /\ lists' = MovedLists(it, dest)
    /\ it' = map'.first[map'.pos[emitter]]
    /\ UNCHANGED <<alive, emitter, dest, before>>

(***************************************************************************)
(* One round of the loop.  The successor is read from the player after it  *)
(* was moved: the walk goes on through the list of the destination tile.   *)
(***************************************************************************)
ExpulseLoop ==
    /\ emitter # Null
    /\ it # Null
    /\ IF it = emitter
       THEN UNCHANGED <<map, lists>>
       ELSE /\ map' = m_game_move_player(map, it, dest)
            /\ lists' = MovedLists(it, dest)
    /\ it' = map'.next[it]
    /\ UNCHANGED <<alive, emitter, dest, before>>

\* m_command_expulse returns; its local variables and the history are reset.
ExpulseDone ==
    /\ emitter # Null
    /\ it = Null
    /\ emitter' = Null
    /\ dest' = CHOOSE t \in Tiles : TRUE
    /\ before' = [t \in Tiles |-> <<>>]
    /\ UNCHANGED <<map, alive, it, lists>>

Next ==
    \/ \E p \in Players, t \in Tiles :
          game_register_player(p, t) \/ m_command_avance(p, t) \/ m_command_expulse(p, t)
    \/ \E p \in Players : game_player_die(p)
    \/ ExpulseLoop
    \/ ExpulseDone

Spec == Init /\ [][Next]_vars

\* A loop that can go on does: the thread that runs it does nothing else.
FairSpec == Spec /\ WF_vars(ExpulseLoop) /\ WF_vars(ExpulseDone)

----------------------------------------------------------------------------
(* Properties *)

\* Every variable has its type.
TypeOK ==
    /\ map \in [first : [Tiles -> Pointer], next : [Players -> Pointer],
                prev : [Players -> Pointer], pos : [Players -> Tiles]]
    /\ alive \subseteq Players
    /\ emitter \in Pointer
    /\ it \in Pointer
    /\ dest \in Tiles
    /\ lists \in [Tiles -> Seq(Players)]
    /\ before \in [Tiles -> Seq(Players)]

\* Every player that is alive is on the list of its own tile, once, and no other is on one.
EachOnItsTile ==
    /\ \A t \in Tiles : \A i \in DOMAIN lists[t] :
          lists[t][i] \in alive /\ map.pos[lists[t][i]] = t
    /\ \A p \in alive : OnTile(lists[map.pos[p]], p)
    /\ \A t \in Tiles : \A i, j \in DOMAIN lists[t] : lists[t][i] = lists[t][j] => i = j

(***************************************************************************)
(* The pointers are those lists: tile.players points to the first player,  *)
(* next_on_tile and prev_on_tile to the neighbours, NULL ends both sides,  *)
(* and a player that is on no tile points nowhere.                         *)
(***************************************************************************)
PointersAreLists ==
    /\ \A t \in Tiles :
          map.first[t] = IF lists[t] = <<>> THEN Null ELSE lists[t][1]
    /\ \A t \in Tiles : \A i \in DOMAIN lists[t] :
          /\ map.next[lists[t][i]] = IF i = Len(lists[t]) THEN Null ELSE lists[t][i + 1]
          /\ map.prev[lists[t][i]] = IF i = 1 THEN Null ELSE lists[t][i - 1]
    /\ \A p \in Players \ alive : map.next[p] = Null /\ map.prev[p] = Null

(***************************************************************************)
(* The loop of m_command_expulse ends, provided the destination tile is    *)
(* empty when it starts (with players there it goes round among them).     *)
(***************************************************************************)
ExpulseEnds == (emitter # Null /\ lists[dest] = <<>>) ~> (emitter = Null)

(***************************************************************************)
(* When m_command_expulse ends, it has moved the first other player of the *)
(* tile and nobody else, and the destination was empty if there was one.   *)
(***************************************************************************)
ExpulseResult ==
    emitter # Null /\ it = Null =>
        LET t == map.pos[emitter]
        IN  /\ lists = AfterExpulse(before, t, dest, {emitter})
            /\ ~ExpulseIsStuck(before, t, dest, {emitter})

=============================================================================
