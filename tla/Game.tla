-------------------------------- MODULE Game --------------------------------
(***************************************************************************)
(* The game server of game.c: the players, the slots of m_server.clients,  *)
(* the teams, the map with its items and lists of players, the command     *)
(* queues, and the loop of game_play over the slots.                       *)
(*                                                                         *)
(* The program has one thread.  Its main loop alternates server_select,    *)
(* during which clients register, send commands and disconnect, with       *)
(* game_play; phase says where it is: Select, or the slot that game_play   *)
(* looks at next, or NbClients when it processes the server's own events.  *)
(*                                                                         *)
(* A client and its player are allocated and freed together and are one    *)
(* object here.  The event buffer of a client is the bounded deque that    *)
(* TimeApi shows it to be; the one thing that depends on its slots, the    *)
(* time of the free slot an event is appended to, is any time of the past  *)
(* (RingInv of TimeApi).                                                   *)
(***************************************************************************)
EXTENDS TileSeq, Compass, FtList, FiniteSets

CONSTANTS
    NbClients,        \* m_server.client_count, the number of slots
    NbTeams,          \* m_server.team_count
    Fds,              \* the socket descriptors of the clients
    MAX_EVENTS,       \* the length of a command queue
    Delay,            \* command_prototypes[].delay for each command in use
    IncantationTime,  \* m_incantation_time
    LifeUnit,         \* LIFE_UNIT
    StartLifeUnits,   \* START_LIFE_UNITS
    Respawn,          \* whether the configuration asks for new resources
    Period,           \* m_ctx.period
    StartPlaces,      \* the places <<position, direction>> that rand() draws
    StartItems,       \* the items on the map that the initial densities draw
    Spawns,           \* the items that the respawn densities draw for a tile
    Relogin,          \* whether clients log in again on a connection that has a player
    Sends,            \* the commands <<cmd, arg>> that the client of each descriptor sends
    MaxTime           \* bound on the clock

NoArg == "NULL"

Resources ==
    {"nourriture", "linemate", "deraumere", "sibur", "mendiane", "phiras", "thystame"}

Inventories == [Resources -> Nat]

NoItems == [r \in Resources |-> 0]

Commands == DOMAIN Delay

AllCommands ==
    {"avance", "droite", "gauche", "voir", "inventaire", "prend", "pose", "expulse",
     "broadcast", "incantation", "fork", "connect_nbr"}

ASSUME GameAssumption ==
    /\ NbClients \in Nat \ {0} /\ NbTeams \in Nat \ {0}
    /\ Fds \subseteq Nat
    /\ MAX_EVENTS \in Nat \ {0, 1}
    /\ Commands \subseteq AllCommands /\ Delay \in [Commands -> Nat]
    /\ IncantationTime \in Nat
    /\ LifeUnit \in Nat \ {0} /\ StartLifeUnits \in Nat \ {0}
    /\ Respawn \in BOOLEAN /\ Period \in Nat \ {0}
    /\ StartPlaces \subseteq Tiles \X Directions
    /\ StartItems \subseteq [Tiles -> Inventories]
    /\ Spawns \subseteq Inventories
    /\ Relogin \in BOOLEAN
    /\ Sends \in [Fds -> SUBSET (Commands \X (Resources \cup {NoArg, "unknown"}))]
    /\ MaxTime \in Nat

VARIABLES
    now,       \* time_api.current_time_units
    phase,     \* where the main loop is
    cursor,    \* fd of the loop of server_select: what is below was looked at
    stuck,     \* the program left its defined behaviour, see StuckForEver
    live,      \* the objects that are allocated
    player,    \* the players, by object
    queue,     \* the pending events of the clients, by object
    clients,   \* m_server.clients: the object of each slot, or 0
    current,   \* team.current_players
    tiles,     \* the players of each tile
    items,     \* the items of each tile
    spawn_at,  \* exec_time of the pending m_game_spawn_resources
    next_idx,  \* m_ctx.next_idx
    removals   \* m_clients of server.c: the list of descriptors to be removed

loop == <<now, cursor, spawn_at, next_idx>>

registry == <<live, clients, current, removals>>

vars == <<loop, phase, stuck, registry, player, queue, tiles, items>>

Select == -1

ClientSlots == 0 .. NbClients - 1

Teams == 0 .. NbTeams - 1

\* One object more than there are slots: a client without a slot could exist.
Objects == 1 .. NbClients + 1

max_players == NbClients \div NbTeams

TIME_TO_DIE == LifeUnit * StartLifeUnits

----------------------------------------------------------------------------
(* Levels *)

LEVEL_MAX == 7

Stones(l, d, s, m, p, t) ==
    [NoItems EXCEPT !["linemate"] = l, !["deraumere"] = d, !["sibur"] = s,
                    !["mendiane"] = m, !["phiras"] = p, !["thystame"] = t]

\* level_reqs: the first row is the one that its comment calls "1-2".
level_reqs == <<
    [players |-> 1, inv |-> Stones(1, 0, 0, 0, 0, 0)],
    [players |-> 2, inv |-> Stones(1, 1, 1, 0, 0, 0)],
    [players |-> 2, inv |-> Stones(2, 0, 1, 0, 2, 0)],
    [players |-> 4, inv |-> Stones(1, 1, 2, 0, 1, 0)],
    [players |-> 4, inv |-> Stones(1, 2, 1, 3, 0, 0)],
    [players |-> 6, inv |-> Stones(1, 2, 3, 0, 1, 0)],
    [players |-> 6, inv |-> Stones(2, 2, 2, 2, 2, 1)] >>

\* level_reqs[p->level]: the array of C starts at 0, the sequence here at 1.
Requisites(lvl) == level_reqs[lvl + 1]

\* The players of object o's level on its tile, o included.
SameLevel(o) ==
    {q \in live : OnTile(tiles[player[o].pos], q) /\ player[q].level = player[o].level}

m_game_check_can_incantation(o, check_items) ==
    /\ player[o].level < LEVEL_MAX
    /\ check_items => \A r \in Resources :
          items[player[o].pos][r] >= Requisites(player[o].level).inv[r]
    /\ Cardinality(SameLevel(o)) >= Requisites(player[o].level).players

----------------------------------------------------------------------------
(* Events *)

\* data is the player that the callback is called with; level is the argument
\* of m_command_real_incantation, which prints it and reads it back.
Event(t, cb, p, arg) ==
    [exec_time |-> t, callback |-> cb, data |-> p, arg |-> arg, level |-> 0]

RealIncantation(t, p, lvl) ==
    [exec_time |-> t, callback |-> "real_incantation", data |-> p, arg |-> NoArg, level |-> lvl]

ZeroPlayer ==
    [fd |-> 0, team |-> 0, level |-> 0, pos |-> <<0, 0>>, dir |-> 0, inv |-> NoItems,
     die_time |-> 0, start_time |-> 0]

\* game_init and game_init_map.
Init ==
    /\ now = 0
    /\ phase = Select
    /\ cursor = 0
    /\ stuck = FALSE
    /\ live = {}
    /\ player = [o \in Objects |-> ZeroPlayer]
    /\ queue = [o \in Objects |-> <<>>]
    /\ clients = [s \in ClientSlots |-> 0]
    /\ current = [t \in Teams |-> 0]
    /\ tiles = [t \in Tiles |-> <<>>]
    /\ items \in StartItems
    /\ spawn_at = Period
    /\ next_idx = 0
    /\ removals = <<>>

----------------------------------------------------------------------------
(* The main loop and server_select *)

\* Called before and after server_select; the clock stands still in between.
time_api_update ==
    /\ ~stuck
    /\ phase = 0 \/ (phase = Select /\ cursor = 0)
    /\ now' \in now + 1 .. MaxTime
    /\ UNCHANGED <<phase, cursor, spawn_at, next_idx, stuck, registry, player, queue, tiles,
                   items>>

(***************************************************************************)
(* server_select looks at the descriptors in ascending order and reads one *)
(* message from each that is ready.                                        *)
(***************************************************************************)
Handle(fd) ==
    /\ ~stuck
    /\ phase = Select
    /\ fd >= cursor
    /\ cursor' = fd + 1
    /\ UNCHANGED <<now, spawn_at, next_idx, phase, stuck, items, removals>>

FreeSlots == {s \in ClientSlots : clients[s] = 0}

m_add_client_to_server(o) ==
    IF FreeSlots = {} THEN clients ELSE [clients EXCEPT ![Min(FreeSlots)] = o]

m_remove_client_from_server(o) ==
    [s \in ClientSlots |-> IF clients[s] = o THEN 0 ELSE clients[s]]

\* The array team.players, which nothing reads, is left out.
m_team_add_player_to_team(team) ==
    IF current[team] >= max_players THEN current ELSE [current EXCEPT ![team] = @ + 1]

m_team_remove_player_from_team(o) == [current EXCEPT ![player[o].team] = @ - 1]

\* m_game_get_client_from_fd: the client of the descriptor in the first slot, or 0.
ClientOf(fd) ==
    LET slots == {s \in ClientSlots : clients[s] # 0 /\ player[clients[s]].fd = fd}
    IN  IF slots = {} THEN 0 ELSE clients[Min(slots)]

\* Mutant: a team takes one player more than it has places.
TeamIsFullLate(t) == current[t] > max_players

TEAM_IS_FULL(t) == current[t] >= max_players

\* Mutant: the life of a player is counted from the start of the server.
NewPlayerFromZero(fd, team, place) ==
    [fd |-> fd, team |-> team, level |-> 1, pos |-> place[1], dir |-> place[2],
     inv |-> NoItems, die_time |-> TIME_TO_DIE, start_time |-> now]

NewPlayer(fd, team, place) ==
    [fd |-> fd, team |-> team, level |-> 1, pos |-> place[1], dir |-> place[2],
     inv |-> NoItems, die_time |-> now + TIME_TO_DIE, start_time |-> now]

(***************************************************************************)
(* game_register_player.  The server does not ask whether the descriptor   *)
(* has a player already; clients that log in twice are there when Relogin  *)
(* says so.  A full team is refused.  The result of m_add_client_to_server *)
(* is ignored: without a free slot the player would be on the map and in   *)
(* its team, and in no slot.                                               *)
(***************************************************************************)
game_register_player(fd, team, place) ==
    /\ Handle(fd)
    /\ Relogin \/ ClientOf(fd) = 0
    /\ ~TEAM_IS_FULL(team)
    /\ Objects # live
    /\ LET o == Min(Objects \ live)
       IN  /\ live' = live \cup {o}
           /\ player' = [player EXCEPT ![o] = NewPlayer(fd, team, place)]
           /\ tiles' = [tiles EXCEPT ![place[1]] = PushFront(@, o)]
           /\ clients' = m_add_client_to_server(o)
    /\ current' = m_team_add_player_to_team(team)
    /\ UNCHANGED queue

(***************************************************************************)
(* game_execute_command: an unknown descriptor is taken for a client that  *)
(* has died, a full queue drops the command; neither tells the client.     *)
(***************************************************************************)
game_execute_command(fd, cmd, arg) ==
    /\ Handle(fd)
    /\ LET o == ClientOf(fd)
       IN  \E base \in IF o = 0 \/ queue[o] = <<>> THEN {now} ELSE 0 .. now :
             queue' = IF o = 0 \/ Len(queue[o]) = MAX_EVENTS THEN queue
                      ELSE [queue EXCEPT ![o] = Append(@, Event(base + Delay[cmd], cmd, o, arg))]
    /\ UNCHANGED <<live, clients, current, player, tiles>>

\* Mutant: a killed player keeps the food it carries.
KilledWithFood(p) == [p EXCEPT !.die_time = 0]

Killed(p) == [p EXCEPT !.die_time = 0, !.inv["nourriture"] = 0]

\* REMOVE_CLIENT calls game_kill_player when a connection ends or a message is refused.
game_kill_player(fd) ==
    /\ Handle(fd)
    /\ ClientOf(fd) # 0
    /\ player' = [player EXCEPT ![ClientOf(fd)] = Killed(@)]
    /\ UNCHANGED <<live, clients, current, queue, tiles>>

(***************************************************************************)
(* server_select returns.  When nothing was ready it does so at once, else *)
(* m_remove_clients removes what it finds on the list of descriptors whose *)
(* players have died.                                                      *)
(***************************************************************************)
NothingReady ==
    /\ ~stuck
    /\ phase = Select /\ cursor = 0
    /\ phase' = 0
    /\ UNCHANGED <<loop, stuck, registry, player, queue, tiles, items>>

m_remove_clients ==
    /\ ~stuck
    /\ phase = Select
    /\ phase' = 0
    /\ cursor' = 0
    /\ removals' = <<>>
    /\ player' = [o \in Objects |-> IF \E fd \in ToSet(Walked(removals)) : ClientOf(fd) = o
                                    THEN Killed(player[o]) ELSE player[o]]
    /\ UNCHANGED <<now, spawn_at, next_idx, stuck, live, clients, current, queue, tiles, items>>

----------------------------------------------------------------------------
(* What game_play does with one slot *)

\* game_play looks at a slot that holds object o.
AtSlot(o) ==
    /\ ~stuck
    /\ phase \in ClientSlots
    /\ clients[phase] = o
    /\ o # 0

PLAYER_IS_ALIVE(o) == player[o].die_time > now

CLIENT_HAS_ACTIONS(o) == queue[o] # <<>> /\ Head(queue[o]).exec_time <= now

\* Nobody is there, or there is nothing to do yet.
NothingToDo ==
    /\ ~stuck
    /\ phase \in ClientSlots
    /\ clients[phase] # 0 =>
          PLAYER_IS_ALIVE(clients[phase]) /\ ~CLIENT_HAS_ACTIONS(clients[phase])
    /\ phase' = phase + 1
    /\ UNCHANGED <<loop, stuck, registry, player, queue, tiles, items>>

\* game_player_die with food left: one unit of food is one more unit of life.
Eat(o) ==
    /\ AtSlot(o)
    /\ ~PLAYER_IS_ALIVE(o)
    /\ player[o].inv["nourriture"] > 0
    /\ player' = [player EXCEPT ![o].inv["nourriture"] = @ - 1,
                                ![o].die_time = @ + LifeUnit]
    /\ phase' = phase + 1
    /\ UNCHANGED <<loop, stuck, registry, queue, tiles, items>>

\* Mutant: the player that died stays on the list of its tile.
DieOnTile(o) ==
    /\ AtSlot(o)
    /\ ~PLAYER_IS_ALIVE(o)
    /\ player[o].inv["nourriture"] = 0
    /\ live' = live \ {o}
    /\ clients' = m_remove_client_from_server(o)
    /\ current' = m_team_remove_player_from_team(o)
    /\ player' = [player EXCEPT ![o] = ZeroPlayer]
    /\ queue' = [queue EXCEPT ![o] = <<>>]
    /\ removals' = ft_list_add_last(removals, player[o].fd)
    /\ phase' = phase + 1
    /\ UNCHANGED <<loop, stuck, tiles, items>>

(***************************************************************************)
(* game_player_die without food: the player leaves its slot, its team and  *)
(* its tile.  It would stop half way for a client without a slot or a team *)
(* without players; RegistryConsistent says that there is none.            *)
(***************************************************************************)
game_player_die(o) ==
    /\ AtSlot(o)
    /\ ~PLAYER_IS_ALIVE(o)
    /\ player[o].inv["nourriture"] = 0
    /\ live' = live \ {o}
    /\ clients' = m_remove_client_from_server(o)
    /\ current' = m_team_remove_player_from_team(o)
    /\ tiles' = [tiles EXCEPT ![player[o].pos] = Without(@, o)]
    /\ player' = [player EXCEPT ![o] = ZeroPlayer]
    /\ queue' = [queue EXCEPT ![o] = <<>>]
    /\ removals' = ft_list_add_last(removals, player[o].fd)
    /\ phase' = phase + 1
    /\ UNCHANGED <<loop, stuck, items>>

(***************************************************************************)
(* time_api_process_client_events executes one event of the slot's client: *)
(* Command(o, p, names) is what the commands have in common, for an event  *)
(* of player p whose callback is one of names.                             *)
(***************************************************************************)
Command(o, p, names) ==
    /\ AtSlot(o)
    /\ PLAYER_IS_ALIVE(o)
    /\ CLIENT_HAS_ACTIONS(o)
    /\ Head(queue[o]).callback \in names
    /\ Head(queue[o]).data = p
    /\ phase' = phase + 1
    /\ UNCHANGED <<loop, registry>>

Popped(o) == [queue EXCEPT ![o] = Tail(@)]

\* The tile in front of the player.
Ahead(p) == Facing(player[p].pos, player[p].dir)

\* Mutant: the player is entered on the new tile and not taken off the old one.
AvanceOnBothTiles(o, p) ==
    /\ Command(o, p, {"avance"})
    /\ queue' = Popped(o)
    /\ player' = [player EXCEPT ![p].pos = Ahead(p)]
    /\ tiles' = [tiles EXCEPT ![Ahead(p)] = PushFront(@, p)]
    /\ UNCHANGED <<stuck, items>>

m_command_avance(o, p) ==
    /\ Command(o, p, {"avance"})
    /\ queue' = Popped(o)
    /\ player' = [player EXCEPT ![p].pos = Ahead(p)]
    /\ tiles' = [tiles EXCEPT ![player[p].pos] = Without(@, p),
                              ![Ahead(p)] = PushFront(@, p)]
    /\ UNCHANGED <<stuck, items>>

m_command_droite_gauche(o, p) ==
    /\ Command(o, p, {"droite", "gauche"})
    /\ queue' = Popped(o)
    /\ player' = [player EXCEPT ![p].dir =
                     (@ + (IF Head(queue[o]).callback = "droite" THEN 1 ELSE 3)) % 4]
    /\ UNCHANGED <<stuck, tiles, items>>

\* The commands that only report: they read the state and send a response.
ReportingCommand(o, p) ==
    /\ Command(o, p, {"voir", "inventaire", "broadcast", "fork", "connect_nbr"})
    /\ queue' = Popped(o)
    /\ UNCHANGED <<stuck, player, tiles, items>>

\* m_helper_items_to_tiles: n more of the resource that the argument names.
Transfer(inv, r, n) == IF r \in Resources THEN [inv EXCEPT ![r] = @ + n] ELSE inv

\* Mutant: the tile keeps the item that was taken.
TakeACopy(o, p) ==
    /\ Command(o, p, {"prend"})
    /\ queue' = Popped(o)
    /\ LET r == Head(queue[o]).arg
           n == IF r \in Resources /\ items[player[p].pos][r] > 0 THEN 1 ELSE 0
       IN  player' = [player EXCEPT ![p].inv = Transfer(@, r, n)]
    /\ UNCHANGED <<stuck, tiles, items>>

\* Mutant: whether the tile has the item is not asked.
TakeUnasked(o, p) ==
    /\ Command(o, p, {"prend"})
    /\ queue' = Popped(o)
    /\ LET r == Head(queue[o]).arg
       IN  /\ player' = [player EXCEPT ![p].inv = Transfer(@, r, 1)]
           /\ items' = [items EXCEPT ![player[p].pos] = Transfer(@, r, -1)]
    /\ UNCHANGED <<stuck, tiles>>

(***************************************************************************)
(* m_command_prend and m_command_pose: the argument names a resource, or   *)
(* the command is refused; so is taking what is not there.                 *)
(***************************************************************************)
m_command_prend(o, p) ==
    /\ Command(o, p, {"prend"})
    /\ queue' = Popped(o)
    /\ LET r == Head(queue[o]).arg
           t == player[p].pos
           n == IF r \in Resources /\ items[t][r] > 0 THEN 1 ELSE 0
       IN  /\ player' = [player EXCEPT ![p].inv = Transfer(@, r, n)]
           /\ items' = [items EXCEPT ![t] = Transfer(@, r, -n)]
    /\ UNCHANGED <<stuck, tiles>>

m_command_pose(o, p) ==
    /\ Command(o, p, {"pose"})
    /\ queue' = Popped(o)
    /\ LET r == Head(queue[o]).arg
           t == player[p].pos
           n == IF r \in Resources /\ player[p].inv[r] > 0 THEN 1 ELSE 0
       IN  /\ player' = [player EXCEPT ![p].inv = Transfer(@, r, -n)]
           /\ items' = [items EXCEPT ![t] = Transfer(@, r, n)]
    /\ UNCHANGED <<stuck, tiles>>

(***************************************************************************)
(* m_command_expulse, whose loop TileList models step by step: it puts the *)
(* first other player of the tile on the tile in front, or never returns.  *)
(***************************************************************************)
m_command_expulse(o, p) ==
    /\ Command(o, p, {"expulse"})
    /\ queue' = Popped(o)
    /\ LET t == player[p].pos
           d == Ahead(p)
           self == {q \in live : player[q].fd = player[p].fd}
       IN  IF ExpulseIsStuck(tiles, t, d, self)
           THEN stuck' = TRUE /\ UNCHANGED <<tiles, player>>
           ELSE /\ stuck' = stuck
                /\ tiles' = AfterExpulse(tiles, t, d, self)
                /\ player' = [q \in Objects |->
                                IF OnTile(tiles'[d], q) THEN [player[q] EXCEPT !.pos = d]
                                                        ELSE player[q]]
    /\ UNCHANGED items

\* The tile after the stones of level l were consumed.
Consumed(inv, l) == [r \in Resources |-> inv[r] - Requisites(l).inv[r]]

\* Mutant: the second half of the incantation waits behind the other commands.
IncantationAtTheEnd(o, p) ==
    /\ Command(o, p, {"incantation"})
    /\ IF m_game_check_can_incantation(p, TRUE)
       THEN /\ items' = [items EXCEPT ![player[p].pos] = Consumed(@, player[p].level)]
            /\ queue' = [queue EXCEPT ![o] =
                 Append(Tail(@), RealIncantation(now + IncantationTime, p, player[p].level))]
       ELSE /\ queue' = Popped(o)
            /\ UNCHANGED items
    /\ UNCHANGED <<stuck, player, tiles>>

(***************************************************************************)
(* m_command_incantation: the stones are consumed, and the second half     *)
(* goes to the front of the queue of the client that the player's          *)
(* descriptor leads to, if there is room.                                  *)
(***************************************************************************)
m_command_incantation(o, p) ==
    /\ Command(o, p, {"incantation"})
    /\ IF m_game_check_can_incantation(p, TRUE)
       THEN LET c == ClientOf(player[p].fd)
                second == RealIncantation(now + IncantationTime, p, player[p].level)
            IN  /\ items' = [items EXCEPT ![player[p].pos] = Consumed(@, player[p].level)]
                /\ queue' = IF Len(Popped(o)[c]) < MAX_EVENTS
                            THEN [Popped(o) EXCEPT ![c] = <<second>> \o @]
                            ELSE Popped(o)
       ELSE /\ queue' = Popped(o)
            /\ UNCHANGED items
    /\ UNCHANGED <<stuck, player, tiles>>

\* Mutant: an incantation that has too few players left is tried again.
RealIncantationRetries(o, p) ==
    /\ Command(o, p, {"real_incantation"})
    /\ LET ends == p \in live /\ m_game_check_can_incantation(p, FALSE)
       IN  /\ queue' = IF ends THEN Popped(o) ELSE queue
           /\ player' = IF ends THEN [q \in Objects |-> IF q \in SameLevel(p)
                                                       THEN [player[q] EXCEPT !.level = @ + 1]
                                                       ELSE player[q]]
                        ELSE player
    /\ UNCHANGED <<stuck, tiles, items>>

\* Mutant: the level that the stones were consumed for is not compared.
RealIncantationAnyLevel(o, p) ==
    /\ Command(o, p, {"real_incantation"})
    /\ queue' = Popped(o)
    /\ stuck' = (p \notin live)
    /\ player' = IF p \in live /\ m_game_check_can_incantation(p, FALSE)
                 THEN [q \in Objects |-> IF q \in SameLevel(p)
                                         THEN [player[q] EXCEPT !.level = @ + 1]
                                         ELSE player[q]]
                 ELSE player
    /\ UNCHANGED <<tiles, items>>

(***************************************************************************)
(* m_command_real_incantation: unless the player was raised meanwhile or   *)
(* too few are left, everybody of its level on its tile is raised.  The    *)
(* player may have been freed, when the event waited in the queue of       *)
(* another client of the same descriptor.                                  *)
(***************************************************************************)
m_command_real_incantation(o, p) ==
    /\ Command(o, p, {"real_incantation"})
    /\ queue' = Popped(o)
    /\ stuck' = (p \notin live)
    /\ player' = IF /\ p \in live
                    /\ player[p].level = Head(queue[o]).level
                    /\ m_game_check_can_incantation(p, FALSE)
                 THEN [q \in Objects |-> IF q \in SameLevel(p)
                                         THEN [player[q] EXCEPT !.level = @ + 1]
                                         ELSE player[q]]
                 ELSE player
    /\ UNCHANGED <<tiles, items>>

----------------------------------------------------------------------------
(* The end of game_play: the server's own event buffer *)

Batch == LET n == (MapX * MapY * 5 + 99) \div 100
         IN  IF n > 1000 THEN 1000 ELSE n

TileAt(idx) == <<idx % MapX, idx \div MapX>>

BatchTiles == {TileAt((next_idx + i) % (MapX * MapY)) : i \in 0 .. Batch - 1}

inventory_sum(inv) == MapThenSumSet(LAMBDA r : inv[r], Resources)

SpawnIsDue == Respawn /\ spawn_at <= now

\* m_game_spawn_resources: the tiles of the batch that are not crowded get new items.
m_game_spawn_resources ==
    /\ ~stuck
    /\ phase = NbClients
    /\ SpawnIsDue
    /\ \E drawn \in [BatchTiles -> Spawns] :
          items' = [t \in Tiles |->
                      IF t \in BatchTiles /\ inventory_sum(items[t]) <= 15
                      THEN [r \in Resources |-> items[t][r] + drawn[t][r]]
                      ELSE items[t]]
    /\ next_idx' = (next_idx + Batch) % (MapX * MapY)
    /\ spawn_at' = now + Period
    /\ phase' = Select
    /\ UNCHANGED <<now, cursor, stuck, registry, player, queue, tiles>>

EndPlay ==
    /\ ~stuck
    /\ phase = NbClients
    /\ ~SpawnIsDue
    /\ phase' = Select
    /\ UNCHANGED <<loop, stuck, registry, player, queue, tiles, items>>

(***************************************************************************)
(* m_command_expulse goes round in its loop, or freed memory was used: the *)
(* model says nothing about what happens then.                             *)
(***************************************************************************)
StuckForEver == stuck /\ UNCHANGED vars

----------------------------------------------------------------------------
RunCommand(o, p) ==
    \/ m_command_avance(o, p)
    \/ m_command_droite_gauche(o, p)
    \/ ReportingCommand(o, p)
    \/ m_command_prend(o, p)
    \/ m_command_pose(o, p)
    \/ m_command_expulse(o, p)
    \/ m_command_incantation(o, p)
    \/ m_command_real_incantation(o, p)

game_play ==
    \/ NothingToDo
    \/ \E o \in Objects : Eat(o) \/ game_player_die(o)
    \/ \E o, p \in Objects : RunCommand(o, p)
    \/ m_game_spawn_resources
    \/ EndPlay

m_handle_login(fd) ==
    \E team \in Teams, place \in StartPlaces : game_register_player(fd, team, place)

m_handle_cmd(fd) ==
    \E msg \in Sends[fd] : game_execute_command(fd, msg[1], msg[2])

\* What is not a login or a command ends the connection.
m_handle_client_event(fd) == m_handle_login(fd) \/ m_handle_cmd(fd) \/ game_kill_player(fd)

SelectReturns == NothingReady \/ m_remove_clients

Next ==
    \/ time_api_update
    \/ \E fd \in Fds : m_handle_client_event(fd)
    \/ SelectReturns
    \/ game_play
    \/ StuckForEver

Spec == Init /\ [][Next]_vars

(***************************************************************************)
(* The main loop never stops: select returns at once (its timeout is 0),   *)
(* game_play runs to its end, and the clock, read in every round, goes on. *)
(* What clients do is not fair.                                            *)
(***************************************************************************)
FairSpec ==
    Spec /\ WF_vars(SelectReturns \/ game_play) /\ SF_vars(time_api_update)

----------------------------------------------------------------------------
(* Properties *)

EventTypes ==
    [exec_time : Nat, callback : AllCommands \cup {"real_incantation"}, data : Objects,
     arg : Resources \cup {NoArg, "unknown"}, level : 0 .. LEVEL_MAX]

PlayerTypes ==
    [fd : Nat, team : Teams, level : 0 .. LEVEL_MAX, pos : Tiles, dir : Directions,
     inv : Inventories, die_time : Nat, start_time : Nat]

\* Every variable has its type; in particular no count of items is ever negative.
TypeOK ==
    /\ now \in Nat
    /\ phase \in Select .. NbClients
    /\ cursor \in Nat
    /\ stuck \in BOOLEAN
    /\ live \subseteq Objects
    /\ player \in [Objects -> PlayerTypes]
    /\ queue \in [Objects -> Seq(EventTypes)]
    /\ clients \in [ClientSlots -> Objects \cup {0}]
    /\ current \in [Teams -> Nat]
    /\ tiles \in [Tiles -> Seq(Objects)]
    /\ items \in [Tiles -> Inventories]
    /\ spawn_at \in Nat
    /\ next_idx \in 0 .. MapX * MapY - 1
    /\ removals \in Seq(Nat)

(***************************************************************************)
(* The map and the players agree: every player that is allocated is on the *)
(* list of the tile it stands on, exactly once, and the lists hold nobody  *)
(* else; a player that died can be reached from no tile.                   *)
(***************************************************************************)
TilesConsistent ==
    /\ \A t \in Tiles : \A i \in DOMAIN tiles[t] :
          tiles[t][i] \in live /\ player[tiles[t][i]].pos = t
    /\ \A o \in live : Cardinality({i \in DOMAIN tiles[player[o].pos] :
                                       tiles[player[o].pos][i] = o}) = 1

(***************************************************************************)
(* Slots, teams and players agree: every player has exactly one slot, no   *)
(* slot holds a player that was freed, and each team counts its players,   *)
(* never more than max_players.  A player without a slot would stay on the *)
(* map for ever: game_play would neither feed it nor let it die.           *)
(***************************************************************************)
RegistryConsistent ==
    /\ \A s \in ClientSlots : clients[s] # 0 => clients[s] \in live
    /\ \A o \in live : Cardinality({s \in ClientSlots : clients[s] = o}) = 1
    /\ \A t \in Teams : /\ current[t] = Cardinality({o \in live : player[o].team = t})
                        /\ current[t] <= max_players

\* The player that game_kill_player found is marked by a time of death that is earlier than
\* the life it was given.
Marked(o) == player[o].die_time < player[o].start_time + TIME_TO_DIE

(***************************************************************************)
(* A player that game_kill_player has marked is gone before server_select  *)
(* looks at any descriptor again, whatever food it had: when the number is *)
(* in use once more, by a new connection, no command can reach it.  This   *)
(* is not said of every player of the connection that ended: of those that *)
(* one client made by logging in again, one is marked at a time, the first *)
(* one (PlayersAreWatched of Connections says who is left).                *)
(***************************************************************************)
KilledAreGone == phase = Select => \A o \in live : Marked(o) => player[o].fd < cursor

(***************************************************************************)
(* A player does not die before its life is used up, unless its connection *)
(* ended: it has lived for TIME_TO_DIE and has no food left.               *)
(***************************************************************************)
NoEarlyDeath ==
    [][\A o \in live \ live' :
         /\ player[o].inv["nourriture"] = 0
         /\ player[o].die_time # 0 => now >= player[o].start_time + TIME_TO_DIE]_vars

\* Player p has started an incantation that has not ended.
Incanting(p) ==
    \E o \in live : \E i \in DOMAIN queue[o] :
        queue[o][i].callback = "real_incantation" /\ queue[o][i].data = p

(***************************************************************************)
(* Clients that log in once: at most one incantation of a player is under  *)
(* way, it is the next event of its queue, its player has not been freed,  *)
(* and the level it was started for is not above the player's level.       *)
(***************************************************************************)
OneIncantationAtATime ==
    \A o \in live : \A i \in DOMAIN queue[o] :
        queue[o][i].callback = "real_incantation" =>
            /\ i = 1
            /\ queue[o][i].data = o
            /\ queue[o][i].level <= player[o].level

(***************************************************************************)
(* From the step that consumes the stones to the step that may raise it, a *)
(* player stays where it is and keeps its direction and its items, however *)
(* many commands it sent; only another player's expulse moves it away.     *)
(***************************************************************************)
IncantingStandsStill ==
    [][\A p \in live \cap live' : Incanting(p) /\ Incanting(p)' =>
         /\ player'[p].dir = player[p].dir
         /\ \A r \in Resources \ {"nourriture"} : player'[p].inv[r] = player[p].inv[r]
         /\ player'[p].pos # player[p].pos =>
               \E o \in live \ {p} : m_command_expulse(o, o)]_vars

\* The players that a step raises.
Raised == {o \in live : player'[o].level > player[o].level}

\* The step is the second half of an incantation of a player on tile t, whose stones were
\* consumed for level l.
EndsIncantation(t, l) ==
    \E o, p \in live :
        /\ Command(o, p, {"real_incantation"})
        /\ Head(queue[o]).level = l
        /\ player[p].pos = t

(***************************************************************************)
(* Players are raised only by the second half of an incantation on their   *)
(* tile, by one, all of them from the level that its stones were consumed  *)
(* for, and at least as many as that level requires; also when another     *)
(* incantation on the tile has raised its player in between.               *)
(***************************************************************************)
LevelUpTogether ==
    [][Raised # {} =>
         \E t \in Tiles, l \in 1 .. LEVEL_MAX - 1 :
            /\ Raised = {o \in live : player[o].pos = t /\ player[o].level = l}
            /\ \A o \in Raised : player'[o].level = l + 1
            /\ Cardinality(Raised) >= Requisites(l).players
            /\ EndsIncantation(t, l)]_vars

\* How many of a resource there are, on the map and carried.
Total(r) ==
    SumFunction([t \in Tiles |-> items[t][r]])
    + SumFunction([o \in Objects |-> player[o].inv[r]])

\* The resources that a step moves.
Moved ==
    {r \in Resources : \/ \E t \in Tiles : items'[t][r] # items[t][r]
                       \/ \E o \in Objects : player'[o].inv[r] # player[o].inv[r]}

(***************************************************************************)
(* Nothing is created or lost but by the rules: the number of a resource   *)
(* grows in a respawn only, and a stone disappears only in an incantation  *)
(* or with a player that dies.                                             *)
(***************************************************************************)
ItemsConserved ==
    [][\A r \in Moved :
         /\ Total(r)' > Total(r) => m_game_spawn_resources
         /\ Total(r)' < Total(r) =>
               \/ live' # live
               \/ r = "nourriture"
               \/ \E o \in live : m_command_incantation(o, o)]_vars

(***************************************************************************)
(* A started incantation comes to its end, or its player dies, or expulse  *)
(* never returns.                                                          *)
(***************************************************************************)
Waits(s) ==
    /\ clients[s] # 0 /\ queue[clients[s]] # <<>>
    /\ Head(queue[clients[s]]).callback = "real_incantation"

IncantationEnds ==
    \A s \in ClientSlots :
        (Waits(s) /\ Head(queue[clients[s]]).exec_time <= MaxTime) ~> (stuck \/ ~Waits(s))

(***************************************************************************)
(* The event buffer of each client is the bounded deque that TimeApi shows *)
(* the ring to be: the game uses it only in this way when clients log in   *)
(* once.  The commands of a client run in the order of their acceptance, a *)
(* started incantation ahead of the others, and death takes all of them.   *)
(***************************************************************************)
Item(ev) == [callback |-> ev.callback, arg |-> ev.arg]

Items ==
    {[callback |-> msg[1], arg |-> msg[2]] : msg \in UNION {Sends[fd] : fd \in Fds}}
    \cup {[callback |-> "real_incantation", arg |-> NoArg]}

PendingItems(o) == [i \in DOMAIN queue[o] |-> Item(queue[o][i])]

Deque(o) == INSTANCE CommandDeque WITH pending <- PendingItems(o), Capacity <- MAX_EVENTS

RefinesDeques ==
    /\ \A o \in Objects : Deque(o)!Init
    /\ [][\A o \in Objects : [Deque(o)!Next]_(PendingItems(o))]_vars

=============================================================================
