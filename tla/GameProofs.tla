----------------------------- MODULE GameProofs -----------------------------
(***************************************************************************)
(* The safety properties of Game, for any number of slots, teams and       *)
(* descriptors, any map, any delays and whatever the clients send.         *)
(***************************************************************************)
EXTENDS Game, ListProofs

\* The lists of the tiles are the positions of the players that are allocated.
TilesInv ==
    \A t \in Tiles :
        /\ NoRepeats(tiles[t])
        /\ \A q \in Objects : OnTile(tiles[t], q) <=> q \in live /\ player[q].pos = t

Members(t) == {o \in live : player[o].team = t}

\* Slots and players belong to each other, and the teams count their players.
RegInv ==
    /\ \A s \in ClientSlots : clients[s] # 0 => clients[s] \in live
    /\ \A s, r \in ClientSlots : clients[s] # 0 /\ clients[s] = clients[r] => s = r
    /\ \A o \in live : \E s \in ClientSlots : clients[s] = o
    /\ \A t \in Teams : current[t] = Cardinality(Members(t)) /\ current[t] <= max_players

\* Only clients that are there have events, and a command is one of the client's own player.
QueueInv ==
    \A o \in Objects :
        /\ o \notin live => queue[o] = <<>>
        /\ \A i \in DOMAIN queue[o] :
              queue[o][i].callback # "real_incantation" => queue[o][i].data = o

\* What happens to a killed player is still to come in this round of the main loop.
IsDue(o) ==
    IF phase = Select THEN player[o].fd < cursor
                      ELSE \A s \in ClientSlots : clients[s] = o => phase <= s

(***************************************************************************)
(* A killed player has neither time nor food, and game_play has not looked *)
(* at its slot since it was killed.                                        *)
(***************************************************************************)
LifeInv ==
    \A o \in live :
        /\ player[o].level >= 1
        /\ Marked(o) => /\ player[o].die_time = 0 /\ player[o].inv["nourriture"] = 0
                        /\ IsDue(o)

IndInv == TypeOK /\ TilesInv /\ RegInv /\ QueueInv /\ LifeInv

----------------------------------------------------------------------------
(* What the steps leave alone *)

LEMMA Numbers ==
  /\ NbClients \in Nat \ {0} /\ NbTeams \in Nat \ {0} /\ max_players \in Nat
  /\ TIME_TO_DIE \in Nat \ {0} /\ LifeUnit \in Nat \ {0}
  /\ MAX_EVENTS \in Nat \ {0, 1}
  /\ Select = -1 /\ Select \notin ClientSlots /\ ClientSlots \subseteq Nat
  /\ 0 \notin Objects /\ Objects \subseteq Nat
  /\ IsFiniteSet(Objects) /\ IsFiniteSet(ClientSlots)
<1>1. NbClients \in Nat \ {0} /\ NbTeams \in Nat \ {0} /\ LifeUnit \in Nat \ {0}
      /\ StartLifeUnits \in Nat \ {0} /\ MAX_EVENTS \in Nat \ {0, 1}
  BY GameAssumption
<1>2. max_players \in Nat
  BY <1>1 DEF max_players
<1>3. TIME_TO_DIE \in Nat \ {0}
  BY <1>1 DEF TIME_TO_DIE
<1>4. IsFiniteSet(Objects) /\ IsFiniteSet(ClientSlots)
  BY <1>1, FS_Interval DEF Objects, ClientSlots
<1> QED
  BY <1>1, <1>2, <1>3, <1>4 DEF Select, ClientSlots, Objects

\* Nobody comes, goes or changes its team.
LEMMA RegFrame ==
  ASSUME RegInv, UNCHANGED <<live, clients, current>>, live \subseteq Objects,
         \A q \in Objects : player'[q].team = player[q].team
  PROVE  RegInv'
<1>1. \A t : Members(t)' = Members(t)
  BY DEF Members
<1> QED
  BY <1>1 DEF RegInv

\* Nobody comes, goes or moves.
LEMMA TilesFrame ==
  ASSUME TilesInv, UNCHANGED <<live, tiles>>, \A q \in Objects : player'[q].pos = player[q].pos
  PROVE  TilesInv'
BY DEF TilesInv

\* What a player that dies, or a client that is not there, is like.
LEMMA ZeroPlayerType == ZeroPlayer \in PlayerTypes /\ NoItems \in Inventories
<1>1. NoItems \in Inventories
  BY DEF NoItems, Inventories
<1>2. <<0, 0>> \in Tiles
  BY MapAssumption DEF Tiles
<1>3. 0 \in Teams /\ 0 \in Directions
  BY Numbers DEF Teams, Directions
<1> QED
  BY <1>1, <1>2, <1>3 DEF ZeroPlayer, PlayerTypes, LEVEL_MAX

LEMMA InitIndInv == Init => IndInv
<1> SUFFICES ASSUME Init PROVE IndInv
  OBVIOUS
<1> USE DEF Init
<1>1. TypeOK
  <2>1. MapX * MapY \in Nat \ {0}
    BY MapAssumption
  <2>2. phase \in Select .. NbClients /\ items \in [Tiles -> Inventories] /\ spawn_at \in Nat
    BY GameAssumption, Numbers DEF Select
  <2>3. next_idx \in 0 .. MapX * MapY - 1
    BY <2>1
  <2>4. /\ player \in [Objects -> PlayerTypes] /\ queue \in [Objects -> Seq(EventTypes)]
        /\ clients \in [ClientSlots -> Objects \cup {0}] /\ current \in [Teams -> Nat]
        /\ tiles \in [Tiles -> Seq(Objects)] /\ removals \in Seq(Nat)
    BY ZeroPlayerType
  <2> QED
    BY <2>2, <2>3, <2>4 DEF TypeOK
<1>2. TilesInv
  BY DEF TilesInv, NoRepeats, OnTile
<1>3. RegInv
  <2>1. \A t : Members(t) = {}
    BY DEF Members
  <2> QED
    <3>1. \A t \in Teams : current[t] = Cardinality(Members(t)) /\ current[t] <= max_players
      <4>1. Cardinality({}) = 0 /\ max_players \in Nat
        BY FS_EmptySet, Numbers
      <4>2. ASSUME NEW t \in Teams PROVE current[t] = Cardinality(Members(t)) /\ current[t] <= max_players
        <5>1. current[t] = 0
          OBVIOUS
        <5>2. Cardinality(Members(t)) = 0
          BY <2>1, <4>1
        <5>3. 0 <= max_players
          BY <4>1
        <5> QED
          BY <5>1, <5>2, <5>3
      <4> QED
        BY <4>2
    <3> QED
      BY <3>1 DEF RegInv
<1>4. QueueInv /\ LifeInv
  BY DEF QueueInv, LifeInv
<1> QED
  BY <1>1, <1>2, <1>3, <1>4 DEF IndInv

\* Queues that only lose events, or stay, keep to their owners.
LEMMA SameQueues ==
  ASSUME QueueInv, UNCHANGED <<live, queue>>
  PROVE  QueueInv'
BY DEF QueueInv

\* m_game_get_client_from_fd finds a player of the descriptor when there is one.
LEMMA ClientOfFd ==
  ASSUME TypeOK, RegInv, NEW fd
  PROVE  /\ ClientOf(fd) # 0 => ClientOf(fd) \in live /\ player[ClientOf(fd)].fd = fd
         /\ ClientOf(fd) = 0 => \A o \in live : player[o].fd # fd
<1> DEFINE slots == {s \in ClientSlots : clients[s] # 0 /\ player[clients[s]].fd = fd}
<1>1. ClientOf(fd) = IF slots = {} THEN 0 ELSE clients[Min(slots)]
  BY DEF ClientOf
<1>2. CASE slots = {}
  <2>1. \A o \in live : player[o].fd # fd
    BY <1>2, Numbers DEF RegInv, TypeOK
  <2> QED
    BY <1>1, <1>2, <2>1
<1>3. CASE slots # {}
  <2>1. slots \in SUBSET Nat
    BY Numbers
  <2>2. Min(slots) \in slots
    BY <1>3, <2>1, MinIsLowest
  <2>3. /\ Min(slots) \in ClientSlots
        /\ clients[Min(slots)] # 0 /\ player[clients[Min(slots)]].fd = fd
    BY <2>2
  <2> QED
    BY <1>1, <1>3, <2>3 DEF RegInv
<1> QED
  BY <1>2, <1>3

\* The slot that game_play looks at holds a player that was not killed, or one that dies now.
LEMMA PassSlot ==
  ASSUME IndInv, phase \in ClientSlots, phase' = phase + 1, live' \subseteq live,
         \A q \in live' :
            /\ player'[q].level >= 1
            /\ Marked(q)' => /\ Marked(q) /\ clients[phase] # q
                             /\ player'[q].die_time = 0 /\ player'[q].inv["nourriture"] = 0
            /\ \A s \in ClientSlots : clients'[s] = q => clients[s] = q
  PROVE  LifeInv'
<1>1. phase \in Nat /\ phase # Select /\ phase' # Select /\ ClientSlots \subseteq Nat
  BY Numbers
<1>2. ASSUME NEW q \in live', Marked(q)' PROVE IsDue(q)'
  <2>1. \A s \in ClientSlots : clients[s] = q => phase <= s
    BY <1>1, <1>2 DEF IndInv, LifeInv, IsDue
  <2>2. \A s \in ClientSlots : clients'[s] = q => phase <= s /\ s # phase
    BY <1>2, <2>1
  <2>3. \A s \in ClientSlots : clients'[s] = q => phase' <= s
    BY <1>1, <2>2
  <2> QED
    BY <1>1, <2>3 DEF IsDue
<1> QED
  BY <1>2 DEF LifeInv

----------------------------------------------------------------------------
(* The clock, server_select and the end of game_play *)

LEMMA ClockStep == ASSUME IndInv, time_api_update PROVE IndInv'
<1> USE DEF time_api_update, registry, IndInv
<1>1. TypeOK'
  BY GameAssumption DEF TypeOK
<1>2. TilesInv' /\ RegInv'
  BY RegFrame, TilesFrame DEF TypeOK
<1>3. QueueInv'
  BY SameQueues
<1>4. LifeInv'
  BY DEF LifeInv, Marked, IsDue
<1> QED
  BY <1>1, <1>2, <1>3, <1>4

LEMMA NothingReadyStep == ASSUME IndInv, NothingReady PROVE IndInv'
<1> USE DEF NothingReady, registry, loop, IndInv
<1>1. TypeOK'
  BY Numbers DEF TypeOK
<1>2. TilesInv' /\ RegInv'
  BY RegFrame, TilesFrame DEF TypeOK
<1>3. QueueInv'
  BY SameQueues
<1>4. LifeInv'
  BY Numbers DEF LifeInv, Marked, IsDue
<1> QED
  BY <1>1, <1>2, <1>3, <1>4

\* When game_play is through with the slots, nobody is left that was killed.
LEMMA NobodyMarked == ASSUME IndInv, phase = NbClients PROVE \A o \in live : ~Marked(o)
<1> SUFFICES ASSUME NEW o \in live, Marked(o) PROVE FALSE
  OBVIOUS
<1>1. PICK s \in ClientSlots : clients[s] = o
  BY DEF IndInv, RegInv
<1>2. phase # Select
  BY Numbers
<1>3. NbClients <= s
  BY <1>1, <1>2 DEF IndInv, LifeInv, IsDue
<1> QED
  BY <1>3, Numbers DEF ClientSlots

LEMMA EndPlayStep == ASSUME IndInv, EndPlay PROVE IndInv'
<1> USE DEF EndPlay, registry, loop, IndInv
<1>1. TypeOK'
  BY Numbers DEF TypeOK
<1>2. TilesInv' /\ RegInv'
  BY RegFrame, TilesFrame DEF TypeOK
<1>3. QueueInv'
  BY SameQueues
<1>4. LifeInv'
  BY NobodyMarked DEF LifeInv, Marked
<1> QED
  BY <1>1, <1>2, <1>3, <1>4

LEMMA SpawnStep == ASSUME IndInv, m_game_spawn_resources PROVE IndInv'
<1> USE DEF m_game_spawn_resources, registry, IndInv
<1>1. items' \in [Tiles -> Inventories]
  <2>1. PICK drawn \in [BatchTiles -> Spawns] :
          items' = [t \in Tiles |->
                      IF t \in BatchTiles /\ inventory_sum(items[t]) <= 15
                      THEN [r \in Resources |-> items[t][r] + drawn[t][r]]
                      ELSE items[t]]
    OBVIOUS
  <2>2. ASSUME NEW t \in Tiles, t \in BatchTiles
        PROVE  [r \in Resources |-> items[t][r] + drawn[t][r]] \in Inventories
    BY <2>2, GameAssumption DEF Inventories, TypeOK
  <2> QED
    BY <2>1, <2>2 DEF TypeOK
<1>2. next_idx' \in 0 .. MapX * MapY - 1
  <2> DEFINE area == MapX * MapY
  <2>1. area \in Nat \ {0}
    BY MapAssumption
  <2> HIDE DEF area
  <2>2. Batch \in Int
    BY <2>1 DEF Batch, area
  <2>3. (next_idx + Batch) % area \in 0 .. area - 1
    BY <2>1, <2>2 DEF TypeOK, area
  <2> QED
    BY <2>3 DEF area
<1>3. TypeOK'
  <2>1. now + Period \in Nat /\ Select \in Select .. NbClients
    BY GameAssumption, Numbers, SMTT(30) DEF TypeOK
  <2> QED
    BY <1>1, <1>2, <2>1 DEF TypeOK
<1>4. TilesInv' /\ RegInv'
  BY RegFrame, TilesFrame DEF TypeOK
<1>5. QueueInv'
  BY SameQueues
<1>6. LifeInv'
  BY NobodyMarked DEF LifeInv, Marked
<1> QED
  BY <1>3, <1>4, <1>5, <1>6

LEMMA NothingToDoStep == ASSUME IndInv, NothingToDo PROVE IndInv'
<1> USE DEF NothingToDo, registry, loop, IndInv
<1>1. TypeOK'
  BY Numbers DEF TypeOK, ClientSlots
<1>2. TilesInv' /\ RegInv'
  BY RegFrame, TilesFrame DEF TypeOK
<1>3. QueueInv'
  BY SameQueues
<1>4. LifeInv'
  <2>1. \A q \in live : Marked(q) => player[q].die_time = 0
    BY DEF LifeInv
  <2>2. \A q \in live : clients[phase] = q => player[q].die_time # 0
    BY Numbers DEF PLAYER_IS_ALIVE, TypeOK
  <2> QED
    BY <2>1, <2>2, PassSlot DEF LifeInv, Marked
<1> QED
  BY <1>1, <1>2, <1>3, <1>4

\* A command of a client: it waits in the client's queue, or is dropped.
LEMMA ExecuteStep ==
  ASSUME IndInv, NEW fd \in Fds, NEW msg \in Sends[fd], game_execute_command(fd, msg[1], msg[2])
  PROVE  IndInv'
<1> DEFINE o == ClientOf(fd)
<1> DEFINE cmd == msg[1]
<1> DEFINE arg == msg[2]
<1>1. /\ phase = Select /\ cursor' = fd + 1 /\ fd >= cursor
      /\ UNCHANGED <<now, spawn_at, next_idx, phase, stuck, items, removals>>
      /\ UNCHANGED <<live, clients, current, player, tiles>>
  BY DEF game_execute_command, Handle
<1>2. PICK base \in Nat :
        queue' = IF o = 0 \/ Len(queue[o]) = MAX_EVENTS THEN queue
                 ELSE [queue EXCEPT ![o] = Append(@, Event(base + Delay[cmd], cmd, o, arg))]
  <2>1. now \in Nat
    BY DEF IndInv, TypeOK
  <2>2. PICK base \in IF o = 0 \/ queue[o] = <<>> THEN {now} ELSE 0 .. now :
          queue' = IF o = 0 \/ Len(queue[o]) = MAX_EVENTS THEN queue
                   ELSE [queue EXCEPT ![o] = Append(@, Event(base + Delay[cmd], cmd, o, arg))]
    BY DEF game_execute_command
  <2>3. base \in Nat
    BY <2>1, <2>2
  <2> QED
    BY <2>2, <2>3
<1>3. o # 0 => o \in live /\ o \in Objects
  BY ClientOfFd DEF IndInv, TypeOK
<1> HIDE DEF o
<1>4. fd \in Nat /\ cursor \in Nat
  BY GameAssumption DEF IndInv, TypeOK
<1>5. ASSUME o # 0
      PROVE  /\ Event(base + Delay[cmd], cmd, o, arg) \in EventTypes
             /\ Event(base + Delay[cmd], cmd, o, arg).data = o
  <2>1. cmd \in Commands /\ arg \in Resources \cup {NoArg, "unknown"} /\ Delay[cmd] \in Nat
        /\ cmd \in AllCommands
    BY GameAssumption
  <2>2. base + Delay[cmd] \in Nat /\ 0 \in 0 .. LEVEL_MAX
    BY <2>1 DEF LEVEL_MAX
  <2> HIDE DEF cmd, arg
  <2> QED
    BY <1>3, <1>5, <2>1, <2>2 DEF Event, EventTypes
<1> DEFINE e == Event(base + Delay[cmd], cmd, o, arg)
<1> HIDE DEF cmd, arg, e
<1>6. /\ \A q \in Objects : queue'[q] = queue[q] \/ (q = o /\ o # 0 /\ queue'[q] = Append(queue[q], e))
      /\ queue \in [Objects -> Seq(EventTypes)]
      /\ o # 0 => e \in EventTypes /\ e.data = o
  BY <1>2, <1>3, <1>5 DEF e, IndInv, TypeOK
<1>7. queue' \in [Objects -> Seq(EventTypes)]
  BY <1>2, <1>3, <1>6 DEF e
<1>8. TypeOK'
  BY <1>1, <1>4, <1>7 DEF IndInv, TypeOK
<1>9. TilesInv' /\ RegInv'
  BY <1>1, RegFrame, TilesFrame DEF IndInv, TypeOK
<1>10. QueueInv'
  <2> SUFFICES ASSUME NEW q \in Objects
               PROVE  /\ q \notin live' => queue'[q] = <<>>
                      /\ \A i \in DOMAIN queue'[q] : queue'[q][i].callback # "real_incantation"
                                                       => queue'[q][i].data = q
    BY DEF QueueInv
  <2>1. CASE queue'[q] = queue[q]
    BY <1>1, <2>1 DEF IndInv, QueueInv
  <2>2. CASE q = o /\ o # 0 /\ queue'[q] = Append(queue[q], e)
    <3>1. \A i \in DOMAIN queue'[q] : \/ i \in DOMAIN queue[q] /\ queue'[q][i] = queue[q][i]
                                      \/ queue'[q][i] = e
      BY <1>6, <2>2
    <3> QED
      BY <1>1, <1>3, <1>6, <2>2, <3>1 DEF IndInv, QueueInv
  <2> QED
    BY <1>6, <2>1, <2>2
<1>11. LifeInv'
  BY <1>1, <1>4, GameAssumption DEF IndInv, LifeInv, Marked, IsDue, TypeOK, PlayerTypes
<1> QED
  BY <1>8, <1>9, <1>10, <1>11 DEF IndInv

\* What killing does to a player.
LEMMA KilledPlayer ==
  ASSUME NEW p \in PlayerTypes
  PROVE  /\ Killed(p) \in PlayerTypes
         /\ Killed(p).fd = p.fd /\ Killed(p).team = p.team /\ Killed(p).pos = p.pos
         /\ Killed(p).level = p.level /\ Killed(p).start_time = p.start_time
         /\ Killed(p).die_time = 0 /\ Killed(p).inv["nourriture"] = 0
<1>1. p.inv \in Inventories /\ "nourriture" \in Resources
  BY DEF PlayerTypes, Resources
<1>2. [p.inv EXCEPT !["nourriture"] = 0] \in Inventories
  BY <1>1 DEF Inventories
<1> QED
  BY <1>1, <1>2 DEF Killed, PlayerTypes, Inventories

(***************************************************************************)
(* Whoever is killed while the server handles descriptors: all that is     *)
(* left to be shown is that it is still due.                               *)
(***************************************************************************)
LEMMA KillPlayers ==
  ASSUME IndInv, NEW victims,
         UNCHANGED <<now, stuck, live, clients, current, queue, tiles, items, spawn_at, next_idx>>,
         player' = [o \in Objects |-> IF o \in victims THEN Killed(player[o]) ELSE player[o]],
         phase' \in Select .. NbClients, cursor' \in Nat, removals' \in Seq(Nat),
         \A o \in live : o \in victims \/ Marked(o) => IsDue(o)'
  PROVE  IndInv'
<1> USE DEF IndInv
<1>1. \A o \in Objects :
         /\ player'[o] \in PlayerTypes
         /\ player'[o].fd = player[o].fd /\ player'[o].team = player[o].team
         /\ player'[o].pos = player[o].pos /\ player'[o].level = player[o].level
         /\ player'[o].start_time = player[o].start_time
         /\ o \notin victims => player'[o] = player[o]
         /\ o \in victims => player'[o].die_time = 0 /\ player'[o].inv["nourriture"] = 0
  BY KilledPlayer DEF TypeOK
<1>2. player' \in [Objects -> PlayerTypes]
  BY <1>1
<1>3. TypeOK'
  BY <1>2 DEF TypeOK
<1>4. TilesInv' /\ RegInv'
  BY <1>1, RegFrame, TilesFrame DEF TypeOK
<1>5. QueueInv'
  BY SameQueues
<1>6. \A o \in live : o \notin victims => (Marked(o)' <=> Marked(o))
  BY <1>1 DEF Marked, TypeOK
<1>7. LifeInv'
  BY <1>1, <1>6 DEF LifeInv, TypeOK
<1> QED
  BY <1>3, <1>4, <1>5, <1>7

LEMMA KillStep == ASSUME IndInv, NEW fd \in Fds, game_kill_player(fd) PROVE IndInv'
<1> USE DEF game_kill_player, Handle
<1>1. fd \in Nat /\ fd >= cursor /\ cursor \in Nat /\ phase = Select /\ phase' = Select /\ cursor' = fd + 1
  BY GameAssumption DEF IndInv, TypeOK
<1>2. ClientOf(fd) \in live /\ ClientOf(fd) \in Objects /\ player[ClientOf(fd)].fd = fd
  BY ClientOfFd DEF IndInv, TypeOK
<1>3. \A o \in Objects : player'[o].fd = player[o].fd /\ player[o].fd \in Nat
  BY <1>2, KilledPlayer DEF IndInv, TypeOK, PlayerTypes
<1>4. \A o \in live : o \in {ClientOf(fd)} \/ Marked(o) => IsDue(o)'
  BY <1>1, <1>2, <1>3 DEF IsDue, IndInv, LifeInv, TypeOK
<1> DEFINE victims == {ClientOf(fd)}
<1>5. player' = [o \in Objects |-> IF o \in victims THEN Killed(player[o]) ELSE player[o]]
  BY <1>2 DEF IndInv, TypeOK
<1>6. /\ UNCHANGED <<now, stuck, live, clients, current, queue, tiles, items, spawn_at, next_idx>>
      /\ phase' \in Select .. NbClients /\ cursor' \in Nat /\ removals' \in Seq(Nat)
  BY <1>1 DEF IndInv, TypeOK
<1>7. \A o \in live : o \in victims \/ Marked(o) => IsDue(o)'
  BY <1>4
<1> HIDE DEF victims
<1> QED
  BY <1>5, <1>6, <1>7, KillPlayers

LEMMA RemoveStep == ASSUME IndInv, m_remove_clients PROVE IndInv'
<1> USE DEF m_remove_clients
<1> DEFINE victims == {o \in Objects : \E fd \in ToSet(Walked(removals)) : ClientOf(fd) = o}
<1>1. phase' = 0 /\ cursor' = 0 /\ removals' = <<>> /\ 0 \in Select .. NbClients
  BY Numbers
<1>2. \A o \in live : IsDue(o)'
  BY <1>1, Numbers DEF IsDue
<1>3. player' = [o \in Objects |-> IF o \in victims THEN Killed(player[o]) ELSE player[o]]
  OBVIOUS
<1>4. /\ UNCHANGED <<now, stuck, live, clients, current, queue, tiles, items, spawn_at, next_idx>>
      /\ cursor' \in Nat /\ removals' \in Seq(Nat)
  BY <1>1
<1>5. phase' \in Select .. NbClients /\ \A o \in live : o \in victims \/ Marked(o) => IsDue(o)'
  BY <1>1, <1>2
<1> HIDE DEF victims, m_remove_clients
<1> QED
  BY <1>3, <1>4, <1>5, KillPlayers, Zenon

\* game_player_die with food left.
LEMMA EatStep == ASSUME IndInv, NEW o \in Objects, Eat(o) PROVE IndInv'
<1> USE DEF Eat, AtSlot
<1>1. /\ phase \in ClientSlots /\ clients[phase] = o /\ phase' = phase + 1
      /\ UNCHANGED <<now, cursor, spawn_at, next_idx, stuck, live, clients, current, removals,
                     queue, tiles, items>>
      /\ o \in live
  BY DEF loop, registry, IndInv, RegInv
<1>2. player[o] \in PlayerTypes /\ player[o].inv["nourriture"] \in Nat \ {0} /\ player[o].die_time \in Nat
      /\ player[o].inv \in Inventories
  <2>1. player[o] \in PlayerTypes /\ player[o].inv \in Inventories
    BY DEF IndInv, TypeOK, PlayerTypes
  <2>2. player[o].inv["nourriture"] \in Nat
    BY <2>1 DEF Inventories, Resources
  <2> QED
    BY <2>1, <2>2 DEF PlayerTypes
<1>3. /\ \A q \in Objects \ {o} : player'[q] = player[q]
      /\ player'[o] = [player[o] EXCEPT !.inv["nourriture"] = @ - 1, !.die_time = @ + LifeUnit]
      /\ DOMAIN player' = Objects /\ player' = [q \in Objects |-> player'[q]]
  BY DEF IndInv, TypeOK
<1>4. [player[o].inv EXCEPT !["nourriture"] = @ - 1] \in Inventories /\ player[o].die_time + LifeUnit \in Nat
  <2>1. player[o].inv["nourriture"] - 1 \in Nat /\ player[o].die_time + LifeUnit \in Nat
    BY <1>2, Numbers
  <2> QED
    BY <1>2, <2>1 DEF Inventories
<1>5. /\ player'[o] \in PlayerTypes
      /\ player'[o].fd = player[o].fd /\ player'[o].team = player[o].team
      /\ player'[o].pos = player[o].pos /\ player'[o].level = player[o].level
      /\ player'[o].start_time = player[o].start_time
      /\ player'[o].die_time = player[o].die_time + LifeUnit
  BY <1>2, <1>3, <1>4 DEF PlayerTypes
<1>6. player' \in [Objects -> PlayerTypes]
  BY <1>3, <1>5 DEF IndInv, TypeOK
<1>7. TypeOK'
  <2>1. phase' \in Select .. NbClients
    BY <1>1, Numbers DEF ClientSlots
  <2> QED
    BY <1>1, <1>6, <2>1 DEF IndInv, TypeOK
<1>8. TilesInv' /\ RegInv'
  BY <1>1, <1>3, <1>5, RegFrame, TilesFrame DEF IndInv, TypeOK
<1>9. QueueInv'
  BY <1>1, SameQueues DEF IndInv
<1>10. ~Marked(o) /\ ~Marked(o)'
  <2>1. ~Marked(o)
    BY <1>1, <1>2 DEF IndInv, LifeInv
  <2> QED
    BY <1>2, <1>5, <2>1, Numbers DEF Marked, PlayerTypes
<1>11. LifeInv'
  <2>1. \A q \in live : /\ player'[q].level >= 1
                        /\ Marked(q)' => /\ Marked(q) /\ q # o
                                         /\ player'[q].die_time = 0 /\ player'[q].inv["nourriture"] = 0
    BY <1>3, <1>5, <1>10 DEF IndInv, LifeInv, Marked, TypeOK
  <2> QED
    BY <1>1, <2>1, PassSlot
<1> QED
  BY <1>7, <1>8, <1>9, <1>11 DEF IndInv

----------------------------------------------------------------------------
(* Arrival and death *)

\* The places of all teams together are not more than there are slots.
LEMMA PlacesFitSlots == NbTeams * max_players <= NbClients
<1>1. \A n, k \in Nat : k # 0 => k * (n \div k) <= n
  OBVIOUS
<1> QED
  BY <1>1, Numbers DEF max_players

(***************************************************************************)
(* While a team is not full, a slot is free: every player takes one place  *)
(* of its own team, and there is a slot for every place.                   *)
(***************************************************************************)
LEMMA SlotIsFree ==
  ASSUME TypeOK, RegInv, NEW t \in Teams, ~TEAM_IS_FULL(t)
  PROVE  FreeSlots # {}
<1> SUFFICES ASSUME FreeSlots = {} PROVE FALSE
  OBVIOUS
<1> DEFINE rank == [u \in Teams |-> CHOOSE f : f \in Bijection(Members(u), 1 .. current[u])]
<1> DEFINE place == [o \in live |-> <<player[o].team, rank[player[o].team][o]>>]
<1> DEFINE places == (Teams \X (1 .. max_players)) \ {<<t, max_players>>}
<1>1. \A o \in live : o \in Objects /\ player[o].team \in Teams /\ o \in Members(player[o].team)
  BY DEF TypeOK, PlayerTypes, Members
<1>2. ASSUME NEW u \in Teams
      PROVE  rank[u] \in Bijection(Members(u), 1 .. current[u])
  <2>1. IsFiniteSet(Members(u))
    <3>1. Members(u) \subseteq Objects
      BY DEF Members, TypeOK
    <3> QED
      BY <3>1, Numbers, FS_Subset
  <2>2. ExistsBijection(1 .. current[u], Members(u))
    BY <2>1, FS_CardinalityType DEF RegInv
  <2>3. ExistsBijection(Members(u), 1 .. current[u])
    BY <2>2, Fun_ExistsBijSymmetric
  <2> QED
    BY <2>3 DEF ExistsBijection
<1> HIDE DEF rank
<1>3. ASSUME NEW o \in live
      PROVE  rank[player[o].team][o] \in 1 .. current[player[o].team]
  BY <1>1, <1>2 DEF Bijection, Injection, Surjection
<1>4. place \in [live -> places]
  <2> SUFFICES ASSUME NEW o \in live
               PROVE  <<player[o].team, rank[player[o].team][o]>> \in places
    OBVIOUS
  <2>1. /\ player[o].team \in Teams /\ rank[player[o].team][o] \in 1 .. current[player[o].team]
        /\ current[player[o].team] <= max_players /\ current[player[o].team] \in Nat
    BY <1>1, <1>3 DEF RegInv, TypeOK
  <2>2. current[t] < max_players /\ max_players \in Nat
    BY Numbers DEF TEAM_IS_FULL, RegInv, TypeOK
  <2>3. rank[player[o].team][o] \in 1 .. max_players
    BY <2>1, <2>2
  <2>4. player[o].team = t => rank[player[o].team][o] # max_players
    BY <2>1, <2>2
  <2> QED
    BY <2>1, <2>3, <2>4
<1>5. \A o, q \in live : place[o] = place[q] => o = q
  <2> SUFFICES ASSUME NEW o \in live, NEW q \in live, place[o] = place[q] PROVE o = q
    OBVIOUS
  <2>1. player[o].team = player[q].team /\ rank[player[o].team][o] = rank[player[o].team][q]
    OBVIOUS
  <2> QED
    <3> DEFINE u == player[o].team
    <3>1. rank[u] \in Injection(Members(u), 1 .. current[u])
      BY <1>1, <1>2 DEF Bijection
    <3>2. o \in Members(u) /\ q \in Members(u) /\ rank[u][o] = rank[u][q]
      BY <1>1, <2>1
    <3> HIDE DEF u
    <3> QED
      BY <3>1, <3>2, Fun_IsInj DEF Injection, IsInjective
<1> HIDE DEF place
<1>6. place \in Injection(live, places)
  BY <1>4, <1>5, Fun_IsInj
<1>7. IsFiniteSet(places) /\ Cardinality(places) < NbClients
  <2>1. /\ IsFiniteSet(Teams) /\ Cardinality(Teams) = NbTeams
        /\ IsFiniteSet(1 .. max_players) /\ Cardinality(1 .. max_players) = max_players
    <3>1. /\ IsFiniteSet(Teams)
          /\ Cardinality(Teams) = IF 0 > NbTeams - 1 THEN 0 ELSE (NbTeams - 1) - 0 + 1
      <4> DEFINE hi == NbTeams - 1
      <4>1. hi \in Int /\ Teams = 0 .. hi
        BY Numbers DEF Teams
      <4> HIDE DEF hi
      <4>2. IsFiniteSet(Teams) /\ Cardinality(Teams) = IF 0 > hi THEN 0 ELSE hi - 0 + 1
        BY <4>1, FS_Interval
      <4> QED
        BY <4>2 DEF hi
    <3>2. /\ IsFiniteSet(1 .. max_players)
          /\ Cardinality(1 .. max_players) = IF 1 > max_players THEN 0 ELSE max_players - 1 + 1
      BY Numbers, FS_Interval
    <3> QED
      BY <3>1, <3>2, Numbers
  <2>2. /\ IsFiniteSet(Teams \X (1 .. max_players))
        /\ Cardinality(Teams \X (1 .. max_players)) = NbTeams * max_players
    BY <2>1, FS_Product
  <2>3. <<t, max_players>> \in Teams \X (1 .. max_players)
    <3>1. current[t] < max_players /\ current[t] \in Nat /\ max_players \in Nat
      BY Numbers DEF TEAM_IS_FULL, RegInv, TypeOK
    <3> QED
      BY <3>1
  <2>4. IsFiniteSet(places) /\ Cardinality(places) = NbTeams * max_players - 1
    BY <2>2, <2>3, FS_RemoveElement
  <2>5. NbTeams * max_players \in Nat /\ NbClients \in Nat
    BY Numbers
  <2> QED
    BY <2>4, <2>5, PlacesFitSlots
<1> HIDE DEF places
<1>8. IsFiniteSet(live) /\ Cardinality(live) <= Cardinality(places)
  <2>1. IsFiniteSet(live)
    BY Numbers, FS_Subset DEF TypeOK
  <2> QED
    BY <1>6, <1>7, <2>1, FS_Injection
<1>9. clients \in Injection(ClientSlots, live)
  <2>1. clients \in [ClientSlots -> live] /\ \A s, r \in ClientSlots : clients[s] = clients[r] => s = r
    BY DEF FreeSlots, RegInv, TypeOK
  <2> QED
    BY <2>1, Fun_IsInj
<1>10. Cardinality(ClientSlots) = NbClients
  <2>1. Cardinality(ClientSlots) = IF 0 > NbClients - 1 THEN 0 ELSE (NbClients - 1) - 0 + 1
    BY Numbers, FS_Interval DEF ClientSlots
  <2> QED
    BY <2>1, Numbers
<1>11. Cardinality(ClientSlots) <= Cardinality(live)
  BY <1>8, <1>9, FS_Injection
<1> QED
  <2>1. Cardinality(live) \in Nat /\ Cardinality(places) \in Nat
    BY <1>7, <1>8, FS_CardinalityType
  <2> QED
    BY <1>7, <1>8, <1>10, <1>11, <2>1, Numbers

LEMMA NewPlayerType ==
  ASSUME TypeOK, NEW fd \in Fds, NEW team \in Teams, NEW place \in StartPlaces
  PROVE  NewPlayer(fd, team, place) \in PlayerTypes
<1>1. /\ fd \in Nat /\ place[1] \in Tiles /\ place[2] \in Directions
      /\ now \in Nat /\ now + TIME_TO_DIE \in Nat
  BY GameAssumption, Numbers DEF TypeOK
<1>2. 1 \in 0 .. LEVEL_MAX
  BY DEF LEVEL_MAX
<1> QED
  BY <1>1, <1>2, ZeroPlayerType DEF NewPlayer, PlayerTypes

\* A login: the new player gets a place in its team, a free slot and its tile.
LEMMA RegisterStep ==
  ASSUME IndInv, NEW fd \in Fds, NEW team \in Teams, NEW place \in StartPlaces,
         game_register_player(fd, team, place)
  PROVE  IndInv'
<1> DEFINE o == Min(Objects \ live)
<1> DEFINE t == place[1]
<1> DEFINE s == Min(FreeSlots)
<1> DEFINE new == NewPlayer(fd, team, place)
<1>1. o \in Objects /\ o \notin live
  <2>1. Objects \ live # {} /\ Objects \ live \in SUBSET Nat
    BY Numbers DEF game_register_player, IndInv, TypeOK
  <2> QED
    BY <2>1, MinIsLowest
<1>2. s \in ClientSlots /\ clients[s] = 0 /\ FreeSlots # {}
  <2>1. FreeSlots # {} /\ FreeSlots \in SUBSET Nat
    BY SlotIsFree, Numbers DEF game_register_player, IndInv, FreeSlots
  <2>2. s \in FreeSlots
    BY <2>1, MinIsLowest
  <2> QED
    BY <2>1, <2>2 DEF FreeSlots
<1>3. t \in Tiles /\ new \in PlayerTypes /\ fd \in Nat
  BY GameAssumption, NewPlayerType DEF IndInv
<1>4. /\ phase = Select /\ phase' = Select /\ fd >= cursor /\ cursor' = fd + 1
      /\ UNCHANGED <<now, spawn_at, next_idx, stuck, items, removals, queue>>
      /\ live' = live \cup {o}
      /\ player' = [player EXCEPT ![o] = new]
      /\ tiles' = [tiles EXCEPT ![t] = PushFront(@, o)]
  BY DEF game_register_player, Handle
<1>5. clients' = [clients EXCEPT ![s] = o]
  BY <1>2 DEF game_register_player, m_add_client_to_server
<1>6. current' = [current EXCEPT ![team] = @ + 1] /\ current[team] < max_players
  BY Numbers DEF game_register_player, m_team_add_player_to_team, TEAM_IS_FULL, IndInv, TypeOK
<1>7. /\ new.fd = fd /\ new.team = team /\ new.pos = t /\ new.level = 1
      /\ new.die_time = now + TIME_TO_DIE /\ new.start_time = now
  BY DEF NewPlayer
<1> HIDE DEF o, t, s, new
<1>8. \A q \in Objects : player'[q] = IF q = o THEN new ELSE player[q]
  BY <1>4 DEF IndInv, TypeOK
<1>9. /\ tiles \in [Tiles -> Seq(Objects)]
      /\ PushFront(tiles[t], o) \in Seq(Objects)
      /\ \A q : OnTile(PushFront(tiles[t], o), q) <=> q = o \/ OnTile(tiles[t], q)
      /\ NoRepeats(tiles[t]) /\ ~OnTile(tiles[t], o) => NoRepeats(PushFront(tiles[t], o))
  <2>1. tiles \in [Tiles -> Seq(Objects)] /\ tiles[t] \in Seq(Objects)
    BY <1>3 DEF IndInv, TypeOK
  <2>2. PushFront(tiles[t], o) \in Seq(Objects)
    BY <1>1, <2>1, PushFrontList
  <2>3. /\ \A q : OnTile(PushFront(tiles[t], o), q) <=> q = o \/ OnTile(tiles[t], q)
        /\ NoRepeats(tiles[t]) /\ ~OnTile(tiles[t], o) => NoRepeats(PushFront(tiles[t], o))
    BY <1>1, <2>1, PushFrontPlayers
  <2> QED
    BY <2>1, <2>2, <2>3
<1>10. TypeOK'
  <2>1. tiles' \in [Tiles -> Seq(Objects)] /\ player' \in [Objects -> PlayerTypes]
    BY <1>1, <1>3, <1>4, <1>9 DEF IndInv, TypeOK
  <2>2. clients' \in [ClientSlots -> Objects \cup {0}] /\ current' \in [Teams -> Nat]
    <3>1. clients \in [ClientSlots -> Objects \cup {0}] /\ current \in [Teams -> Nat]
      BY DEF IndInv, TypeOK
    <3>2. clients' \in [ClientSlots -> Objects \cup {0}]
      BY <1>1, <1>5, <3>1
    <3>3. current[team] + 1 \in Nat
      BY <3>1
    <3>4. current' \in [Teams -> Nat]
      BY <1>6, <3>1, <3>3
    <3> QED
      BY <3>2, <3>4
  <2>3. cursor' \in Nat /\ live' \subseteq Objects
    BY <1>1, <1>3, <1>4 DEF IndInv, TypeOK
  <2> QED
    BY <1>4, <2>1, <2>2, <2>3 DEF IndInv, TypeOK
<1>11. TilesInv'
  <2> SUFFICES ASSUME NEW u \in Tiles
               PROVE  /\ NoRepeats(tiles'[u])
                      /\ \A q \in Objects : OnTile(tiles'[u], q) <=> q \in live' /\ player'[q].pos = u
    BY DEF TilesInv
  <2>1. /\ NoRepeats(tiles[u])
        /\ \A q \in Objects : OnTile(tiles[u], q) <=> q \in live /\ player[q].pos = u
    BY DEF IndInv, TilesInv
  <2>2. CASE u = t
    <3>1. tiles'[u] = PushFront(tiles[t], o)
      BY <1>4, <1>9, <2>2
    <3> QED
      BY <1>1, <1>4, <1>7, <1>8, <1>9, <2>1, <2>2, <3>1
  <2>3. CASE u # t
    <3>1. tiles'[u] = tiles[u]
      BY <1>4, <1>9, <2>3
    <3> QED
      BY <1>1, <1>4, <1>7, <1>8, <2>1, <2>3, <3>1
  <2> QED
    BY <2>2, <2>3
<1>12. RegInv'
  <2>1. \A r \in ClientSlots : clients'[r] = IF r = s THEN o ELSE clients[r]
    BY <1>5 DEF IndInv, TypeOK
  <2>2. /\ \A r \in ClientSlots : clients'[r] # 0 => clients'[r] \in live'
        /\ \A r, q \in ClientSlots : clients'[r] # 0 /\ clients'[r] = clients'[q] => r = q
    BY <1>1, <1>4, <2>1 DEF IndInv, RegInv
  <2>3. \A q \in live' : \E r \in ClientSlots : clients'[r] = q
    <3> SUFFICES ASSUME NEW q \in live' PROVE \E r \in ClientSlots : clients'[r] = q
      OBVIOUS
    <3>1. CASE q = o
      BY <1>2, <2>1, <3>1
    <3>2. CASE q # o
      <4>1. PICK r \in ClientSlots : clients[r] = q
        BY <1>4, <3>2 DEF IndInv, RegInv
      <4>2. r # s
        BY <1>2, <1>4, <3>2, <4>1, Numbers DEF IndInv, TypeOK
      <4> QED
        BY <2>1, <4>1, <4>2
    <3> QED
      BY <3>1, <3>2
  <2>4. ASSUME NEW u \in Teams
        PROVE  current'[u] = Cardinality(Members(u)') /\ current'[u] <= max_players
    <3>1. live \subseteq Objects /\ IsFiniteSet(Members(u)) /\ o \notin Members(u)
      <4>1. live \subseteq Objects /\ Members(u) \subseteq live
        BY DEF IndInv, TypeOK, Members
      <4> QED
        BY <1>1, <4>1, Numbers, FS_Subset
    <3>2. current[u] = Cardinality(Members(u)) /\ current[u] <= max_players /\ current[u] \in Nat
      BY DEF IndInv, RegInv, TypeOK
    <3>3. CASE u = team
      <4>1. Members(u)' = Members(u) \cup {o}
        BY <1>1, <1>4, <1>7, <1>8, <3>1, <3>3 DEF Members
      <4>2. Cardinality(Members(u)') = Cardinality(Members(u)) + 1
        BY <3>1, <4>1, FS_AddElement
      <4>3. current'[u] = current[u] + 1
        BY <1>6, <3>3 DEF IndInv, TypeOK
      <4> QED
        BY <1>6, <3>2, <3>3, <4>2, <4>3, Numbers
    <3>4. CASE u # team
      <4>1. Members(u)' = Members(u)
        BY <1>1, <1>4, <1>7, <1>8, <3>1, <3>4 DEF Members
      <4>2. current'[u] = current[u]
        BY <1>6, <3>4 DEF IndInv, TypeOK
      <4> QED
        BY <3>2, <4>1, <4>2
    <3> QED
      BY <3>3, <3>4
  <2> QED
    BY <2>2, <2>3, <2>4 DEF RegInv
<1>13. QueueInv'
  BY <1>4 DEF IndInv, QueueInv
<1>14. LifeInv'
  <2>1. fd + 1 > cursor /\ cursor \in Nat
    BY <1>3, <1>4 DEF IndInv, TypeOK
  <2> SUFFICES ASSUME NEW q \in live'
               PROVE  /\ player'[q].level >= 1
                      /\ Marked(q)' => /\ player'[q].die_time = 0 /\ player'[q].inv["nourriture"] = 0
                                       /\ IsDue(q)'
    BY DEF LifeInv
  <2>2. CASE q = o
    <3>1. player'[q] = new
      BY <1>1, <1>8, <2>2
    <3>2. ~Marked(q)'
      BY <1>7, <3>1, Numbers DEF Marked, IndInv, TypeOK
    <3> QED
      BY <1>7, <3>1, <3>2
  <2>3. CASE q # o
    <3>1. q \in live /\ q \in Objects /\ player'[q] = player[q] /\ player[q].fd \in Nat
      BY <1>4, <1>8, <2>3 DEF IndInv, TypeOK, PlayerTypes
    <3>2. Marked(q)' <=> Marked(q)
      BY <3>1 DEF Marked
    <3>3. IsDue(q) => IsDue(q)'
      BY <1>3, <1>4, <2>1, <3>1 DEF IsDue
    <3> QED
      BY <3>1, <3>2, <3>3 DEF IndInv, LifeInv
  <2> QED
    BY <2>2, <2>3
<1> QED
  BY <1>10, <1>11, <1>12, <1>13, <1>14 DEF IndInv

\* A death: the player leaves its slot, its team, its tile and its queue.
LEMMA DieStep == ASSUME IndInv, NEW o \in Objects, game_player_die(o) PROVE IndInv'
<1> DEFINE t == player[o].pos
<1> DEFINE team == player[o].team
<1>1. /\ phase \in ClientSlots /\ clients[phase] = o /\ phase' = phase + 1 /\ o \in live
      /\ UNCHANGED <<now, cursor, spawn_at, next_idx, stuck, items>>
      /\ live' = live \ {o}
      /\ clients' = [s \in ClientSlots |-> IF clients[s] = o THEN 0 ELSE clients[s]]
      /\ current' = [current EXCEPT ![team] = @ - 1]
      /\ tiles' = [tiles EXCEPT ![t] = Without(@, o)]
      /\ player' = [player EXCEPT ![o] = ZeroPlayer]
      /\ queue' = [queue EXCEPT ![o] = <<>>]
      /\ removals' = Append(removals, player[o].fd)
  BY DEF game_player_die, AtSlot, loop, IndInv, RegInv, m_remove_client_from_server,
     m_team_remove_player_from_team, ft_list_add_last
<1>2. t \in Tiles /\ team \in Teams /\ player[o].fd \in Nat /\ o \in Members(team)
  BY <1>1 DEF IndInv, TypeOK, PlayerTypes, Members
<1> HIDE DEF t, team
<1>3. \A q \in Objects : player'[q] = IF q = o THEN ZeroPlayer ELSE player[q]
  BY <1>1 DEF IndInv, TypeOK
<1>4. /\ tiles \in [Tiles -> Seq(Objects)]
      /\ Without(tiles[t], o) \in Seq(Objects)
      /\ \A q : OnTile(Without(tiles[t], o), q) <=> q # o /\ OnTile(tiles[t], q)
      /\ NoRepeats(Without(tiles[t], o))
  <2>1. tiles \in [Tiles -> Seq(Objects)] /\ tiles[t] \in Seq(Objects) /\ NoRepeats(tiles[t])
    BY <1>2 DEF IndInv, TypeOK, TilesInv
  <2> QED
    BY <2>1, WithoutPlayers
<1>5. ASSUME NEW u \in Teams
      PROVE  /\ current'[u] = Cardinality(Members(u)') /\ current'[u] <= max_players
             /\ current'[u] \in Nat
  <2>1. IsFiniteSet(Members(u)) /\ live \subseteq Objects
    <3>1. live \subseteq Objects /\ Members(u) \subseteq live
      BY DEF IndInv, TypeOK, Members
    <3> QED
      BY <3>1, Numbers, FS_Subset
  <2>2. current[u] = Cardinality(Members(u)) /\ current[u] <= max_players /\ current[u] \in Nat
    BY DEF IndInv, RegInv, TypeOK
  <2>3. Members(u)' = Members(u) \ {o}
    BY <1>1, <1>3, <2>1 DEF Members
  <2>4. o \in Members(u) <=> u = team
    BY <1>2 DEF Members, team
  <2>5. current'[u] = IF u = team THEN current[u] - 1 ELSE current[u]
    BY <1>1 DEF IndInv, TypeOK
  <2>6. /\ Cardinality(Members(u)') = IF o \in Members(u) THEN Cardinality(Members(u)) - 1
                                                        ELSE Cardinality(Members(u))
        /\ IsFiniteSet(Members(u)')
    BY <2>1, <2>3, FS_RemoveElement
  <2>7. Cardinality(Members(u)') \in Nat
    BY <2>6, FS_CardinalityType
  <2> QED
    BY <2>2, <2>4, <2>5, <2>6, <2>7, Numbers
<1>6. TypeOK'
  <2>1. phase' \in Select .. NbClients
    BY <1>1, Numbers DEF ClientSlots
  <2>2. tiles' \in [Tiles -> Seq(Objects)] /\ player' \in [Objects -> PlayerTypes]
    BY <1>1, <1>4, ZeroPlayerType DEF IndInv, TypeOK
  <2>3. clients' \in [ClientSlots -> Objects \cup {0}] /\ live' \subseteq Objects
    BY <1>1 DEF IndInv, TypeOK
  <2>4. current' \in [Teams -> Nat]
    <3>1. current' = [u \in Teams |-> current'[u]]
      BY <1>1 DEF IndInv, TypeOK
    <3> QED
      BY <1>5, <3>1
  <2>5. queue' \in [Objects -> Seq(EventTypes)] /\ removals' \in Seq(Nat)
    BY <1>1, <1>2 DEF IndInv, TypeOK
  <2> QED
    BY <1>1, <2>1, <2>2, <2>3, <2>4, <2>5 DEF IndInv, TypeOK
<1>7. TilesInv'
  <2> SUFFICES ASSUME NEW u \in Tiles
               PROVE  /\ NoRepeats(tiles'[u])
                      /\ \A q \in Objects : OnTile(tiles'[u], q) <=> q \in live' /\ player'[q].pos = u
    BY DEF TilesInv
  <2>1. /\ NoRepeats(tiles[u])
        /\ \A q \in Objects : OnTile(tiles[u], q) <=> q \in live /\ player[q].pos = u
    BY DEF IndInv, TilesInv
  <2>2. CASE u = t
    <3>1. tiles'[u] = Without(tiles[t], o)
      BY <1>1, <1>4, <2>2
    <3> QED
      BY <1>1, <1>3, <1>4, <2>1, <2>2, <3>1
  <2>3. CASE u # t
    <3>1. tiles'[u] = tiles[u]
      BY <1>1, <1>4, <2>3
    <3> QED
      BY <1>1, <1>3, <2>1, <2>3, <3>1 DEF t
  <2> QED
    BY <2>2, <2>3
<1>8. RegInv'
  <2>1. \A s \in ClientSlots : clients'[s] = IF clients[s] = o THEN 0 ELSE clients[s]
    BY <1>1
  <2>2. \A q \in live' : \E s \in ClientSlots : clients'[s] = q
    BY <1>1, <2>1 DEF IndInv, RegInv
  <2>3. /\ \A s \in ClientSlots : clients'[s] # 0 => clients'[s] \in live'
        /\ \A s, r \in ClientSlots : clients'[s] # 0 /\ clients'[s] = clients'[r] => s = r
    BY <1>1, <2>1 DEF IndInv, RegInv
  <2> QED
    BY <1>5, <2>2, <2>3 DEF RegInv
<1>9. QueueInv'
  BY <1>1 DEF IndInv, QueueInv, TypeOK
<1>10. LifeInv'
  <2>1. 0 \notin live
    BY Numbers DEF IndInv, TypeOK
  <2>2. \A q \in live' : /\ q \in live /\ q # o /\ player'[q] = player[q]
                         /\ \A s \in ClientSlots : clients'[s] = q => clients[s] = q
    BY <1>1, <1>3, <2>1 DEF IndInv, TypeOK
  <2>3. \A q \in live' : Marked(q)' <=> Marked(q)
    BY <2>2 DEF Marked
  <2>4. \A q \in live' :
            /\ player'[q].level >= 1
            /\ Marked(q)' => /\ Marked(q) /\ clients[phase] # q
                             /\ player'[q].die_time = 0 /\ player'[q].inv["nourriture"] = 0
            /\ \A s \in ClientSlots : clients'[s] = q => clients[s] = q
    BY <1>1, <2>2, <2>3 DEF IndInv, LifeInv
  <2>5. live' \subseteq live
    BY <1>1
  <2> QED
    BY <1>1, <2>4, <2>5, PassSlot
<1> QED
  BY <1>6, <1>7, <1>8, <1>9, <1>10 DEF IndInv

----------------------------------------------------------------------------
(* The commands *)

\* What is known when game_play takes the next event of a client.
LEMMA CommandFacts ==
  ASSUME IndInv, NEW o \in Objects, NEW p \in Objects, NEW names, Command(o, p, names)
  PROVE  /\ phase \in ClientSlots /\ clients[phase] = o
         /\ phase' = phase + 1 /\ phase' \in Select .. NbClients
         /\ UNCHANGED <<now, cursor, spawn_at, next_idx, live, clients, current, removals>>
         /\ o \in live /\ ~Marked(o)
         /\ Len(queue[o]) \in Nat \ {0} /\ DOMAIN queue[o] = 1 .. Len(queue[o])
         /\ Head(queue[o]) = queue[o][1] /\ Head(queue[o]) \in EventTypes
         /\ Head(queue[o]).callback \in names /\ Head(queue[o]).data = p
         /\ Head(queue[o]).callback # "real_incantation" => p = o
<1> USE DEF Command, AtSlot
<1>1. /\ phase \in ClientSlots /\ clients[phase] = o /\ o # 0 /\ phase' = phase + 1
      /\ UNCHANGED <<now, cursor, spawn_at, next_idx, live, clients, current, removals>>
  BY DEF loop, registry
<1>2. o \in live /\ phase' \in Select .. NbClients
  BY <1>1, Numbers DEF IndInv, RegInv, ClientSlots
<1>3. player[o].die_time # 0
  BY <1>2 DEF PLAYER_IS_ALIVE, IndInv, TypeOK
<1>4. ~Marked(o)
  BY <1>2, <1>3 DEF IndInv, LifeInv
<1>5. queue[o] # <<>> /\ queue[o] \in Seq(EventTypes)
  BY DEF CLIENT_HAS_ACTIONS, IndInv, TypeOK
<1>6. /\ Len(queue[o]) \in Nat \ {0} /\ DOMAIN queue[o] = 1 .. Len(queue[o])
      /\ Head(queue[o]) = queue[o][1] /\ Head(queue[o]) \in EventTypes
  BY <1>5
<1>7. 1 \in DOMAIN queue[o]
  BY <1>6
<1>8. Head(queue[o]).callback # "real_incantation" => Head(queue[o]).data = o
  BY <1>6, <1>7 DEF IndInv, QueueInv
<1> QED
  BY <1>1, <1>2, <1>4, <1>6, <1>8

\* The queues after the next event of a client was taken.
LEMMA PoppedQueues ==
  ASSUME IndInv, NEW o \in Objects, queue[o] # <<>>
  PROVE  /\ Popped(o) \in [Objects -> Seq(EventTypes)]
         /\ \A q \in Objects : q # o => Popped(o)[q] = queue[q]
         /\ Len(Popped(o)[o]) = Len(queue[o]) - 1
         /\ DOMAIN Popped(o)[o] = 1 .. Len(queue[o]) - 1
         /\ \A i \in DOMAIN Popped(o)[o] : i + 1 \in DOMAIN queue[o] /\ Popped(o)[o][i] = queue[o][i + 1]
         /\ queue' = Popped(o) /\ live' = live => QueueInv'
<1> DEFINE new == Popped(o)
<1>1. queue[o] \in Seq(EventTypes) /\ queue \in [Objects -> Seq(EventTypes)]
  BY DEF IndInv, TypeOK
<1>2. /\ Tail(queue[o]) \in Seq(EventTypes)
      /\ Len(Tail(queue[o])) = Len(queue[o]) - 1
      /\ DOMAIN Tail(queue[o]) = 1 .. Len(queue[o]) - 1
      /\ \A i \in DOMAIN Tail(queue[o]) : i + 1 \in DOMAIN queue[o] /\ Tail(queue[o])[i] = queue[o][i + 1]
  BY <1>1
<1>3. /\ new \in [Objects -> Seq(EventTypes)]
      /\ \A q \in Objects : new[q] = IF q = o THEN Tail(queue[o]) ELSE queue[q]
  BY <1>1, <1>2 DEF Popped
<1> HIDE DEF new
<1>4. ASSUME queue' = new, live' = live PROVE QueueInv'
  <2> SUFFICES ASSUME NEW q \in Objects
               PROVE  /\ q \notin live' => queue'[q] = <<>>
                      /\ \A i \in DOMAIN queue'[q] : queue'[q][i].callback # "real_incantation"
                                                       => queue'[q][i].data = q
    BY DEF QueueInv
  <2>1. CASE q = o
    <3>1. o \in live /\ \A i \in DOMAIN queue[o] : queue[o][i].callback # "real_incantation"
                                                      => queue[o][i].data = o
      BY DEF IndInv, QueueInv
    <3>2. queue'[q] = Tail(queue[o])
      BY <1>3, <1>4, <2>1
    <3> QED
      BY <1>2, <1>4, <2>1, <3>1, <3>2
  <2>2. CASE q # o
    BY <1>3, <1>4, <2>2 DEF IndInv, QueueInv
  <2> QED
    BY <2>1, <2>2
<1>5. /\ \A q \in Objects : q # o => new[q] = queue[q]
      /\ Len(new[o]) = Len(queue[o]) - 1
      /\ DOMAIN new[o] = 1 .. Len(queue[o]) - 1
      /\ \A i \in DOMAIN new[o] : i + 1 \in DOMAIN queue[o] /\ new[o][i] = queue[o][i + 1]
  BY <1>2, <1>3
<1> QED
  BY <1>3, <1>4, <1>5 DEF new

(***************************************************************************)
(* A command does not touch slots and teams, gives nobody time, and feeds  *)
(* nobody but its own player: what is left to be shown of it are the       *)
(* types, the tiles and the queues.                                        *)
(***************************************************************************)
LEMMA CommandFrame ==
  ASSUME IndInv, NEW o \in Objects, NEW p \in Objects, NEW names, Command(o, p, names),
         stuck' \in BOOLEAN,
         player' \in [Objects -> PlayerTypes],
         queue' \in [Objects -> Seq(EventTypes)],
         tiles' \in [Tiles -> Seq(Objects)],
         items' \in [Tiles -> Inventories],
         \A q \in Objects :
            /\ player'[q].fd = player[q].fd /\ player'[q].team = player[q].team
            /\ player'[q].start_time = player[q].start_time
            /\ player'[q].die_time = player[q].die_time
            /\ player'[q].level >= player[q].level
            /\ q # o => player'[q].inv["nourriture"] = player[q].inv["nourriture"],
         TilesInv', QueueInv'
  PROVE  IndInv'
<1>1. /\ phase \in ClientSlots /\ clients[phase] = o
      /\ phase' = phase + 1 /\ phase' \in Select .. NbClients
      /\ UNCHANGED <<now, cursor, spawn_at, next_idx, live, clients, current, removals>>
      /\ ~Marked(o) /\ live \subseteq Objects
  BY CommandFacts DEF IndInv, TypeOK
<1>2. TypeOK'
  BY <1>1 DEF IndInv, TypeOK
<1>3. RegInv'
  BY <1>1, RegFrame DEF IndInv
<1>4. \A q \in Objects : Marked(q)' <=> Marked(q)
  BY DEF Marked
<1>5. ASSUME NEW q \in live'
      PROVE  /\ player'[q].level >= 1
             /\ Marked(q)' => /\ Marked(q) /\ clients[phase] # q
                              /\ player'[q].die_time = 0 /\ player'[q].inv["nourriture"] = 0
             /\ \A s \in ClientSlots : clients'[s] = q => clients[s] = q
  <2>1. q \in live /\ q \in Objects
    BY <1>1
  <2>2. /\ player[q].level >= 1 /\ player[q].level \in Nat
        /\ player'[q].level \in Nat /\ player'[q].level >= player[q].level
    BY <2>1 DEF IndInv, TypeOK, LifeInv, PlayerTypes
  <2>3. Marked(q) => player[q].die_time = 0 /\ player[q].inv["nourriture"] = 0
    BY <2>1 DEF IndInv, LifeInv
  <2>4. player'[q].level >= 1
    BY <2>2
  <2>5. Marked(q)' => Marked(q) /\ q # o
    BY <1>1, <1>4, <2>1
  <2>6. Marked(q)' => player'[q].die_time = 0 /\ player'[q].inv["nourriture"] = 0
    BY <2>1, <2>3, <2>5
  <2> QED
    BY <1>1, <2>4, <2>5, <2>6
<1>6. LifeInv'
  BY <1>1, <1>5, PassSlot
<1> QED
  BY <1>2, <1>3, <1>6 DEF IndInv

\* The tile in front of a player is on the map.
LEMMA AheadIsTile ==
  ASSUME TypeOK, NEW p \in Objects
  PROVE  Ahead(p) \in Tiles /\ player[p] \in PlayerTypes /\ player[p].pos \in Tiles
<1>1. player[p] \in PlayerTypes /\ player[p].pos \in Tiles /\ player[p].dir \in Directions
  BY DEF TypeOK, PlayerTypes
<1>2. ASSUME NEW dx \in Int, NEW dy \in Int PROVE At(player[p].pos, dx, dy) \in Tiles
  <2>1. player[p].pos[1] \in Int /\ player[p].pos[2] \in Int
    BY <1>1 DEF Tiles
  <2>2. /\ (player[p].pos[1] + dx) % MapX \in 0 .. MapX - 1
        /\ (player[p].pos[2] + dy) % MapY \in 0 .. MapY - 1
    BY <2>1, MapAssumption
  <2> QED
    BY <2>2 DEF At, Tiles
<1>3. Facing(player[p].pos, player[p].dir) \in Tiles
  <2>1. /\ At(player[p].pos, 0, -1) \in Tiles /\ At(player[p].pos, 1, 0) \in Tiles
        /\ At(player[p].pos, 0, 1) \in Tiles /\ At(player[p].pos, -1, 0) \in Tiles
    BY <1>2
  <2>2. \/ player[p].dir = 0 \/ player[p].dir = 1 \/ player[p].dir = 2 \/ player[p].dir = 3
    BY <1>1 DEF Directions
  <2> QED
    BY <2>1, <2>2 DEF Facing
<1> QED
  BY <1>1, <1>3 DEF Ahead

\* The map has two columns and two rows at least: the tile in front is another one.
LEMMA AheadIsElsewhere ==
  ASSUME TypeOK, NEW p \in Objects
  PROVE  Ahead(p) # player[p].pos
<1> DEFINE t == player[p].pos
<1>1. t \in Tiles /\ player[p].dir \in 0 .. 3
  BY DEF TypeOK, PlayerTypes, Directions
<1>2. t[1] \in 0 .. MapX - 1 /\ t[2] \in 0 .. MapY - 1
  BY <1>1 DEF Tiles
<1> HIDE DEF t
<1>3. ASSUME NEW n \in Nat \ {0, 1}, NEW x \in 0 .. n - 1
      PROVE  (x + 1) % n # x /\ (x + (-1)) % n # x
  <2>1. CASE x + 1 \in 1 .. n - 1
    <3>1. (x + 1) % n = x + 1
      BY <2>1
    <3> QED
      BY <3>1
  <2>2. CASE x + 1 = n
    <3>1. (x + 1) % n = 0
      BY <2>2
    <3> QED
      BY <2>2, <3>1
  <2>3. CASE x + (-1) \in 0 .. n - 1
    <3>1. (x + (-1)) % n = x + (-1)
      BY <2>3
    <3> QED
      BY <3>1, <2>1, <2>2
  <2>4. CASE x = 0
    <3>1. (-1) % n = n - 1
      OBVIOUS
    <3> QED
      BY <2>1, <2>2, <2>4, <3>1
  <2> QED
    BY <2>3, <2>4
<1>4. /\ (t[1] + 1) % MapX # t[1] /\ (t[1] + (-1)) % MapX # t[1]
      /\ (t[2] + 1) % MapY # t[2] /\ (t[2] + (-1)) % MapY # t[2]
  BY <1>2, <1>3, MapAssumption
<1>5. At(t, 0, -1) # t /\ At(t, 1, 0) # t /\ At(t, 0, 1) # t /\ At(t, -1, 0) # t
  BY <1>4 DEF At
<1> QED
  BY <1>1, <1>5 DEF Ahead, Facing, t

LEMMA TurnStep ==
  ASSUME IndInv, NEW o \in Objects, NEW p \in Objects, m_command_droite_gauche(o, p)
  PROVE  IndInv'
<1> USE DEF m_command_droite_gauche
<1> DEFINE names == {"droite", "gauche"}
<1>1. Command(o, p, names) /\ queue[o] # <<>>
  BY DEF Command, CLIENT_HAS_ACTIONS
<1> HIDE DEF names
<1>2. UNCHANGED <<live, clients, current>> /\ p \in live
  BY <1>1, CommandFacts DEF m_command_droite_gauche, names
<1>3. queue' \in [Objects -> Seq(EventTypes)] /\ QueueInv'
  BY <1>1, <1>2, PoppedQueues
<1>4. PICK d \in Directions : player' = [player EXCEPT ![p].dir = d]
  <2>1. player[p].dir \in 0 .. 3
    BY DEF IndInv, TypeOK, PlayerTypes, Directions
  <2>2. (player[p].dir + (IF Head(queue[o]).callback = "droite" THEN 1 ELSE 3)) % 4 \in 0 .. 3
    BY <2>1
  <2> QED
    BY <2>2 DEF Directions
<1>5. player' \in [Objects -> PlayerTypes]
  <2>1. player[p] \in PlayerTypes
    BY DEF IndInv, TypeOK
  <2>2. [player[p] EXCEPT !.dir = d] \in PlayerTypes
    BY <2>1 DEF PlayerTypes
  <2>3. player' = [player EXCEPT ![p] = [player[p] EXCEPT !.dir = d]]
    BY <1>4
  <2> QED
    BY <2>2, <2>3 DEF IndInv, TypeOK
<1>6. \A q \in Objects :
         /\ player'[q].fd = player[q].fd /\ player'[q].team = player[q].team
         /\ player'[q].start_time = player[q].start_time
         /\ player'[q].die_time = player[q].die_time
         /\ player'[q].level = player[q].level /\ player[q].level \in Nat
         /\ player'[q].inv = player[q].inv
         /\ player'[q].pos = player[q].pos
  <2> SUFFICES ASSUME NEW q \in Objects
               PROVE  /\ player'[q].fd = player[q].fd /\ player'[q].team = player[q].team
                      /\ player'[q].start_time = player[q].start_time
                      /\ player'[q].die_time = player[q].die_time
                      /\ player'[q].level = player[q].level /\ player[q].level \in Nat
                      /\ player'[q].inv = player[q].inv
                      /\ player'[q].pos = player[q].pos
    OBVIOUS
  <2>1. player[q] \in PlayerTypes
    BY DEF IndInv, TypeOK
  <2>2. player'[q] = IF q = p THEN [player[q] EXCEPT !.dir = d] ELSE player[q]
    BY <1>4 DEF IndInv, TypeOK
  <2> QED
    BY <2>1, <2>2 DEF PlayerTypes
<1>7. TilesInv'
  BY <1>2, <1>6, TilesFrame DEF IndInv
<1>8. stuck' \in BOOLEAN /\ tiles' \in [Tiles -> Seq(Objects)] /\ items' \in [Tiles -> Inventories]
  BY DEF IndInv, TypeOK
<1>9. \A q \in Objects :
            /\ player'[q].fd = player[q].fd /\ player'[q].team = player[q].team
            /\ player'[q].start_time = player[q].start_time
            /\ player'[q].die_time = player[q].die_time
            /\ player'[q].level >= player[q].level
            /\ q # o => player'[q].inv["nourriture"] = player[q].inv["nourriture"]
  BY <1>6
<1> QED
  BY <1>1, <1>3, <1>5, <1>7, <1>8, <1>9, CommandFrame

\* A player taken off tile t and put on tile d: the others stay where they are.
LEMMA MovedLists ==
  ASSUME TilesInv, TypeOK, NEW t \in Tiles, NEW d \in Tiles, d # t, NEW p \in Objects,
         OnTile(tiles[t], p),
         tiles' = [tiles EXCEPT ![t] = Without(@, p), ![d] = PushFront(@, p)]
  PROVE  /\ tiles' \in [Tiles -> Seq(Objects)]
         /\ \A u \in Tiles : NoRepeats(tiles'[u])
         /\ \A u \in Tiles, q \in Objects :
               OnTile(tiles'[u], q) <=> IF q = p THEN u = d ELSE OnTile(tiles[u], q)
<1> DEFINE left == Without(tiles[t], p)
<1>1. /\ tiles \in [Tiles -> Seq(Objects)]
      /\ \A u \in Tiles : tiles[u] \in Seq(Objects) /\ NoRepeats(tiles[u])
      /\ \A u \in Tiles : OnTile(tiles[u], p) <=> u = t
  BY DEF TypeOK, TilesInv
<1>2. /\ left \in Seq(Objects) /\ NoRepeats(left)
      /\ \A q : OnTile(left, q) <=> q # p /\ OnTile(tiles[t], q)
  BY <1>1, WithoutPlayers
<1> HIDE DEF left
<1> DEFINE before(u) == IF u = t THEN left ELSE tiles[u]
<1>3. \A u \in Tiles : /\ before(u) \in Seq(Objects) /\ NoRepeats(before(u))
                       /\ ~OnTile(before(u), p)
                       /\ \A q : q # p => (OnTile(before(u), q) <=> OnTile(tiles[u], q))
  BY <1>1, <1>2
<1>4. \A u \in Tiles : tiles'[u] = IF u = d THEN PushFront(before(d), p) ELSE before(u)
  BY <1>1 DEF left
<1>5. tiles' = [u \in Tiles |-> tiles'[u]]
  BY <1>1
<1> HIDE DEF before
<1>6. PushFront(before(d), p) \in Seq(Objects)
  BY <1>3, PushFrontList
<1>7. /\ \A q : OnTile(PushFront(before(d), p), q) <=> q = p \/ OnTile(before(d), q)
      /\ NoRepeats(PushFront(before(d), p))
  BY <1>3, PushFrontPlayers
<1>8. tiles' \in [Tiles -> Seq(Objects)]
  <2>1. \A u \in Tiles : tiles'[u] \in Seq(Objects)
    BY <1>3, <1>4, <1>6
  <2> QED
    BY <1>5, <2>1
<1>9. \A u \in Tiles : NoRepeats(tiles'[u])
  BY <1>3, <1>4, <1>7
<1>10. ASSUME NEW u \in Tiles, NEW q \in Objects
       PROVE  OnTile(tiles'[u], q) <=> IF q = p THEN u = d ELSE OnTile(tiles[u], q)
  BY <1>3, <1>4, <1>7
<1> QED
  BY <1>8, <1>9, <1>10

LEMMA AvanceStep ==
  ASSUME IndInv, NEW o \in Objects, NEW p \in Objects, m_command_avance(o, p)
  PROVE  IndInv'
<1> USE DEF m_command_avance
<1> DEFINE names == {"avance"}
<1> DEFINE t == player[p].pos
<1> DEFINE d == Ahead(p)
<1>1. Command(o, p, names) /\ queue[o] # <<>>
  BY DEF Command, CLIENT_HAS_ACTIONS
<1>2. Head(queue[o]).callback \in names => Head(queue[o]).callback # "real_incantation"
  OBVIOUS
<1> HIDE DEF names
<1>3. live' = live /\ o \in live /\ p = o
  BY <1>1, <1>2, CommandFacts
<1>4. queue' \in [Objects -> Seq(EventTypes)] /\ QueueInv'
  BY <1>1, <1>3, PoppedQueues
<1>5. t \in Tiles /\ d \in Tiles /\ d # t
  BY AheadIsTile, AheadIsElsewhere DEF IndInv
<1>6. OnTile(tiles[t], p)
  BY <1>3, <1>5 DEF IndInv, TilesInv
<1>7. /\ player' = [player EXCEPT ![p].pos = d]
      /\ tiles' = [tiles EXCEPT ![t] = Without(@, p), ![d] = PushFront(@, p)]
      /\ stuck' = stuck /\ items' = items
  OBVIOUS
<1> HIDE DEF t, d, m_command_avance
<1>8. \A q \in Objects : player'[q] = IF q = p THEN [player[q] EXCEPT !.pos = d] ELSE player[q]
  BY <1>7 DEF IndInv, TypeOK
<1>9. /\ tiles' \in [Tiles -> Seq(Objects)]
      /\ \A u \in Tiles : NoRepeats(tiles'[u])
      /\ \A u \in Tiles, q \in Objects :
            OnTile(tiles'[u], q) <=> IF q = p THEN u = d ELSE OnTile(tiles[u], q)
  BY <1>5, <1>6, <1>7, MovedLists DEF IndInv
<1>10. ASSUME NEW q \in Objects
       PROVE  /\ player'[q] \in PlayerTypes
              /\ player'[q].fd = player[q].fd /\ player'[q].team = player[q].team
              /\ player'[q].start_time = player[q].start_time
              /\ player'[q].die_time = player[q].die_time
              /\ player'[q].level >= player[q].level
              /\ player'[q].inv = player[q].inv
              /\ player'[q].pos = IF q = p THEN d ELSE player[q].pos
  <2>1. player[q] \in PlayerTypes /\ player[q].level \in Nat
    BY DEF IndInv, TypeOK, PlayerTypes
  <2>2. CASE q = p
    <3>1. player'[q] = [player[q] EXCEPT !.pos = d]
      BY <1>8, <2>2
    <3> QED
      BY <1>5, <2>1, <2>2, <3>1 DEF PlayerTypes
  <2>3. CASE q # p
    <3>1. player'[q] = player[q]
      BY <1>8, <2>3
    <3>2. player[q].level >= player[q].level
      BY <2>1
    <3> QED
      BY <2>1, <2>3, <3>1, <3>2
  <2> QED
    BY <2>2, <2>3
<1>11. player' \in [Objects -> PlayerTypes]
  <2>1. player' = [q \in Objects |-> player'[q]]
    BY <1>7 DEF IndInv, TypeOK
  <2> QED
    BY <1>10, <2>1
<1>12. TilesInv'
  BY <1>3, <1>9, <1>10 DEF IndInv, TilesInv
<1>13. stuck' \in BOOLEAN /\ items' \in [Tiles -> Inventories]
  BY <1>7 DEF IndInv, TypeOK
<1>14. \A q \in Objects :
            /\ player'[q].fd = player[q].fd /\ player'[q].team = player[q].team
            /\ player'[q].start_time = player[q].start_time
            /\ player'[q].die_time = player[q].die_time
            /\ player'[q].level >= player[q].level
            /\ q # o => player'[q].inv["nourriture"] = player[q].inv["nourriture"]
  BY <1>10
<1> QED
  BY <1>1, <1>4, <1>9, <1>11, <1>12, <1>13, <1>14, CommandFrame

LEMMA ReportingStep ==
  ASSUME IndInv, NEW o \in Objects, NEW p \in Objects, ReportingCommand(o, p)
  PROVE  IndInv'
<1> DEFINE names == {"voir", "inventaire", "broadcast", "fork", "connect_nbr"}
<1>1. /\ Command(o, p, names) /\ queue[o] # <<>> /\ queue' = Popped(o)
      /\ UNCHANGED <<stuck, player, tiles, items>>
  BY DEF ReportingCommand, Command, CLIENT_HAS_ACTIONS
<1> HIDE DEF names
<1>2. live' = live
  BY <1>1, CommandFacts
<1>3. queue' \in [Objects -> Seq(EventTypes)] /\ QueueInv'
  BY <1>1, <1>2, PoppedQueues
<1>4. /\ stuck' \in BOOLEAN /\ player' \in [Objects -> PlayerTypes]
      /\ tiles' \in [Tiles -> Seq(Objects)] /\ items' \in [Tiles -> Inventories]
  BY <1>1 DEF IndInv, TypeOK
<1>5. TilesInv'
  BY <1>1, <1>2, TilesFrame DEF IndInv
<1>6. \A q \in Objects : player'[q].level >= player[q].level
  <2>1. \A q \in Objects : player'[q].level = player[q].level /\ player[q].level \in Nat
    BY <1>1 DEF IndInv, TypeOK, PlayerTypes
  <2> QED
    BY <2>1
<1> QED
  BY <1>1, <1>3, <1>4, <1>5, <1>6, CommandFrame

\* What m_helper_items_to_tiles leaves are counts, when what it takes is there.
LEMMA TransferType ==
  ASSUME NEW inv \in Inventories, NEW r, NEW n \in Int, r \in Resources => inv[r] + n >= 0
  PROVE  Transfer(inv, r, n) \in Inventories
<1>1. CASE r \notin Resources
  BY <1>1 DEF Transfer
<1>2. CASE r \in Resources
  <2>1. inv[r] + n \in Nat
    BY <1>2 DEF Inventories
  <2>2. [inv EXCEPT ![r] = inv[r] + n] \in Inventories
    BY <1>2, <2>1 DEF Inventories
  <2> QED
    BY <1>2, <2>2 DEF Transfer
<1> QED
  BY <1>1, <1>2

\* A player takes an item off its tile, or puts one there.
LEMMA TransferStep ==
  ASSUME IndInv, NEW o \in Objects, NEW names, Command(o, o, names), queue' = Popped(o),
         NEW taken \in Inventories, NEW left \in Inventories,
         player' = [player EXCEPT ![o].inv = taken],
         items' = [items EXCEPT ![player[o].pos] = left],
         UNCHANGED <<stuck, tiles>>
  PROVE  IndInv'
<1>1. live' = live /\ queue[o] # <<>>
  BY CommandFacts DEF Command, CLIENT_HAS_ACTIONS
<1>2. queue' \in [Objects -> Seq(EventTypes)] /\ QueueInv'
  BY <1>1, PoppedQueues
<1>3. \A q \in Objects : player'[q] = IF q = o THEN [player[q] EXCEPT !.inv = taken] ELSE player[q]
  BY DEF IndInv, TypeOK
<1>4. ASSUME NEW q \in Objects
      PROVE  /\ player'[q] \in PlayerTypes
             /\ player'[q].fd = player[q].fd /\ player'[q].team = player[q].team
             /\ player'[q].start_time = player[q].start_time
             /\ player'[q].die_time = player[q].die_time
             /\ player'[q].level >= player[q].level
             /\ player'[q].pos = player[q].pos
             /\ q # o => player'[q].inv["nourriture"] = player[q].inv["nourriture"]
  <2>1. player[q] \in PlayerTypes /\ player[q].level \in Nat
    BY DEF IndInv, TypeOK, PlayerTypes
  <2> QED
    BY <1>3, <2>1 DEF PlayerTypes
<1>5. player' \in [Objects -> PlayerTypes]
  <2>1. player' = [q \in Objects |-> player'[q]]
    BY DEF IndInv, TypeOK
  <2> QED
    BY <1>4, <2>1
<1>6. TilesInv'
  BY <1>1, <1>4, TilesFrame DEF IndInv
<1>7. stuck' \in BOOLEAN /\ tiles' \in [Tiles -> Seq(Objects)] /\ items' \in [Tiles -> Inventories]
  BY DEF IndInv, TypeOK
<1>8. \A q \in Objects :
            /\ player'[q].fd = player[q].fd /\ player'[q].team = player[q].team
            /\ player'[q].start_time = player[q].start_time
            /\ player'[q].die_time = player[q].die_time
            /\ player'[q].level >= player[q].level
            /\ q # o => player'[q].inv["nourriture"] = player[q].inv["nourriture"]
  BY <1>4
<1> QED
  BY <1>2, <1>5, <1>6, <1>7, <1>8, CommandFrame

LEMMA PrendStep ==
  ASSUME IndInv, NEW o \in Objects, NEW p \in Objects, m_command_prend(o, p)
  PROVE  IndInv'
<1> DEFINE names == {"prend"}
<1> DEFINE t == player[p].pos
<1> DEFINE r == Head(queue[o]).arg
<1> DEFINE n == IF r \in Resources /\ items[t][r] > 0 THEN 1 ELSE 0
<1>1. /\ Command(o, p, names) /\ queue' = Popped(o) /\ UNCHANGED <<stuck, tiles>>
      /\ player' = [player EXCEPT ![p].inv = Transfer(player[p].inv, r, n)]
      /\ items' = [items EXCEPT ![t] = Transfer(items[t], r, -n)]
  BY DEF m_command_prend, IndInv, TypeOK
<1>2. \A name \in names : name # "real_incantation"
  OBVIOUS
<1> HIDE DEF names
<1>3. p = o
  BY <1>1, <1>2, CommandFacts
<1>4. player[p].inv \in Inventories /\ items[t] \in Inventories
  BY AheadIsTile DEF IndInv, TypeOK, PlayerTypes
<1>5. /\ n \in Int /\ -n \in Int
      /\ r \in Resources => /\ player[p].inv[r] \in Nat /\ items[t][r] \in Nat
                            /\ player[p].inv[r] + n >= 0 /\ items[t][r] + (-n) >= 0
  BY <1>4 DEF Inventories
<1> HIDE DEF n, r
<1>6. Transfer(player[p].inv, r, n) \in Inventories
  BY <1>4, <1>5, TransferType
<1>7. Transfer(items[t], r, -n) \in Inventories
  BY <1>4, <1>5, TransferType
<1> QED
  BY <1>1, <1>3, <1>6, <1>7, TransferStep

LEMMA PoseStep ==
  ASSUME IndInv, NEW o \in Objects, NEW p \in Objects, m_command_pose(o, p)
  PROVE  IndInv'
<1> DEFINE names == {"pose"}
<1> DEFINE t == player[p].pos
<1> DEFINE r == Head(queue[o]).arg
<1> DEFINE n == IF r \in Resources /\ player[p].inv[r] > 0 THEN 1 ELSE 0
<1>1. /\ Command(o, p, names) /\ queue' = Popped(o) /\ UNCHANGED <<stuck, tiles>>
      /\ player' = [player EXCEPT ![p].inv = Transfer(player[p].inv, r, -n)]
      /\ items' = [items EXCEPT ![t] = Transfer(items[t], r, n)]
  BY DEF m_command_pose, IndInv, TypeOK
<1>2. \A name \in names : name # "real_incantation"
  OBVIOUS
<1> HIDE DEF names
<1>3. p = o
  BY <1>1, <1>2, CommandFacts
<1>4. player[p].inv \in Inventories /\ items[t] \in Inventories
  BY AheadIsTile DEF IndInv, TypeOK, PlayerTypes
<1>5. /\ n \in Int /\ -n \in Int
      /\ r \in Resources => /\ player[p].inv[r] \in Nat /\ items[t][r] \in Nat
                            /\ player[p].inv[r] + (-n) >= 0 /\ items[t][r] + n >= 0
  BY <1>4 DEF Inventories
<1> HIDE DEF n, r
<1>6. Transfer(player[p].inv, r, -n) \in Inventories
  BY <1>4, <1>5, TransferType
<1>7. Transfer(items[t], r, n) \in Inventories
  BY <1>4, <1>5, TransferType
<1> QED
  BY <1>1, <1>3, <1>6, <1>7, TransferStep

LEMMA ExpulseStep ==
  ASSUME IndInv, NEW o \in Objects, NEW p \in Objects, m_command_expulse(o, p)
  PROVE  IndInv'
<1> DEFINE names == {"expulse"}
<1> DEFINE t == player[p].pos
<1> DEFINE d == Ahead(p)
<1> DEFINE self == {q \in live : player[q].fd = player[p].fd}
<1>1. /\ Command(o, p, names) /\ queue[o] # <<>> /\ queue' = Popped(o) /\ items' = items
      /\ IF ExpulseIsStuck(tiles, t, d, self)
         THEN stuck' = TRUE /\ UNCHANGED <<tiles, player>>
         ELSE /\ stuck' = stuck
              /\ tiles' = AfterExpulse(tiles, t, d, self)
              /\ player' = [q \in Objects |-> IF OnTile(tiles'[d], q)
                                              THEN [player[q] EXCEPT !.pos = d] ELSE player[q]]
  BY DEF m_command_expulse, Command, CLIENT_HAS_ACTIONS
<1>2. t \in Tiles /\ d \in Tiles /\ d # t
  BY AheadIsTile, AheadIsElsewhere DEF IndInv
<1> HIDE DEF names, t, d, self
<1>3. live' = live
  BY <1>1, CommandFacts
<1>4. queue' \in [Objects -> Seq(EventTypes)] /\ QueueInv'
  BY <1>1, <1>3, PoppedQueues
<1>5. stuck' \in BOOLEAN /\ items' \in [Tiles -> Inventories]
  BY <1>1 DEF IndInv, TypeOK
<1>6. /\ player \in [Objects -> PlayerTypes] /\ tiles \in [Tiles -> Seq(Objects)]
      /\ \A q \in Objects : player[q].level >= player[q].level
      /\ \A u \in Tiles : NoRepeats(tiles[u])
      /\ \A u \in Tiles, q \in Objects : OnTile(tiles[u], q) <=> q \in live /\ player[q].pos = u
  <2>1. player \in [Objects -> PlayerTypes] /\ tiles \in [Tiles -> Seq(Objects)]
    BY DEF IndInv, TypeOK
  <2>2. \A q \in Objects : player[q].level \in Nat
    BY <2>1 DEF PlayerTypes
  <2> QED
    BY <2>1, <2>2 DEF IndInv, TilesInv
<1>7. CASE UNCHANGED <<tiles, player>>
  <2>1. TilesInv'
    BY <1>3, <1>7, TilesFrame DEF IndInv
  <2>2. player' \in [Objects -> PlayerTypes] /\ tiles' \in [Tiles -> Seq(Objects)]
    BY <1>6, <1>7
  <2> QED
    BY <1>1, <1>4, <1>5, <1>6, <1>7, <2>1, <2>2, CommandFrame
<1>8. CASE ~ExpulseIsStuck(tiles, t, d, self) /\ OthersAt(tiles[t], self) = {}
  <2>1. tiles' = tiles
    BY <1>1, <1>8 DEF AfterExpulse
  <2>2. ASSUME NEW q \in Objects
        PROVE  (IF OnTile(tiles[d], q) THEN [player[q] EXCEPT !.pos = d] ELSE player[q]) = player[q]
    <3>1. CASE OnTile(tiles[d], q)
      <4>1. player[q].pos = d /\ player[q] \in PlayerTypes
        BY <1>2, <1>6, <3>1
      <4>2. [player[q] EXCEPT !.pos = d] = player[q]
        BY <4>1 DEF PlayerTypes
      <4> QED
        BY <3>1, <4>2
    <3> QED
      BY <3>1
  <2>3. player' = [q \in Objects |-> IF OnTile(tiles[d], q)
                                     THEN [player[q] EXCEPT !.pos = d] ELSE player[q]]
    BY <1>1, <1>8, <2>1
  <2>4. player' = [q \in Objects |-> player[q]]
    BY <2>2, <2>3
  <2>5. player' = player
    BY <1>6, <2>4
  <2> QED
    BY <1>7, <2>1, <2>5
<1>9. CASE ~ExpulseIsStuck(tiles, t, d, self) /\ OthersAt(tiles[t], self) # {}
  <2>1. PICK x \in Objects : x = FirstOther(tiles[t], self) /\ OnTile(tiles[t], x)
    <3>1. tiles[t] \in Seq(Objects)
      BY <1>2, <1>6
    <3>2. PICK k \in DOMAIN tiles[t] : FirstOther(tiles[t], self) = tiles[t][k]
      BY <1>9, <3>1, FirstOtherIsFirst
    <3> QED
      BY <3>1, <3>2 DEF OnTile
  <2>2. tiles' = [tiles EXCEPT ![t] = Without(@, x), ![d] = PushFront(@, x)]
    BY <1>1, <1>9, <2>1 DEF AfterExpulse
  <2>3. /\ tiles' \in [Tiles -> Seq(Objects)]
        /\ \A u \in Tiles : NoRepeats(tiles'[u])
        /\ \A u \in Tiles, q \in Objects :
              OnTile(tiles'[u], q) <=> IF q = x THEN u = d ELSE OnTile(tiles[u], q)
    <3>1. TilesInv /\ TypeOK /\ OnTile(tiles[t], x)
      BY <2>1 DEF IndInv
    <3> QED
      BY <1>2, <2>2, <3>1, MovedLists
  <2>4. \A q \in Objects : player'[q] = IF OnTile(tiles'[d], q)
                                        THEN [player[q] EXCEPT !.pos = d] ELSE player[q]
    BY <1>1, <1>9
  <2>5. ASSUME NEW q \in Objects
        PROVE  /\ player'[q] \in PlayerTypes
               /\ player'[q].fd = player[q].fd /\ player'[q].team = player[q].team
               /\ player'[q].start_time = player[q].start_time
               /\ player'[q].die_time = player[q].die_time
               /\ player'[q].level >= player[q].level
               /\ player'[q].inv = player[q].inv
               /\ player'[q].pos = IF q = x THEN d ELSE player[q].pos
    <3>1. player[q] \in PlayerTypes /\ player[q].level \in Nat
      BY <1>6 DEF PlayerTypes
    <3>2. OnTile(tiles'[d], q) <=> q = x \/ (q \in live /\ player[q].pos = d)
      BY <1>2, <1>6, <2>3
    <3>3. CASE OnTile(tiles'[d], q)
      <4>1. player'[q] = [player[q] EXCEPT !.pos = d]
        BY <2>4, <3>3
      <4>2. q = x \/ player[q].pos = d
        BY <3>2, <3>3
      <4> QED
        BY <1>2, <3>1, <4>1, <4>2 DEF PlayerTypes
    <3>4. CASE ~OnTile(tiles'[d], q)
      <4>1. player'[q] = player[q] /\ q # x
        BY <2>4, <3>2, <3>4
      <4> QED
        BY <3>1, <4>1
    <3> QED
      BY <3>3, <3>4
  <2>6. player' \in [Objects -> PlayerTypes]
    <3>1. player' = [q \in Objects |-> player'[q]]
      BY <1>1, <1>9
    <3> QED
      BY <2>5, <3>1
  <2>7. x \in live
    BY <1>2, <1>6, <2>1
  <2>8. TilesInv'
    BY <1>3, <1>6, <2>3, <2>5, <2>7, SMTT(30) DEF TilesInv
  <2>9. \A q \in Objects :
            /\ player'[q].fd = player[q].fd /\ player'[q].team = player[q].team
            /\ player'[q].start_time = player[q].start_time
            /\ player'[q].die_time = player[q].die_time
            /\ player'[q].level >= player[q].level
            /\ q # o => player'[q].inv["nourriture"] = player[q].inv["nourriture"]
    BY <2>5
  <2> QED
    BY <1>1, <1>4, <1>5, <2>3, <2>6, <2>8, <2>9, CommandFrame
<1> QED
  BY <1>1, <1>7, <1>8, <1>9

\* What a level requires is a number of players and of each stone.
LEMMA LevelFacts ==
  ASSUME NEW l \in 0 .. LEVEL_MAX - 1
  PROVE  /\ \A r \in Resources : Requisites(l).inv[r] \in Nat
         /\ Requisites(l).players \in Nat \ {0}
<1>1. l + 1 \in 1 .. 7
  BY DEF LEVEL_MAX
<1>2. ASSUME NEW a \in Nat, NEW b \in Nat, NEW c \in Nat, NEW e \in Nat, NEW f \in Nat, NEW g \in Nat,
             NEW r \in Resources
      PROVE  Stones(a, b, c, e, f, g)[r] \in Nat
  BY DEF Stones, NoItems, Resources
<1>3. \A r \in Resources : Requisites(l).inv[r] \in Nat
  <2> SUFFICES ASSUME NEW r \in Resources PROVE Requisites(l).inv[r] \in Nat
    OBVIOUS
  <2> HIDE DEF Stones
  <2>1. /\ Stones(1, 0, 0, 0, 0, 0)[r] \in Nat /\ Stones(1, 1, 1, 0, 0, 0)[r] \in Nat
        /\ Stones(2, 0, 1, 0, 2, 0)[r] \in Nat /\ Stones(1, 1, 2, 0, 1, 0)[r] \in Nat
        /\ Stones(1, 2, 1, 3, 0, 0)[r] \in Nat /\ Stones(1, 2, 3, 0, 1, 0)[r] \in Nat
        /\ Stones(2, 2, 2, 2, 2, 1)[r] \in Nat
    BY <1>2
  <2> QED
    BY <1>1, <2>1 DEF Requisites, level_reqs
<1>4. Requisites(l).players \in Nat \ {0}
  BY <1>1 DEF Requisites, level_reqs
<1> QED
  BY <1>3, <1>4

LEMMA IncantationStep ==
  ASSUME IndInv, NEW o \in Objects, NEW p \in Objects, m_command_incantation(o, p)
  PROVE  IndInv'
<1> DEFINE names == {"incantation"}
<1> DEFINE can == m_game_check_can_incantation(p, TRUE)
<1> DEFINE t == player[p].pos
<1> DEFINE c == ClientOf(player[p].fd)
<1> DEFINE second == RealIncantation(now + IncantationTime, p, player[p].level)
<1>1. /\ Command(o, p, names) /\ queue[o] # <<>> /\ UNCHANGED <<stuck, player, tiles>>
      /\ can => items' = [items EXCEPT ![t] = Consumed(items[t], player[p].level)]
      /\ ~can => items' = items
      /\ \/ can /\ queue' = [Popped(o) EXCEPT ![c] = <<second>> \o @]
         \/ queue' = Popped(o)
  BY AheadIsTile DEF m_command_incantation, Command, CLIENT_HAS_ACTIONS, IndInv, TypeOK
<1>2. \A name \in names : name # "real_incantation"
  OBVIOUS
<1>3. can => /\ player[p].level < LEVEL_MAX
             /\ \A r \in Resources : items[t][r] >= Requisites(player[p].level).inv[r]
  BY DEF m_game_check_can_incantation
<1> HIDE DEF names, can
<1>4. live' = live /\ p = o /\ p \in live
  BY <1>1, <1>2, CommandFacts
<1>5. player[p] \in PlayerTypes /\ t \in Tiles /\ player[p].level \in 0 .. LEVEL_MAX
  BY AheadIsTile DEF IndInv, PlayerTypes
<1>6. c \in live
  BY <1>4, ClientOfFd DEF IndInv
<1>7. second \in EventTypes /\ second.callback = "real_incantation"
  <2>1. now + IncantationTime \in Nat
    BY GameAssumption DEF IndInv, TypeOK
  <2> QED
    BY <1>5, <2>1 DEF RealIncantation, EventTypes
<1> HIDE DEF c, second
<1>8. c \in Objects
  BY <1>6 DEF IndInv, TypeOK
<1>9. Popped(o) \in [Objects -> Seq(EventTypes)] /\ (queue' = Popped(o) => QueueInv')
  BY <1>1, <1>4, PoppedQueues
<1>10. ASSUME queue' = [Popped(o) EXCEPT ![c] = <<second>> \o @]
       PROVE  queue' \in [Objects -> Seq(EventTypes)] /\ QueueInv'
  <2> DEFINE old == Popped(o)[c]
  <2>1. /\ old \in Seq(EventTypes) /\ Len(old) \in Nat /\ DOMAIN old = 1 .. Len(old)
        /\ <<second>> \o old \in Seq(EventTypes)
        /\ DOMAIN (<<second>> \o old) = 1 .. Len(old) + 1
        /\ \A i \in 1 .. Len(old) + 1 : (<<second>> \o old)[i] = IF i = 1 THEN second ELSE old[i - 1]
    BY <1>7, <1>8, <1>9
  <2>2. /\ queue' \in [Objects -> Seq(EventTypes)]
        /\ \A q \in Objects : queue'[q] = IF q = c THEN <<second>> \o old ELSE Popped(o)[q]
    BY <1>9, <1>10, <2>1
  <2> HIDE DEF old
  <2>3. \A q \in Objects :
           /\ q \notin live => Popped(o)[q] = <<>>
           /\ \A i \in DOMAIN Popped(o)[q] : Popped(o)[q][i].callback # "real_incantation"
                                               => Popped(o)[q][i].data = q
    <3>1. ASSUME NEW q \in Objects, q # o
          PROVE  /\ q \notin live => Popped(o)[q] = <<>>
                 /\ \A i \in DOMAIN Popped(o)[q] : Popped(o)[q][i].callback # "real_incantation"
                                                     => Popped(o)[q][i].data = q
      <4>1. Popped(o)[q] = queue[q]
        BY <1>1, <3>1, PoppedQueues
      <4> QED
        BY <4>1 DEF IndInv, QueueInv
    <3>2. \A i \in DOMAIN Popped(o)[o] : i + 1 \in DOMAIN queue[o] /\ Popped(o)[o][i] = queue[o][i + 1]
      BY <1>1, PoppedQueues
    <3>3. \A i \in DOMAIN Popped(o)[o] : Popped(o)[o][i].callback # "real_incantation"
                                          => Popped(o)[o][i].data = o
      BY <3>2 DEF IndInv, QueueInv
    <3> QED
      BY <1>4, <3>1, <3>3
  <2>4. \A i \in 1 .. Len(old) : old[i].callback # "real_incantation" => old[i].data = c
    BY <1>8, <2>1, <2>3 DEF old
  <2>5. \A i \in 1 .. Len(old) + 1 : (<<second>> \o old)[i].callback # "real_incantation"
                                       => (<<second>> \o old)[i].data = c
    <3> TAKE i \in 1 .. Len(old) + 1
    <3>1. i = 1 \/ i - 1 \in 1 .. Len(old)
      BY <2>1
    <3> QED
      BY <1>7, <2>1, <2>4, <3>1
  <2>6. QueueInv'
    <3> SUFFICES ASSUME NEW q \in Objects
                 PROVE  /\ q \notin live' => queue'[q] = <<>>
                        /\ \A i \in DOMAIN queue'[q] : queue'[q][i].callback # "real_incantation"
                                                         => queue'[q][i].data = q
      BY DEF QueueInv
    <3>1. CASE q = c
      BY <1>4, <1>6, <2>1, <2>2, <2>5, <3>1
    <3>2. CASE q # c
      BY <1>4, <2>2, <2>3, <3>2
    <3> QED
      BY <3>1, <3>2
  <2> QED
    BY <2>2, <2>6
<1>11. queue' \in [Objects -> Seq(EventTypes)] /\ QueueInv'
  BY <1>1, <1>9, <1>10
<1>12. items' \in [Tiles -> Inventories]
  <2>1. CASE can
    <3>1. player[p].level \in 0 .. LEVEL_MAX - 1
      BY <1>3, <1>5, <2>1 DEF LEVEL_MAX
    <3>2. \A r \in Resources : Requisites(player[p].level).inv[r] \in Nat
      BY <3>1, LevelFacts
    <3>3. items[t] \in Inventories
      BY <1>5 DEF IndInv, TypeOK
    <3>4. ASSUME NEW r \in Resources
          PROVE  items[t][r] - Requisites(player[p].level).inv[r] \in Nat
      <4>1. items[t][r] \in Nat /\ items[t][r] >= Requisites(player[p].level).inv[r]
            /\ Requisites(player[p].level).inv[r] \in Nat
        BY <1>3, <2>1, <3>2, <3>3 DEF Inventories
      <4> QED
        BY <4>1
    <3>5. Consumed(items[t], player[p].level) \in Inventories
      BY <3>4 DEF Consumed, Inventories
    <3> QED
      BY <1>1, <1>5, <2>1, <3>5 DEF IndInv, TypeOK
  <2>2. CASE ~can
    BY <1>1, <2>2 DEF IndInv, TypeOK
  <2> QED
    BY <2>1, <2>2
<1>13. /\ stuck' \in BOOLEAN /\ player' \in [Objects -> PlayerTypes]
       /\ tiles' \in [Tiles -> Seq(Objects)]
       /\ \A q \in Objects : player'[q].level >= player[q].level
  BY <1>1, SMTT(30) DEF IndInv, TypeOK, PlayerTypes
<1>14. TilesInv'
  BY <1>1, <1>4, TilesFrame DEF IndInv
<1> QED
  BY <1>1, <1>11, <1>12, <1>13, <1>14, CommandFrame

\* The players that are raised have a level above theirs to reach.
LEMMA RealIncantationStep ==
  ASSUME IndInv, NEW o \in Objects, NEW p \in Objects, m_command_real_incantation(o, p)
  PROVE  IndInv'
<1> DEFINE names == {"real_incantation"}
<1> DEFINE raise == /\ p \in live
                    /\ player[p].level = Head(queue[o]).level
                    /\ m_game_check_can_incantation(p, FALSE)
<1>1. /\ Command(o, p, names) /\ queue[o] # <<>> /\ queue' = Popped(o)
      /\ UNCHANGED <<tiles, items>> /\ stuck' \in BOOLEAN
      /\ player' = IF raise THEN [q \in Objects |-> IF q \in SameLevel(p)
                                                   THEN [player[q] EXCEPT !.level = @ + 1]
                                                   ELSE player[q]]
                   ELSE player
  BY DEF m_command_real_incantation, Command, CLIENT_HAS_ACTIONS
<1>2. raise => player[p].level < LEVEL_MAX
  BY DEF m_game_check_can_incantation
<1> HIDE DEF names, raise
<1>3. live' = live
  BY <1>1, CommandFacts
<1>4. queue' \in [Objects -> Seq(EventTypes)] /\ QueueInv'
  BY <1>1, <1>3, PoppedQueues
<1>5. \A q \in Objects :
         player'[q] = IF raise /\ q \in SameLevel(p)
                      THEN [player[q] EXCEPT !.level = player[q].level + 1] ELSE player[q]
  BY <1>1
<1>6. ASSUME NEW q \in Objects
      PROVE  /\ player'[q] \in PlayerTypes
             /\ player'[q].fd = player[q].fd /\ player'[q].team = player[q].team
             /\ player'[q].start_time = player[q].start_time
             /\ player'[q].die_time = player[q].die_time
             /\ player'[q].level >= player[q].level
             /\ player'[q].inv = player[q].inv
             /\ player'[q].pos = player[q].pos
  <2>1. player[q] \in PlayerTypes /\ player[q].level \in 0 .. 7
    BY DEF IndInv, TypeOK, PlayerTypes, LEVEL_MAX
  <2>2. raise /\ q \in SameLevel(p) => player[q].level + 1 \in 0 .. 7
    BY <1>2, <2>1 DEF SameLevel, LEVEL_MAX
  <2>3. CASE raise /\ q \in SameLevel(p)
    <3>1. player'[q] = [player[q] EXCEPT !.level = player[q].level + 1]
      BY <1>5, <2>3
    <3>2. player[q].level + 1 \in 0 .. LEVEL_MAX /\ player[q].level + 1 >= player[q].level
      BY <2>1, <2>2, <2>3 DEF LEVEL_MAX
    <3> QED
      BY <2>1, <3>1, <3>2 DEF PlayerTypes
  <2>4. CASE ~(raise /\ q \in SameLevel(p))
    <3>1. player'[q] = player[q]
      BY <1>5, <2>4
    <3>2. player[q].level >= player[q].level
      BY <2>1
    <3> QED
      BY <2>1, <3>1, <3>2
  <2> QED
    BY <2>3, <2>4
<1>7. player' \in [Objects -> PlayerTypes]
  <2>1. player' = [q \in Objects |-> player'[q]]
    BY <1>1 DEF IndInv, TypeOK
  <2> QED
    BY <1>6, <2>1
<1>8. TilesInv'
  BY <1>1, <1>3, <1>6, TilesFrame DEF IndInv
<1>9. tiles' \in [Tiles -> Seq(Objects)] /\ items' \in [Tiles -> Inventories]
  BY <1>1 DEF IndInv, TypeOK
<1>10. \A q \in Objects :
            /\ player'[q].fd = player[q].fd /\ player'[q].team = player[q].team
            /\ player'[q].start_time = player[q].start_time
            /\ player'[q].die_time = player[q].die_time
            /\ player'[q].level >= player[q].level
            /\ q # o => player'[q].inv["nourriture"] = player[q].inv["nourriture"]
  BY <1>6
<1> QED
  BY <1>1, <1>4, <1>7, <1>8, <1>9, <1>10, CommandFrame

----------------------------------------------------------------------------
(* Every step keeps the invariant *)

LEMMA StandStill == ASSUME IndInv, UNCHANGED vars PROVE IndInv'
<1>1. /\ UNCHANGED <<now, cursor, spawn_at, next_idx, phase, stuck, live, clients, current, removals>>
      /\ UNCHANGED <<player, queue, tiles, items>>
  BY DEF vars, loop, registry
<1>2. TypeOK'
  BY <1>1 DEF IndInv, TypeOK
<1>3. TilesInv' /\ QueueInv'
  BY <1>1 DEF IndInv, TilesInv, QueueInv
<1>4. RegInv'
  BY <1>1, RegFrame DEF IndInv, TypeOK
<1>5. LifeInv'
  BY <1>1 DEF IndInv, LifeInv, Marked, IsDue
<1> QED
  BY <1>2, <1>3, <1>4, <1>5 DEF IndInv

LEMMA RunStep ==
  ASSUME IndInv, NEW o \in Objects, NEW p \in Objects, RunCommand(o, p)
  PROVE  IndInv'
<1>1. CASE m_command_avance(o, p)
  BY <1>1, AvanceStep
<1>2. CASE m_command_droite_gauche(o, p)
  BY <1>2, TurnStep
<1>3. CASE ReportingCommand(o, p)
  BY <1>3, ReportingStep
<1>4. CASE m_command_prend(o, p)
  BY <1>4, PrendStep
<1>5. CASE m_command_pose(o, p)
  BY <1>5, PoseStep
<1>6. CASE m_command_expulse(o, p)
  BY <1>6, ExpulseStep
<1>7. CASE m_command_incantation(o, p)
  BY <1>7, IncantationStep
<1>8. CASE m_command_real_incantation(o, p)
  BY <1>8, RealIncantationStep
<1> QED
  BY <1>1, <1>2, <1>3, <1>4, <1>5, <1>6, <1>7, <1>8 DEF RunCommand

LEMMA NextIndInv == ASSUME IndInv, [Next]_vars PROVE IndInv'
<1>1. CASE time_api_update
  BY <1>1, ClockStep
<1>2. ASSUME NEW fd \in Fds, m_handle_client_event(fd) PROVE IndInv'
  <2>1. CASE m_handle_login(fd)
    BY <2>1, RegisterStep DEF m_handle_login
  <2>2. CASE m_handle_cmd(fd)
    BY <2>2, ExecuteStep DEF m_handle_cmd
  <2>3. CASE game_kill_player(fd)
    BY <2>3, KillStep
  <2> QED
    BY <1>2, <2>1, <2>2, <2>3 DEF m_handle_client_event
<1>3. CASE SelectReturns
  BY <1>3, NothingReadyStep, RemoveStep DEF SelectReturns
<1>4. CASE game_play
  <2>1. CASE NothingToDo
    BY <2>1, NothingToDoStep
  <2>2. ASSUME NEW o \in Objects, Eat(o) \/ game_player_die(o) PROVE IndInv'
    BY <2>2, EatStep, DieStep
  <2>3. ASSUME NEW o \in Objects, NEW p \in Objects, RunCommand(o, p) PROVE IndInv'
    BY <2>3, RunStep
  <2>4. CASE m_game_spawn_resources
    BY <2>4, SpawnStep
  <2>5. CASE EndPlay
    BY <2>5, EndPlayStep
  <2> QED
    BY <1>4, <2>1, <2>2, <2>3, <2>4, <2>5 DEF game_play
<1>5. CASE StuckForEver
  BY <1>5, StandStill DEF StuckForEver
<1>6. CASE UNCHANGED vars
  BY <1>6, StandStill
<1> QED
  BY <1>1, <1>2, <1>3, <1>4, <1>5, <1>6 DEF Next

LEMMA IndInvHolds == Spec => []IndInv
<1>1. IndInv /\ [Next]_vars => IndInv'
  BY NextIndInv
<1> QED
  BY <1>1, InitIndInv, PTL DEF Spec

----------------------------------------------------------------------------
(* What the invariant says of the server *)

(***************************************************************************)
(* Every variable keeps its type: no count of items and no count of        *)
(* players ever falls below zero, no level goes beyond the table of        *)
(* requirements, and no player leaves the map.                             *)
(***************************************************************************)
THEOREM TypesCorrect == Spec => []TypeOK
<1>1. IndInv => TypeOK
  BY DEF IndInv
<1> QED
  BY <1>1, IndInvHolds, PTL

\* A set of numbers with one member that holds everything in it is of size one.
LEMMA OneMember ==
  ASSUME NEW S, NEW x \in S, \A y \in S : y = x
  PROVE  Cardinality(S) = 1
<1>1. S = {x}
  OBVIOUS
<1> QED
  BY <1>1, FS_Singleton

(***************************************************************************)
(* Whatever the order of logins, moves, expulsions and deaths: a player    *)
(* that is allocated is on the list of the tile it stands on, exactly      *)
(* once, and no list holds anybody else.                                   *)
(***************************************************************************)
THEOREM TilesCorrect == Spec => []TilesConsistent
<1>1. IndInv => TilesConsistent
  <2> SUFFICES ASSUME IndInv PROVE TilesConsistent
    OBVIOUS
  <2>1. /\ live \subseteq Objects
        /\ \A t \in Tiles : tiles[t] \in Seq(Objects)
        /\ \A o \in live : player[o].pos \in Tiles
    BY DEF IndInv, TypeOK, PlayerTypes
  <2>2. \A t \in Tiles : \A i \in DOMAIN tiles[t] :
          tiles[t][i] \in live /\ player[tiles[t][i]].pos = t
    <3> TAKE t \in Tiles
    <3> TAKE i \in DOMAIN tiles[t]
    <3>1. tiles[t][i] \in Objects /\ OnTile(tiles[t], tiles[t][i])
      BY <2>1 DEF OnTile
    <3> QED
      BY <3>1 DEF IndInv, TilesInv
  <2>3. ASSUME NEW o \in live
        PROVE  Cardinality({i \in DOMAIN tiles[player[o].pos] : tiles[player[o].pos][i] = o}) = 1
    <3> DEFINE t == player[o].pos
    <3>1. t \in Tiles /\ OnTile(tiles[t], o) /\ NoRepeats(tiles[t])
      BY <2>1 DEF IndInv, TilesInv
    <3>2. PICK i \in DOMAIN tiles[t] : tiles[t][i] = o
      BY <3>1 DEF OnTile
    <3>3. \A j \in DOMAIN tiles[t] : tiles[t][j] = o => j = i
      BY <3>1, <3>2 DEF NoRepeats
    <3> HIDE DEF t
    <3>4. Cardinality({j \in DOMAIN tiles[t] : tiles[t][j] = o}) = 1
      BY <3>2, <3>3, OneMember
    <3> QED
      BY <3>4 DEF t
  <2> QED
    BY <2>2, <2>3 DEF TilesConsistent
<1> QED
  BY <1>1, IndInvHolds, PTL

(***************************************************************************)
(* Every player that is allocated has exactly one slot, every slot in use  *)
(* holds one, and no team counts more players than it has places: the      *)
(* result of m_add_client_to_server, which game_register_player ignores,   *)
(* is never a failure, since the places of the teams fit in the slots.     *)
(***************************************************************************)
THEOREM RegistryCorrect == Spec => []RegistryConsistent
<1>1. IndInv => RegistryConsistent
  <2> SUFFICES ASSUME IndInv PROVE RegistryConsistent
    OBVIOUS
  <2>1. ASSUME NEW o \in live
        PROVE  Cardinality({s \in ClientSlots : clients[s] = o}) = 1
    <3>1. o # 0
      BY Numbers DEF IndInv, TypeOK
    <3>2. PICK s \in ClientSlots : clients[s] = o
      BY DEF IndInv, RegInv
    <3>3. \A r \in ClientSlots : clients[r] = o => r = s
      BY <3>1, <3>2 DEF IndInv, RegInv
    <3> QED
      BY <3>2, <3>3, OneMember
  <2> QED
    BY <2>1 DEF IndInv, RegInv, RegistryConsistent, Members
<1> QED
  BY <1>1, IndInvHolds, PTL

(***************************************************************************)
(* When server_select starts to look at the descriptors again, no player   *)
(* is left that game_kill_player marked in an earlier round: game_play     *)
(* passes every slot in between and frees it, for it has neither time nor  *)
(* food.  Players that share the descriptor and were not marked stay.      *)
(***************************************************************************)
THEOREM KilledCorrect == Spec => []KilledAreGone
<1>1. IndInv => KilledAreGone
  BY DEF IndInv, LifeInv, IsDue, KilledAreGone
<1> QED
  BY <1>1, IndInvHolds, PTL

----------------------------------------------------------------------------
(* What a step does to the players it is not about *)

\* Player q keeps its descriptor, its level, its place and its stones.
Keeps(q) ==
    /\ player'[q].fd = player[q].fd /\ player'[q].level = player[q].level
    /\ player'[q].dir = player[q].dir /\ player'[q].pos = player[q].pos
    /\ \A r \in Resources \ {"nourriture"} : player'[q].inv[r] = player[q].inv[r]

\* The steps that are no command, no login and no death.
QuietStep ==
    \/ time_api_update \/ SelectReturns
    \/ NothingToDo \/ m_game_spawn_resources \/ EndPlay \/ UNCHANGED vars
    \/ \E fd \in Fds : m_handle_cmd(fd) \/ game_kill_player(fd)
    \/ \E o \in Objects : Eat(o)

LEMMA StepKinds ==
  ASSUME [Next]_vars
  PROVE  \/ QuietStep
         \/ \E fd \in Fds, team \in Teams, place \in StartPlaces : game_register_player(fd, team, place)
         \/ \E o \in Objects : game_player_die(o)
         \/ \E o, p \in Objects : RunCommand(o, p)
<1>1. CASE UNCHANGED vars
  BY <1>1 DEF QuietStep
<1>2. CASE time_api_update \/ SelectReturns
  BY <1>2 DEF QuietStep
<1>3. CASE \E fd \in Fds : m_handle_client_event(fd)
  BY <1>3 DEF QuietStep, m_handle_client_event, m_handle_login
<1>4. CASE game_play
  BY <1>4 DEF QuietStep, game_play
<1>5. CASE StuckForEver
  BY <1>5 DEF QuietStep, StuckForEver
<1> QED
  BY <1>1, <1>2, <1>3, <1>4, <1>5 DEF Next

LEMMA KilledKeeps ==
  ASSUME NEW p \in PlayerTypes, NEW r \in Resources \ {"nourriture"}
  PROVE  Killed(p).dir = p.dir /\ Killed(p).inv[r] = p.inv[r]
BY DEF Killed, PlayerTypes, Inventories

LEMMA QuietKeeps ==
  ASSUME IndInv, QuietStep
  PROVE  live' = live /\ \A q \in Objects : Keeps(q)
<1>1. CASE live' = live /\ player' = player
  BY <1>1 DEF Keeps
<1>2. CASE \/ time_api_update \/ NothingReady \/ NothingToDo
           \/ m_game_spawn_resources \/ EndPlay \/ UNCHANGED vars
  <2>1. live' = live /\ player' = player
    BY <1>2 DEF time_api_update, NothingReady, NothingToDo, m_game_spawn_resources, EndPlay, vars,
                registry
  <2> QED
    BY <1>1, <2>1
<1>3. ASSUME NEW fd \in Fds, m_handle_cmd(fd) PROVE live' = live /\ player' = player
  BY <1>3 DEF m_handle_cmd, game_execute_command
<1>4. ASSUME live' = live, NEW victims,
             \A q \in Objects : player'[q] = IF q \in victims THEN Killed(player[q]) ELSE player[q]
      PROVE  live' = live /\ \A q \in Objects : Keeps(q)
  <2> SUFFICES ASSUME NEW q \in Objects PROVE Keeps(q)
    BY <1>4
  <2>1. player[q] \in PlayerTypes
    BY DEF IndInv, TypeOK
  <2>2. CASE q \in victims
    <3>1. player'[q] = Killed(player[q])
      BY <1>4, <2>2
    <3>2. Killed(player[q]).fd = player[q].fd /\ Killed(player[q]).level = player[q].level
          /\ Killed(player[q]).pos = player[q].pos
      BY <2>1, KilledPlayer
    <3>3. \A r \in Resources \ {"nourriture"} :
             Killed(player[q]).dir = player[q].dir /\ Killed(player[q]).inv[r] = player[q].inv[r]
      BY <2>1, KilledKeeps
    <3>4. "linemate" \in Resources \ {"nourriture"}
      BY DEF Resources
    <3> QED
      BY <3>1, <3>2, <3>3, <3>4 DEF Keeps
  <2>3. CASE q \notin victims
    BY <1>4, <2>3 DEF Keeps
  <2> QED
    BY <2>2, <2>3
<1>5. ASSUME NEW fd \in Fds, game_kill_player(fd)
      PROVE  live' = live /\ \A q \in Objects : Keeps(q)
  <2>1. /\ live' = live
        /\ \A q \in Objects : player'[q] = IF q \in {ClientOf(fd)} THEN Killed(player[q]) ELSE player[q]
    BY <1>5 DEF game_kill_player, IndInv, TypeOK
  <2> QED
    BY <2>1, <1>4
<1>6. ASSUME m_remove_clients PROVE live' = live /\ \A q \in Objects : Keeps(q)
  <2> DEFINE victims == {o \in Objects : \E fd \in ToSet(Walked(removals)) : ClientOf(fd) = o}
  <2>1. live' = live /\ \A q \in Objects : player'[q] = IF q \in victims THEN Killed(player[q]) ELSE player[q]
    BY <1>6 DEF m_remove_clients
  <2> HIDE DEF victims
  <2> QED
    BY <2>1, <1>4
<1>7. ASSUME NEW o \in Objects, Eat(o) PROVE live' = live /\ \A q \in Objects : Keeps(q)
  <2>1. /\ live' = live
        /\ \A q \in Objects :
              player'[q] = IF q = o THEN [player[q] EXCEPT !.inv["nourriture"] = @ - 1,
                                                           !.die_time = @ + LifeUnit]
                                    ELSE player[q]
    BY <1>7 DEF Eat, registry, IndInv, TypeOK
  <2>2. \A q \in Objects : player[q] \in PlayerTypes
    BY DEF IndInv, TypeOK
  <2>3. ASSUME NEW q \in Objects PROVE Keeps(q)
    <3>1. CASE q = o
      <4> DEFINE fed == [player[q].inv EXCEPT !["nourriture"] = player[q].inv["nourriture"] - 1]
      <4>1. player'[q] = [player[q] EXCEPT !.inv = fed, !.die_time = player[q].die_time + LifeUnit]
        BY <2>1, <2>2, <3>1 DEF PlayerTypes
      <4>2. \A r \in Resources \ {"nourriture"} : fed[r] = player[q].inv[r]
        BY <2>2 DEF PlayerTypes, Inventories
      <4> HIDE DEF fed
      <4>3. /\ player'[q].fd = player[q].fd /\ player'[q].level = player[q].level
            /\ player'[q].dir = player[q].dir /\ player'[q].pos = player[q].pos
            /\ player'[q].inv = fed
        BY <2>2, <4>1 DEF PlayerTypes
      <4> QED
        BY <4>2, <4>3 DEF Keeps
    <3>2. CASE q # o
      <4>1. player'[q] = player[q]
        BY <2>1, <3>2
      <4> QED
        BY <4>1 DEF Keeps
    <3> QED
      BY <3>1, <3>2
  <2> QED
    BY <2>1, <2>3
<1> QED
  BY <1>1, <1>2, <1>3, <1>5, <1>6, <1>7 DEF QuietStep, SelectReturns

\* A command leaves the descriptors alone, and all other players but for expulse and elevation.
LEMMA CommandKeeps ==
  ASSUME IndInv, NEW o \in Objects, NEW p \in Objects, RunCommand(o, p)
  PROVE  /\ live' = live
         /\ \A q \in Objects :
               /\ player'[q].fd = player[q].fd
               /\ q # p => player'[q].dir = player[q].dir /\ player'[q].inv = player[q].inv
               /\ q # p /\ player'[q].pos # player[q].pos => m_command_expulse(o, p)
               /\ player'[q].level # player[q].level => m_command_real_incantation(o, p)
<1>1. live' = live
  <2>1. ASSUME NEW names, Command(o, p, names) PROVE live' = live
    BY <2>1 DEF Command, registry
  <2> QED
    BY <2>1 DEF RunCommand, m_command_avance, m_command_droite_gauche, ReportingCommand,
       m_command_prend, m_command_pose, m_command_expulse, m_command_incantation,
       m_command_real_incantation
<1>2. player \in [Objects -> PlayerTypes] /\ \A q \in Objects : player[q] \in PlayerTypes
  BY DEF IndInv, TypeOK
<1> SUFFICES ASSUME NEW q \in Objects
             PROVE  /\ player'[q].fd = player[q].fd
                    /\ q # p => player'[q].dir = player[q].dir /\ player'[q].inv = player[q].inv
                    /\ q # p /\ player'[q].pos # player[q].pos => m_command_expulse(o, p)
                    /\ player'[q].level # player[q].level => m_command_real_incantation(o, p)
  BY <1>1
<1>3. CASE m_command_avance(o, p)
  <2>1. PICK d : player' = [player EXCEPT ![p].pos = d]
    BY <1>3 DEF m_command_avance
  <2>2. player'[q] = IF q = p THEN [player[q] EXCEPT !.pos = d] ELSE player[q]
    BY <1>2, <2>1
  <2> QED
    BY <1>2, <2>2 DEF PlayerTypes
<1>4. CASE m_command_droite_gauche(o, p)
  <2>1. PICK d : player' = [player EXCEPT ![p].dir = d]
    BY <1>4 DEF m_command_droite_gauche
  <2>2. player'[q] = IF q = p THEN [player[q] EXCEPT !.dir = d] ELSE player[q]
    BY <1>2, <2>1
  <2> QED
    BY <1>2, <2>2 DEF PlayerTypes
<1>5. CASE m_command_prend(o, p) \/ m_command_pose(o, p)
  <2>1. PICK inv : player' = [player EXCEPT ![p].inv = inv]
    BY <1>5 DEF m_command_prend, m_command_pose
  <2>2. player'[q] = IF q = p THEN [player[q] EXCEPT !.inv = inv] ELSE player[q]
    BY <1>2, <2>1
  <2> QED
    BY <1>2, <2>2 DEF PlayerTypes
<1>6. CASE ReportingCommand(o, p) \/ m_command_incantation(o, p)
  BY <1>6 DEF ReportingCommand, m_command_incantation
<1>7. CASE m_command_expulse(o, p)
  <2>1. \E d : player'[q] = [player[q] EXCEPT !.pos = d] \/ player'[q] = player[q]
    BY <1>7 DEF m_command_expulse
  <2> QED
    BY <1>2, <1>7, <2>1 DEF PlayerTypes
<1>8. CASE m_command_real_incantation(o, p)
  <2>1. player'[q] = [player[q] EXCEPT !.level = @ + 1] \/ player'[q] = player[q]
    BY <1>8 DEF m_command_real_incantation
  <2> QED
    BY <1>2, <1>8, <2>1 DEF PlayerTypes
<1> QED
  BY <1>3, <1>4, <1>5, <1>6, <1>7, <1>8 DEF RunCommand

----------------------------------------------------------------------------
(* Deaths and elevations *)

\* Only game_player_die frees a player.
LEMMA OnlyDeathFrees ==
  ASSUME IndInv, [Next]_vars, NEW o \in live \ live'
  PROVE  game_player_die(o)
<1>1. CASE QuietStep
  BY <1>1, QuietKeeps
<1>2. CASE \E fd \in Fds, team \in Teams, place \in StartPlaces : game_register_player(fd, team, place)
  BY <1>2 DEF game_register_player
<1>3. CASE \E x \in Objects : game_player_die(x)
  BY <1>3 DEF game_player_die
<1>4. CASE \E x, p \in Objects : RunCommand(x, p)
  BY <1>4, CommandKeeps
<1> QED
  BY <1>1, <1>2, <1>3, <1>4, StepKinds

(***************************************************************************)
(* A player is freed only when game_play finds its time over and no food   *)
(* in its inventory, and unless its connection ended that is not before it *)
(* has lived for TIME_TO_DIE: no command of another client, no second      *)
(* login and no reading of the clock shortens a life.                      *)
(***************************************************************************)
THEOREM DeathsCorrect == Spec => NoEarlyDeath
<1>1. ASSUME IndInv, [Next]_vars
      PROVE  [\A o \in live \ live' :
                /\ player[o].inv["nourriture"] = 0
                /\ player[o].die_time # 0 => now >= player[o].start_time + TIME_TO_DIE]_vars
  <2> SUFFICES ASSUME NEW o \in live \ live'
               PROVE  /\ player[o].inv["nourriture"] = 0
                      /\ player[o].die_time # 0 => now >= player[o].start_time + TIME_TO_DIE
    OBVIOUS
  <2>1. game_player_die(o)
    BY <1>1, OnlyDeathFrees
  <2>2. player[o].inv["nourriture"] = 0 /\ ~(player[o].die_time > now)
    BY <2>1 DEF game_player_die, PLAYER_IS_ALIVE
  <2>3. player[o].die_time # 0 => ~(player[o].die_time < player[o].start_time + TIME_TO_DIE)
    BY <1>1 DEF IndInv, LifeInv, Marked
  <2>4. /\ player[o].die_time \in Nat /\ player[o].start_time \in Nat /\ now \in Nat
        /\ TIME_TO_DIE \in Nat
    BY <1>1, Numbers DEF IndInv, TypeOK, PlayerTypes
  <2>5. player[o].die_time # 0 => now >= player[o].start_time + TIME_TO_DIE
    BY <2>2, <2>3, <2>4
  <2> QED
    BY <2>2, <2>5
<1> QED
  BY <1>1, IndInvHolds, PTL DEF Spec, NoEarlyDeath

\* The player that logs in was not there, and the others do not notice.
LEMMA LoginKeeps ==
  ASSUME IndInv, NEW fd \in Fds, NEW team \in Teams, NEW place \in StartPlaces,
         game_register_player(fd, team, place)
  PROVE  \E o \in Objects \ live :
            /\ live' = live \cup {o} /\ queue' = queue
            /\ player' = [player EXCEPT ![o] = NewPlayer(fd, team, place)]
<1>1. Objects \ live \in SUBSET Nat /\ Objects \ live # {}
  BY Numbers DEF game_register_player, IndInv, TypeOK
<1>2. Min(Objects \ live) \in Objects \ live
  BY <1>1, MinIsLowest
<1> QED
  BY <1>2 DEF game_register_player

\* Only the second half of an incantation raises players.
LEMMA OnlyElevationRaises ==
  ASSUME IndInv, [Next]_vars, NEW q \in live, player'[q].level > player[q].level
  PROVE  \E o, p \in Objects : m_command_real_incantation(o, p)
<1>1. q \in Objects /\ player[q].level \in Nat /\ player[q].level >= 1
      /\ ~(player[q].level > player[q].level)
  <2>1. q \in Objects /\ player[q].level \in Nat /\ player[q].level >= 1
    BY DEF IndInv, TypeOK, PlayerTypes, LifeInv
  <2> QED
    BY <2>1
<1>2. CASE QuietStep
  BY <1>1, <1>2, QuietKeeps DEF Keeps
<1>3. ASSUME NEW fd \in Fds, NEW team \in Teams, NEW place \in StartPlaces,
             game_register_player(fd, team, place)
      PROVE  FALSE
  <2>1. PICK o \in Objects \ live : player' = [player EXCEPT ![o] = NewPlayer(fd, team, place)]
    BY <1>3, LoginKeeps
  <2>2. player'[q] = player[q]
    BY <1>1, <2>1 DEF IndInv, TypeOK
  <2> QED
    BY <1>1, <2>2
<1>4. ASSUME NEW o \in Objects, game_player_die(o) PROVE FALSE
  <2>1. player'[q] = IF q = o THEN ZeroPlayer ELSE player[q]
    BY <1>1, <1>4 DEF game_player_die, IndInv, TypeOK
  <2>2. ~(ZeroPlayer.level > player[q].level)
    BY <1>1 DEF ZeroPlayer
  <2> QED
    BY <1>1, <2>1, <2>2
<1>5. ASSUME NEW o \in Objects, NEW p \in Objects, RunCommand(o, p)
      PROVE  m_command_real_incantation(o, p)
  <2>1. player'[q].level # player[q].level
    BY <1>1
  <2> QED
    BY <1>1, <1>5, <2>1, CommandKeeps
<1> QED
  BY <1>2, <1>3, <1>4, <1>5, StepKinds

(***************************************************************************)
(* An elevation takes whoever is of the level on the tile for which its    *)
(* stones were consumed, by one level and all together, and never fewer    *)
(* players than the level requires, also when players came, left or were   *)
(* raised in between; nothing else raises a player.                        *)
(***************************************************************************)
THEOREM ElevationCorrect == Spec => LevelUpTogether
<1>1. ASSUME IndInv, [Next]_vars
      PROVE  [Raised # {} =>
                \E t \in Tiles, l \in 1 .. LEVEL_MAX - 1 :
                   /\ Raised = {o \in live : player[o].pos = t /\ player[o].level = l}
                   /\ \A o \in Raised : player'[o].level = l + 1
                   /\ Cardinality(Raised) >= Requisites(l).players
                   /\ EndsIncantation(t, l)]_vars
  <2> SUFFICES ASSUME Raised # {}
               PROVE  \E t \in Tiles, l \in 1 .. LEVEL_MAX - 1 :
                         /\ Raised = {o \in live : player[o].pos = t /\ player[o].level = l}
                         /\ \A o \in Raised : player'[o].level = l + 1
                         /\ Cardinality(Raised) >= Requisites(l).players
                         /\ EndsIncantation(t, l)
    OBVIOUS
  <2>1. PICK o \in Objects, p \in Objects : m_command_real_incantation(o, p)
    BY <1>1, OnlyElevationRaises DEF Raised
  <2>2. /\ live \subseteq Objects
        /\ \A q \in live : player[q] \in PlayerTypes /\ player[q].level \in Nat /\ player[q].level >= 1
        /\ \A q \in live : ~(player[q].level > player[q].level)
    <3>1. live \subseteq Objects
      BY <1>1 DEF IndInv, TypeOK
    <3>2. \A q \in live : player[q] \in PlayerTypes /\ player[q].level \in Nat
      BY <1>1, <3>1 DEF IndInv, TypeOK, PlayerTypes
    <3>3. \A q \in live : ~(player[q].level > player[q].level)
      BY <3>2
    <3> QED
      BY <1>1, <3>1, <3>2, <3>3 DEF IndInv, LifeInv
  <2> DEFINE t == player[p].pos
  <2> DEFINE l == player[p].level
  <2>3. player' # player
    BY <2>2 DEF Raised
  <2>4. /\ p \in live /\ m_game_check_can_incantation(p, FALSE)
        /\ player' = [q \in Objects |-> IF q \in SameLevel(p)
                                        THEN [player[q] EXCEPT !.level = @ + 1] ELSE player[q]]
    BY <2>1, <2>3 DEF m_command_real_incantation
  <2>5. l < LEVEL_MAX /\ Cardinality(SameLevel(p)) >= Requisites(l).players
    BY <2>4 DEF m_game_check_can_incantation
  <2>6. t \in Tiles /\ l \in 1 .. LEVEL_MAX - 1
    <3>1. t \in Tiles
      BY <2>2, <2>4 DEF PlayerTypes
    <3> QED
      BY <2>2, <2>4, <2>5, <3>1 DEF LEVEL_MAX
  <2>7. SameLevel(p) = {q \in live : player[q].pos = t /\ player[q].level = l}
    BY <1>1, <2>2, <2>6 DEF SameLevel, IndInv, TilesInv
  <2>8. ASSUME NEW q \in live
        PROVE  /\ q \in SameLevel(p) => player'[q].level = player[q].level + 1
               /\ q \notin SameLevel(p) => player'[q] = player[q]
    <3>1. q \in Objects /\ player[q] \in PlayerTypes
      BY <2>2
    <3>2. CASE q \in SameLevel(p)
      <4>1. player'[q] = [player[q] EXCEPT !.level = player[q].level + 1]
        BY <2>4, <3>1, <3>2
      <4> QED
        BY <3>1, <3>2, <4>1 DEF PlayerTypes
    <3>3. CASE q \notin SameLevel(p)
      BY <2>4, <3>1, <3>3
    <3> QED
      BY <3>2, <3>3
  <2>9. Raised = SameLevel(p)
    <3>1. SameLevel(p) \subseteq live
      BY DEF SameLevel
    <3>2. \A q \in live : player'[q].level > player[q].level <=> q \in SameLevel(p)
      <4> TAKE q \in live
      <4>1. q \in SameLevel(p) => player'[q].level > player[q].level
        BY <2>2, <2>8
      <4>2. q \notin SameLevel(p) => ~(player'[q].level > player[q].level)
        BY <2>2, <2>8
      <4> QED
        BY <4>1, <4>2
    <3> QED
      BY <3>1, <3>2 DEF Raised
  <2>10. \A q \in Raised : player'[q].level = l + 1
    BY <2>7, <2>8, <2>9
  <2>11. EndsIncantation(t, l)
    <3>1. Command(o, p, {"real_incantation"})
      BY <2>1 DEF m_command_real_incantation
    <3>2. o \in live
      BY <1>1, <3>1 DEF Command, AtSlot, IndInv, RegInv
    <3>3. Head(queue[o]).level = l
      BY <2>1, <2>3 DEF m_command_real_incantation
    <3> QED
      BY <2>4, <3>1, <3>2, <3>3 DEF EndsIncantation
  <2> HIDE DEF t, l
  <2> QED
    BY <2>5, <2>6, <2>7, <2>9, <2>10, <2>11 DEF l
<1> QED
  BY <1>1, IndInvHolds, PTL DEF Spec, LevelUpTogether

----------------------------------------------------------------------------
(* Clients that log in once *)

\* Nobody shares a descriptor, and an incantation that was started is the next event of its player.
OnceInv ==
    /\ \A o, q \in live : player[o].fd = player[q].fd => o = q
    /\ OneIncantationAtATime

\* The queue of a client after one of its events was taken.
LEMMA PoppedOnce ==
  ASSUME IndInv, OneIncantationAtATime, NEW o \in live, queue[o] # <<>>
  PROVE  \A q \in live : \A i \in DOMAIN Popped(o)[q] :
            Popped(o)[q][i].callback = "real_incantation" =>
               q # o /\ i = 1 /\ Popped(o)[q][i].data = q /\ Popped(o)[q][i].level <= player[q].level
<1>1. live \subseteq Objects /\ o \in Objects /\ queue[o] \in Seq(EventTypes)
  BY DEF IndInv, TypeOK
<1>2. /\ \A i \in DOMAIN Popped(o)[o] : i + 1 \in DOMAIN queue[o] /\ Popped(o)[o][i] = queue[o][i + 1]
      /\ DOMAIN Popped(o)[o] = 1 .. Len(queue[o]) - 1
  BY <1>1, PoppedQueues
<1>3. \A i \in DOMAIN Popped(o)[o] : Popped(o)[o][i].callback # "real_incantation"
  <2> TAKE i \in DOMAIN Popped(o)[o]
  <2>1. i + 1 # 1 /\ i + 1 \in DOMAIN queue[o] /\ Popped(o)[o][i] = queue[o][i + 1]
    BY <1>1, <1>2
  <2> QED
    BY <2>1 DEF OneIncantationAtATime
<1>4. \A q \in live \ {o} : Popped(o)[q] = queue[q]
  BY <1>1, PoppedQueues
<1> QED
  BY <1>3, <1>4 DEF OneIncantationAtATime

\* A step that leaves the queues and the players alone that had them.
LEMMA SameOnce ==
  ASSUME OnceInv, live' \subseteq live,
         \A q \in live' : /\ queue'[q] = queue[q]
                          /\ player'[q].fd = player[q].fd /\ player'[q].level = player[q].level
  PROVE  OnceInv'
<1>1. \A o, q \in live' : player'[o].fd = player'[q].fd => o = q
  BY DEF OnceInv
<1>2. OneIncantationAtATime'
  BY DEF OnceInv, OneIncantationAtATime
<1> QED
  BY <1>1, <1>2 DEF OnceInv

LEMMA QuietOnce ==
  ASSUME IndInv, OnceInv, QuietStep
  PROVE  OnceInv'
<1>1. live' = live /\ live \subseteq Objects /\ \A q \in Objects : Keeps(q)
  BY QuietKeeps DEF IndInv, TypeOK
<1>2. CASE queue' = queue
  BY <1>1, <1>2, SameOnce DEF Keeps
<1>3. ASSUME NEW fd \in Fds, m_handle_cmd(fd) PROVE OnceInv'
  <2>1. PICK msg \in Sends[fd] : game_execute_command(fd, msg[1], msg[2])
    BY <1>3 DEF m_handle_cmd
  <2>2. ASSUME NEW c \in Objects, NEW e, e.callback # "real_incantation",
               queue' = [queue EXCEPT ![c] = Append(@, e)]
        PROVE  OnceInv'
    <3>1. queue \in [Objects -> Seq(EventTypes)] /\ queue[c] \in Seq(EventTypes)
      BY DEF IndInv, TypeOK
    <3>2. \A q \in Objects : queue'[q] = IF q = c THEN Append(queue[c], e) ELSE queue[q]
      BY <2>2, <3>1
    <3>3. \A i \in DOMAIN Append(queue[c], e) :
             \/ i \in DOMAIN queue[c] /\ Append(queue[c], e)[i] = queue[c][i]
             \/ Append(queue[c], e)[i] = e
      BY <3>1
    <3>4. \A q \in live : \A i \in DOMAIN queue'[q] :
             queue'[q][i].callback = "real_incantation" =>
                i \in DOMAIN queue[q] /\ queue'[q][i] = queue[q][i]
      BY <1>1, <2>2, <3>2, <3>3
    <3>5. \A q \in live' : player'[q].fd = player[q].fd /\ player'[q].level = player[q].level
      BY <1>1 DEF Keeps
    <3>6. OneIncantationAtATime'
      BY <1>1, <3>4, <3>5 DEF OnceInv, OneIncantationAtATime
    <3>7. \A o, q \in live' : player'[o].fd = player'[q].fd => o = q
      BY <1>1, <3>5 DEF OnceInv
    <3> QED
      BY <3>6, <3>7 DEF OnceInv
  <2>3. CASE queue' # queue
    <3> DEFINE c == ClientOf(fd)
    <3>1. c # 0
      BY <2>1, <2>3 DEF game_execute_command
    <3>2. c \in Objects
      BY <1>1, <3>1, ClientOfFd DEF IndInv
    <3>3. PICK base \in 0 .. now \cup {now} :
             queue' = [queue EXCEPT ![c] = Append(@, Event(base + Delay[msg[1]], msg[1], c, msg[2]))]
      BY <2>1, <2>3 DEF game_execute_command
    <3>4. msg[1] # "real_incantation"
      BY GameAssumption DEF AllCommands
    <3>5. Event(base + Delay[msg[1]], msg[1], c, msg[2]).callback # "real_incantation"
      BY <3>4 DEF Event
    <3> HIDE DEF c
    <3> QED
      BY <2>2, <3>2, <3>3, <3>5
  <2> QED
    BY <1>2, <2>3
<1>4. CASE \/ time_api_update \/ SelectReturns \/ NothingToDo \/ m_game_spawn_resources
           \/ EndPlay \/ UNCHANGED vars
  <2>1. queue' = queue
    BY <1>4 DEF time_api_update, SelectReturns, NothingReady, m_remove_clients, NothingToDo,
       m_game_spawn_resources, EndPlay, vars
  <2> QED
    BY <1>2, <2>1
<1>5. ASSUME NEW fd \in Fds, game_kill_player(fd) PROVE queue' = queue
  BY <1>5 DEF game_kill_player
<1>6. ASSUME NEW o \in Objects, Eat(o) PROVE queue' = queue
  BY <1>6 DEF Eat
<1> QED
  BY <1>2, <1>3, <1>4, <1>5, <1>6 DEF QuietStep

LEMMA LoginOnce ==
  ASSUME ~Relogin, IndInv, OnceInv, NEW fd \in Fds, NEW team \in Teams, NEW place \in StartPlaces,
         game_register_player(fd, team, place)
  PROVE  OnceInv'
<1>1. PICK o \in Objects \ live :
         /\ live' = live \cup {o} /\ queue' = queue
         /\ player' = [player EXCEPT ![o] = NewPlayer(fd, team, place)]
  BY LoginKeeps
<1>2. \A q \in live : player[q].fd # fd
  BY ClientOfFd DEF game_register_player, IndInv
<1>3. live \subseteq Objects /\ queue[o] = <<>>
  BY DEF IndInv, TypeOK, QueueInv
<1>4. player'[o].fd = fd /\ \A q \in live : player'[q] = player[q]
  BY <1>1, <1>3 DEF IndInv, TypeOK, NewPlayer
<1>5. \A q, r \in live' : player'[q].fd = player'[r].fd => q = r
  BY <1>1, <1>2, <1>4 DEF OnceInv
<1>6. OneIncantationAtATime'
  <2>1. DOMAIN queue'[o] = {}
    BY <1>1, <1>3
  <2> QED
    BY <1>1, <1>4, <2>1 DEF OnceInv, OneIncantationAtATime
<1> QED
  BY <1>5, <1>6 DEF OnceInv

LEMMA DieOnce ==
  ASSUME IndInv, OnceInv, NEW o \in Objects, game_player_die(o)
  PROVE  OnceInv'
<1>1. /\ live' = live \ {o} /\ player' = [player EXCEPT ![o] = ZeroPlayer]
      /\ queue' = [queue EXCEPT ![o] = <<>>]
  BY DEF game_player_die
<1>2. live \subseteq Objects
  BY DEF IndInv, TypeOK
<1>3. \A q \in live' : queue'[q] = queue[q] /\ player'[q] = player[q]
  BY <1>1, <1>2 DEF IndInv, TypeOK
<1> QED
  BY <1>1, <1>3, SameOnce

\* What a command does to its queue: it leaves, and a started incantation takes its place.
LEMMA CommandQueue ==
  ASSUME IndInv, OnceInv, NEW o \in Objects, NEW p \in Objects, RunCommand(o, p)
  PROVE  /\ o \in live /\ p = o /\ queue[o] # <<>> /\ queue[o][1].data = o
         /\ queue[o][1].callback = "real_incantation" => queue' = Popped(o)
         /\ \/ queue' = Popped(o)
            \/ \E t \in Nat : queue' = [Popped(o) EXCEPT ![o] =
                                           <<RealIncantation(t, o, player[o].level)>> \o @]
<1>1. PICK names : Command(o, p, names)
  BY DEF RunCommand, m_command_avance, m_command_droite_gauche, ReportingCommand,
     m_command_prend, m_command_pose, m_command_expulse, m_command_incantation,
     m_command_real_incantation
<1>2. /\ o \in live /\ queue[o] # <<>> /\ Head(queue[o]) = queue[o][1]
      /\ DOMAIN queue[o] = 1 .. Len(queue[o]) /\ Len(queue[o]) \in Nat \ {0}
      /\ Head(queue[o]).data = p /\ (Head(queue[o]).callback # "real_incantation" => p = o)
  BY <1>1, CommandFacts DEF Command, CLIENT_HAS_ACTIONS
<1>3. 1 \in DOMAIN queue[o]
  BY <1>2
<1>4. p = o
  BY <1>2, <1>3 DEF OnceInv, OneIncantationAtATime
<1>5. \/ queue' = Popped(o)
      \/ m_command_incantation(o, p)
  BY DEF RunCommand, m_command_avance, m_command_droite_gauche, ReportingCommand,
     m_command_prend, m_command_pose, m_command_expulse, m_command_real_incantation
<1>6. CASE m_command_incantation(o, p)
  <2>1. Head(queue[o]).callback = "incantation"
    BY <1>6 DEF m_command_incantation, Command
  <2> DEFINE c == ClientOf(player[p].fd)
  <2>2. c = o
    <3>1. c \in live /\ player[c].fd = player[o].fd
      BY <1>2, <1>4, ClientOfFd DEF IndInv
    <3> QED
      BY <1>2, <3>1 DEF OnceInv
  <2>3. now + IncantationTime \in Nat
    BY GameAssumption DEF IndInv, TypeOK
  <2>4. \/ queue' = Popped(o)
        \/ queue' = [Popped(o) EXCEPT ![c] =
                        <<RealIncantation(now + IncantationTime, p, player[p].level)>> \o @]
    BY <1>6 DEF m_command_incantation
  <2> HIDE DEF c
  <2> QED
    BY <1>2, <1>4, <2>1, <2>2, <2>3, <2>4
<1> QED
  BY <1>2, <1>4, <1>5, <1>6

\* No command takes a level away.
LEMMA LevelsStay ==
  ASSUME IndInv, NEW o \in Objects, NEW p \in Objects, RunCommand(o, p), NEW q \in Objects
  PROVE  player'[q].level >= player[q].level
<1>1. player[q] \in PlayerTypes /\ player[q].level \in Nat
  BY DEF IndInv, TypeOK, PlayerTypes
<1>2. CASE player'[q].level = player[q].level
  BY <1>1, <1>2
<1>3. CASE m_command_real_incantation(o, p)
  <2>1. player'[q] = [player[q] EXCEPT !.level = player[q].level + 1] \/ player'[q] = player[q]
    BY <1>3 DEF m_command_real_incantation
  <2>2. player'[q].level = player[q].level + 1 \/ player'[q].level = player[q].level
    BY <1>1, <2>1 DEF PlayerTypes
  <2> QED
    BY <1>1, <2>2
<1> QED
  BY <1>2, <1>3, CommandKeeps

LEMMA CommandOnce ==
  ASSUME IndInv, OnceInv, NEW o \in Objects, NEW p \in Objects, RunCommand(o, p)
  PROVE  OnceInv'
<1>1. live' = live /\ live \subseteq Objects /\ \A q \in live : player'[q].fd = player[q].fd
  BY CommandKeeps DEF IndInv, TypeOK
<1>2. ASSUME NEW q \in live
      PROVE  \A l \in Nat : l <= player[q].level => l <= player'[q].level
  <2>1. q \in Objects /\ player[q].level \in Nat
    BY <1>1 DEF IndInv, TypeOK, PlayerTypes
  <2>2. player'[q].level >= player[q].level
    BY <2>1, LevelsStay
  <2>3. TypeOK'
    <3>1. IndInv'
      BY RunStep
    <3> QED
      BY <3>1 DEF IndInv
  <2>4. player'[q].level \in Nat
    BY <2>1, <2>3 DEF TypeOK, PlayerTypes
  <2> QED
    BY <2>1, <2>2, <2>4
<1>3. o \in live /\ queue[o] # <<>>
  BY CommandQueue
<1>4. Popped(o) \in [Objects -> Seq(EventTypes)]
  BY <1>3, PoppedQueues
<1>5. \A q \in live : \A i \in DOMAIN Popped(o)[q] :
            Popped(o)[q][i].callback = "real_incantation" =>
               q # o /\ i = 1 /\ Popped(o)[q][i].data = q /\ Popped(o)[q][i].level <= player[q].level
  BY <1>3, PoppedOnce DEF OnceInv
<1>6. \A q \in live : \A i \in DOMAIN Popped(o)[q] : Popped(o)[q][i].level \in Nat
  <2> TAKE q \in live
  <2> TAKE i \in DOMAIN Popped(o)[q]
  <2>1. Popped(o)[q] \in Seq(EventTypes)
    BY <1>1, <1>4
  <2>2. Popped(o)[q][i] \in EventTypes
    BY <2>1
  <2> QED
    BY <2>2 DEF EventTypes
<1>7. OneIncantationAtATime'
  <2> SUFFICES ASSUME NEW q \in live, NEW i \in DOMAIN queue'[q],
                      queue'[q][i].callback = "real_incantation"
               PROVE  /\ i = 1
                      /\ queue'[q][i].data = q
                      /\ queue'[q][i].level <= player'[q].level
    BY <1>1 DEF OneIncantationAtATime
  <2>1. CASE queue'[q] = Popped(o)[q]
    BY <1>2, <1>5, <1>6, <2>1
  <2>2. CASE queue'[q] # Popped(o)[q]
    <3>1. PICK t \in Nat : queue' = [Popped(o) EXCEPT ![o] =
                                        <<RealIncantation(t, o, player[o].level)>> \o @]
      BY <2>2, CommandQueue
    <3> DEFINE e == RealIncantation(t, o, player[o].level)
    <3> DEFINE old == Popped(o)[o]
    <3>2. e.data = o /\ e.level = player[o].level
      BY DEF RealIncantation
    <3>3. player[o].level \in Nat /\ player[o].level <= player[o].level
      <4>1. player[o].level \in Nat
        BY DEF IndInv, TypeOK, PlayerTypes
      <4> QED
        BY <4>1
    <3>4. q = o /\ queue'[o] = <<e>> \o old
      BY <1>4, <2>2, <3>1
    <3> HIDE DEF e
    <3>5. old \in Seq(EventTypes)
      BY <1>4
    <3> HIDE DEF old
    <3>6. /\ Len(old) \in Nat /\ DOMAIN old = 1 .. Len(old)
          /\ DOMAIN (<<e>> \o old) = 1 .. Len(old) + 1
          /\ \A j \in 1 .. Len(old) + 1 : (<<e>> \o old)[j] = IF j = 1 THEN e ELSE old[j - 1]
      BY <3>5
    <3>7. CASE i = 1
      <4>1. queue'[q][i] = e
        BY <3>4, <3>6, <3>7
      <4> QED
        BY <1>2, <1>3, <3>2, <3>3, <3>4, <3>7, <4>1
    <3>8. CASE i # 1
      <4>1. i \in 1 .. Len(old) + 1
        BY <3>4, <3>6
      <4>2. i - 1 \in DOMAIN old /\ queue'[q][i] = old[i - 1]
        BY <3>4, <3>6, <3>8, <4>1
      <4>3. \A j \in DOMAIN old : old[j].callback # "real_incantation"
        BY <1>3, <1>5 DEF old
      <4> QED
        BY <4>2, <4>3
    <3> QED
      BY <3>7, <3>8
  <2> QED
    BY <2>1, <2>2
<1> QED
  BY <1>1, <1>7 DEF OnceInv

LEMMA NextOnceInv == ASSUME ~Relogin, IndInv, OnceInv, [Next]_vars PROVE OnceInv'
BY StepKinds, QuietOnce, LoginOnce, DieOnce, CommandOnce

LEMMA OnceInvHolds == ASSUME ~Relogin PROVE Spec => [](IndInv /\ OnceInv)
<1>1. Init => OnceInv
  BY DEF Init, OnceInv, OneIncantationAtATime
<1>2. IndInv /\ OnceInv /\ [Next]_vars => OnceInv'
  BY NextOnceInv
<1> QED
  BY <1>1, <1>2, IndInvHolds, PTL DEF Spec

(***************************************************************************)
(* When clients log in once, a player has at most one incantation under    *)
(* way: it stands at the front of the queue, where m_command_incantation   *)
(* puts it past commands that were sent earlier, it is the client's own,   *)
(* and its player is still there and no lower than when it started.        *)
(***************************************************************************)
THEOREM IncantationsCorrect ==
  ASSUME ~Relogin
  PROVE  Spec => []OneIncantationAtATime
<1>1. IndInv /\ OnceInv => OneIncantationAtATime
  BY DEF OnceInv
<1> QED
  BY <1>1, OnceInvHolds, PTL

\* A command that runs while a player is and remains incanting is another player's.
LEMMA IncantingWaits ==
  ASSUME IndInv, OnceInv, NEW o \in Objects, NEW p \in Objects, RunCommand(o, p),
         NEW q \in live, Incanting(q), Incanting(q)'
  PROVE  q # o
<1> SUFFICES ASSUME q = o PROVE FALSE
  OBVIOUS
<1>1. PICK r \in live : \E i \in DOMAIN queue[r] :
         queue[r][i].callback = "real_incantation" /\ queue[r][i].data = q
  BY DEF Incanting
<1>2. 1 \in DOMAIN queue[q] /\ queue[q][1].callback = "real_incantation"
  BY <1>1 DEF OnceInv, OneIncantationAtATime
<1>3. queue' = Popped(o) /\ live' = live /\ o \in live /\ queue[o] # <<>>
  BY <1>2, CommandQueue, CommandKeeps
<1>4. \A x \in live : \A i \in DOMAIN Popped(o)[x] :
            Popped(o)[x][i].callback = "real_incantation" => x # o /\ Popped(o)[x][i].data = x
  BY <1>3, PoppedOnce DEF OnceInv
<1>5. PICK x \in live' : \E i \in DOMAIN queue'[x] :
         queue'[x][i].callback = "real_incantation" /\ queue'[x][i].data = q
  BY DEF Incanting
<1> QED
  BY <1>3, <1>4, <1>5

(***************************************************************************)
(* When clients log in once, nothing that a client sends while its player  *)
(* is incanting turns the player, moves it or changes its stones: the      *)
(* commands wait behind the second half of the incantation, and only the   *)
(* expulse of another player takes it away.                                *)
(***************************************************************************)
THEOREM StandsStillCorrect ==
  ASSUME ~Relogin
  PROVE  Spec => IncantingStandsStill
<1>1. ASSUME IndInv, OnceInv, [Next]_vars
      PROVE  [\A p \in live \cap live' : Incanting(p) /\ Incanting(p)' =>
                /\ player'[p].dir = player[p].dir
                /\ \A r \in Resources \ {"nourriture"} : player'[p].inv[r] = player[p].inv[r]
                /\ player'[p].pos # player[p].pos =>
                      \E o \in live \ {p} : m_command_expulse(o, o)]_vars
  <2> SUFFICES ASSUME NEW q \in live \cap live', Incanting(q), Incanting(q)'
               PROVE  /\ player'[q].dir = player[q].dir
                      /\ \A r \in Resources \ {"nourriture"} : player'[q].inv[r] = player[q].inv[r]
                      /\ player'[q].pos # player[q].pos =>
                            \E o \in live \ {q} : m_command_expulse(o, o)
    OBVIOUS
  <2>1. q \in Objects
    BY <1>1 DEF IndInv, TypeOK
  <2>2. CASE QuietStep
    BY <1>1, <2>1, <2>2, QuietKeeps DEF Keeps
  <2>3. CASE player'[q] = player[q]
    BY <2>3
  <2>4. ASSUME NEW fd \in Fds, NEW team \in Teams, NEW place \in StartPlaces,
               game_register_player(fd, team, place)
        PROVE  player'[q] = player[q]
    <3>1. PICK o \in Objects \ live : player' = [player EXCEPT ![o] = NewPlayer(fd, team, place)]
      BY <1>1, <2>4, LoginKeeps
    <3> QED
      BY <1>1, <2>1, <3>1 DEF IndInv, TypeOK
  <2>5. ASSUME NEW o \in Objects, game_player_die(o)
        PROVE  player'[q] = player[q]
    <3>1. q # o /\ player' = [player EXCEPT ![o] = ZeroPlayer]
      BY <2>5 DEF game_player_die
    <3> QED
      BY <1>1, <2>1, <3>1 DEF IndInv, TypeOK
  <2>6. ASSUME NEW o \in Objects, NEW p \in Objects, RunCommand(o, p)
        PROVE  /\ player'[q].dir = player[q].dir
               /\ \A r \in Resources \ {"nourriture"} : player'[q].inv[r] = player[q].inv[r]
               /\ player'[q].pos # player[q].pos =>
                     \E x \in live \ {q} : m_command_expulse(x, x)
    <3>1. o \in live /\ p = o
      BY <1>1, <2>6, CommandQueue
    <3>2. q # p
      BY <1>1, <2>6, <3>1, IncantingWaits
    <3>3. /\ player'[q].dir = player[q].dir /\ player'[q].inv = player[q].inv
          /\ player'[q].pos # player[q].pos => m_command_expulse(o, p)
      BY <1>1, <2>1, <2>6, <3>2, CommandKeeps
    <3> QED
      BY <3>1, <3>2, <3>3
  <2> QED
    BY <1>1, <2>2, <2>3, <2>4, <2>5, <2>6, StepKinds
<1> QED
  BY <1>1, OnceInvHolds, PTL DEF Spec, IncantingStandsStill

----------------------------------------------------------------------------
(* The number of items *)

\* How many of a resource lie on the map, and how many the players carry.
Laid(a, r) == SumFunction([t \in Tiles |-> a[t][r]])

Carried(p, r) == SumFunction([o \in Objects |-> p[o].inv[r]])

LEMMA TotalParts ==
  ASSUME NEW r
  PROVE  /\ Total(r) = Laid(items, r) + Carried(player, r)
         /\ Total(r)' = Laid(items', r) + Carried(player', r)
BY DEF Total, Laid, Carried

LEMMA TilesAreFinite == IsFiniteSet(Tiles)
<1>1. IsFiniteSet(0 .. MapX - 1) /\ IsFiniteSet(0 .. MapY - 1)
  BY MapAssumption, FS_Interval
<1> QED
  BY <1>1, FS_Product DEF Tiles

LEMMA LaidGrows ==
  ASSUME NEW a \in [Tiles -> Inventories], NEW b \in [Tiles -> Inventories], NEW r \in Resources,
         \A t \in Tiles : a[t][r] <= b[t][r]
  PROVE  Laid(a, r) \in Nat /\ Laid(b, r) \in Nat /\ Laid(a, r) <= Laid(b, r)
<1>1. PICK f : f = [t \in Tiles |-> a[t][r]]
  OBVIOUS
<1>2. PICK g : g = [t \in Tiles |-> b[t][r]]
  OBVIOUS
<1>3. f \in [Tiles -> Nat] /\ g \in [Tiles -> Nat] /\ \A t \in Tiles : f[t] <= g[t]
  BY <1>1, <1>2 DEF Inventories
<1>4. SumFunction(f) \in Nat /\ SumFunction(g) \in Nat /\ SumFunction(f) <= SumFunction(g)
  BY <1>3, TilesAreFinite, SumIsNumber, SumGrows
<1> QED
  BY <1>1, <1>2, <1>4 DEF Laid

LEMMA LaidChanges ==
  ASSUME NEW a \in [Tiles -> Inventories], NEW b \in [Tiles -> Inventories], NEW r \in Resources,
         NEW x \in Tiles, NEW d \in Int, b[x][r] = a[x][r] + d,
         \A t \in Tiles : t # x => b[t][r] = a[t][r]
  PROVE  Laid(a, r) \in Nat /\ Laid(b, r) \in Nat /\ Laid(b, r) = Laid(a, r) + d
<1>1. PICK f : f = [t \in Tiles |-> a[t][r]]
  OBVIOUS
<1>2. PICK g : g = [t \in Tiles |-> b[t][r]]
  OBVIOUS
<1>3. f \in [Tiles -> Nat] /\ g \in [Tiles -> Nat]
  BY <1>1, <1>2 DEF Inventories
<1>4. g[x] = f[x] + d /\ \A t \in Tiles : t # x => g[t] = f[t]
  BY <1>1, <1>2
<1>5. SumFunction(f) \in Nat /\ SumFunction(g) \in Nat /\ SumFunction(g) = SumFunction(f) + d
  BY <1>3, <1>4, TilesAreFinite, SumIsNumber, SumChanges
<1> QED
  BY <1>1, <1>2, <1>5 DEF Laid

LEMMA CarriedGrows ==
  ASSUME NEW p \in [Objects -> PlayerTypes], NEW q \in [Objects -> PlayerTypes], NEW r \in Resources,
         \A o \in Objects : p[o].inv[r] <= q[o].inv[r]
  PROVE  Carried(p, r) \in Nat /\ Carried(q, r) \in Nat /\ Carried(p, r) <= Carried(q, r)
<1>1. PICK f : f = [o \in Objects |-> p[o].inv[r]]
  OBVIOUS
<1>2. PICK g : g = [o \in Objects |-> q[o].inv[r]]
  OBVIOUS
<1>3. f \in [Objects -> Nat] /\ g \in [Objects -> Nat] /\ \A o \in Objects : f[o] <= g[o]
  BY <1>1, <1>2 DEF Inventories, PlayerTypes
<1>4. SumFunction(f) \in Nat /\ SumFunction(g) \in Nat /\ SumFunction(f) <= SumFunction(g)
  BY <1>3, Numbers, SumIsNumber, SumGrows
<1> QED
  BY <1>1, <1>2, <1>4 DEF Carried

LEMMA CarriedChanges ==
  ASSUME NEW p \in [Objects -> PlayerTypes], NEW q \in [Objects -> PlayerTypes], NEW r \in Resources,
         NEW x \in Objects, NEW d \in Int, q[x].inv[r] = p[x].inv[r] + d,
         \A o \in Objects : o # x => q[o].inv[r] = p[o].inv[r]
  PROVE  Carried(p, r) \in Nat /\ Carried(q, r) \in Nat /\ Carried(q, r) = Carried(p, r) + d
<1>1. PICK f : f = [o \in Objects |-> p[o].inv[r]]
  OBVIOUS
<1>2. PICK g : g = [o \in Objects |-> q[o].inv[r]]
  OBVIOUS
<1>3. f \in [Objects -> Nat] /\ g \in [Objects -> Nat]
  BY <1>1, <1>2 DEF Inventories, PlayerTypes
<1>4. g[x] = f[x] + d /\ \A o \in Objects : o # x => g[o] = f[o]
  BY <1>1, <1>2
<1>5. SumFunction(f) \in Nat /\ SumFunction(g) \in Nat /\ SumFunction(g) = SumFunction(f) + d
  BY <1>3, <1>4, Numbers, SumIsNumber, SumChanges
<1> QED
  BY <1>1, <1>2, <1>5 DEF Carried

\* The counts of a resource that a step may only lower, or only raise.
NoneGains(r) ==
    /\ \A t \in Tiles : items'[t][r] <= items[t][r]
    /\ \A o \in Objects : player'[o].inv[r] <= player[o].inv[r]

NoneLoses(r) ==
    /\ \A t \in Tiles : items[t][r] <= items'[t][r]
    /\ \A o \in Objects : player[o].inv[r] <= player'[o].inv[r]

LEMMA TotalFollows ==
  ASSUME IndInv, IndInv', NEW r \in Resources
  PROVE  /\ NoneGains(r) => ~(Total(r)' > Total(r))
         /\ NoneLoses(r) => ~(Total(r)' < Total(r))
<1>1. PICK a : a = items'
  OBVIOUS
<1>2. PICK p : p = player'
  OBVIOUS
<1>3. /\ items \in [Tiles -> Inventories] /\ a \in [Tiles -> Inventories]
      /\ player \in [Objects -> PlayerTypes] /\ p \in [Objects -> PlayerTypes]
  BY <1>1, <1>2 DEF IndInv, TypeOK
<1>4. Total(r) = Laid(items, r) + Carried(player, r) /\ Total(r)' = Laid(a, r) + Carried(p, r)
  BY <1>1, <1>2, TotalParts
<1>5. /\ Laid(items, r) \in Nat /\ Laid(a, r) \in Nat
      /\ Carried(player, r) \in Nat /\ Carried(p, r) \in Nat
  <2>1. \A t \in Tiles : items[t][r] <= items[t][r] /\ a[t][r] <= a[t][r]
    BY <1>3 DEF Inventories
  <2>2. \A o \in Objects : player[o].inv[r] <= player[o].inv[r] /\ p[o].inv[r] <= p[o].inv[r]
    BY <1>3 DEF Inventories, PlayerTypes
  <2> QED
    BY <1>3, <2>1, <2>2, LaidGrows, CarriedGrows
<1>6. ASSUME NoneGains(r) PROVE Laid(a, r) <= Laid(items, r) /\ Carried(p, r) <= Carried(player, r)
  <2>1. /\ \A t \in Tiles : a[t][r] <= items[t][r]
        /\ \A o \in Objects : p[o].inv[r] <= player[o].inv[r]
    BY <1>1, <1>2, <1>6 DEF NoneGains
  <2> QED
    BY <1>3, <2>1, LaidGrows, CarriedGrows
<1>7. ASSUME NoneLoses(r) PROVE Laid(items, r) <= Laid(a, r) /\ Carried(player, r) <= Carried(p, r)
  <2>1. /\ \A t \in Tiles : items[t][r] <= a[t][r]
        /\ \A o \in Objects : player[o].inv[r] <= p[o].inv[r]
    BY <1>1, <1>2, <1>7 DEF NoneLoses
  <2> QED
    BY <1>3, <2>1, LaidGrows, CarriedGrows
<1>8. NoneGains(r) => ~(Laid(a, r) + Carried(p, r) > Laid(items, r) + Carried(player, r))
  BY <1>5, <1>6
<1>9. NoneLoses(r) => ~(Laid(a, r) + Carried(p, r) < Laid(items, r) + Carried(player, r))
  BY <1>5, <1>7
<1> QED
  BY <1>4, <1>8, <1>9, Zenon

\* Resource r does not become more by a step, and less of it only as it may.
Kept(r) ==
    /\ ~(Total(r)' > Total(r))
    /\ Total(r)' < Total(r) => \/ live' # live
                               \/ r = "nourriture"
                               \/ \E o \in live : m_command_incantation(o, o)

\* Nobody's count of a resource changes.
SameCounts(r) ==
    /\ \A t \in Tiles : items'[t][r] = items[t][r]
    /\ \A o \in Objects : player'[o].inv[r] = player[o].inv[r]

LEMMA CountsAreNumbers ==
  ASSUME IndInv, NEW r \in Resources
  PROVE  /\ \A t \in Tiles : items[t][r] \in Nat
         /\ \A o \in Objects : player[o].inv[r] \in Nat
BY DEF IndInv, TypeOK, Inventories, PlayerTypes

LEMMA SameCountsKept ==
  ASSUME IndInv, IndInv', NEW r \in Resources, SameCounts(r)
  PROVE  Kept(r)
<1>1. NoneGains(r) /\ NoneLoses(r)
  BY CountsAreNumbers DEF SameCounts, NoneGains, NoneLoses
<1> QED
  BY <1>1, TotalFollows DEF Kept

LEMMA SameItemsKept ==
  ASSUME IndInv, IndInv', NEW r \in Resources, items' = items,
         \A o \in Objects : player'[o].inv[r] = player[o].inv[r]
  PROVE  Kept(r)
BY SameCountsKept DEF SameCounts

\* The steps that take food away, and no stone.
LEMMA KillingKept ==
  ASSUME IndInv, IndInv', NEW r \in Resources, items' = items, \A q \in Objects : Keeps(q),
         \A q \in Objects : player'[q].inv["nourriture"] <= player[q].inv["nourriture"]
  PROVE  Kept(r)
<1>1. CASE r = "nourriture"
  <2>1. NoneGains(r)
    BY <1>1, CountsAreNumbers DEF NoneGains
  <2> QED
    BY <1>1, <2>1, TotalFollows DEF Kept
<1>2. CASE r # "nourriture"
  <2>1. \A q \in Objects : player'[q].inv[r] = player[q].inv[r]
    BY <1>2 DEF Keeps
  <2> QED
    BY <2>1, SameItemsKept
<1> QED
  BY <1>1, <1>2

LEMMA QuietItems ==
  ASSUME IndInv, QuietStep, ~m_game_spawn_resources
  PROVE  /\ items' = items
         /\ \A q \in Objects : player'[q].inv["nourriture"] <= player[q].inv["nourriture"]
<1>1. "nourriture" \in Resources
  BY DEF Resources
<1>2. \A q \in Objects : player[q].inv["nourriture"] \in Nat
  BY <1>1, CountsAreNumbers
<1>3. CASE \/ time_api_update \/ NothingReady \/ NothingToDo \/ EndPlay \/ UNCHANGED vars
  <2>1. items' = items /\ player' = player
    BY <1>3 DEF time_api_update, NothingReady, NothingToDo, EndPlay, vars
  <2> QED
    BY <1>2, <2>1
<1>4. ASSUME NEW fd \in Fds, m_handle_cmd(fd)
      PROVE  /\ items' = items
             /\ \A q \in Objects : player'[q].inv["nourriture"] <= player[q].inv["nourriture"]
  <2>1. items' = items /\ player' = player
    BY <1>4 DEF m_handle_cmd, game_execute_command, Handle
  <2> QED
    BY <1>2, <2>1
<1>5. \A q \in Objects : player[q] \in PlayerTypes
  BY DEF IndInv, TypeOK
<1>6. ASSUME NEW victims,
             \A q \in Objects : player'[q] = IF q \in victims THEN Killed(player[q]) ELSE player[q]
      PROVE  \A q \in Objects : player'[q].inv["nourriture"] <= player[q].inv["nourriture"]
  <2> TAKE q \in Objects
  <2>1. Killed(player[q]).inv["nourriture"] = 0
    BY <1>5, KilledPlayer
  <2> QED
    BY <1>2, <1>6, <2>1
<1>7. ASSUME NEW fd \in Fds, game_kill_player(fd)
      PROVE  /\ items' = items
             /\ \A q \in Objects : player'[q].inv["nourriture"] <= player[q].inv["nourriture"]
  <2>1. /\ items' = items
        /\ \A q \in Objects : player'[q] = IF q \in {ClientOf(fd)} THEN Killed(player[q]) ELSE player[q]
    BY <1>7 DEF game_kill_player, Handle, IndInv, TypeOK
  <2> QED
    BY <2>1, <1>6
<1>8. ASSUME m_remove_clients
      PROVE  /\ items' = items
             /\ \A q \in Objects : player'[q].inv["nourriture"] <= player[q].inv["nourriture"]
  <2> DEFINE victims == {o \in Objects : \E fd \in ToSet(Walked(removals)) : ClientOf(fd) = o}
  <2>1. /\ items' = items
        /\ \A q \in Objects : player'[q] = IF q \in victims THEN Killed(player[q]) ELSE player[q]
    BY <1>8 DEF m_remove_clients
  <2> HIDE DEF victims
  <2> QED
    BY <2>1, <1>6
<1>9. ASSUME NEW o \in Objects, Eat(o)
      PROVE  /\ items' = items
             /\ \A q \in Objects : player'[q].inv["nourriture"] <= player[q].inv["nourriture"]
  <2>1. /\ items' = items
        /\ \A q \in Objects :
              player'[q] = IF q = o THEN [player[q] EXCEPT !.inv["nourriture"] = @ - 1,
                                                           !.die_time = @ + LifeUnit]
                                    ELSE player[q]
    BY <1>9 DEF Eat, IndInv, TypeOK
  <2>2. ASSUME NEW q \in Objects PROVE player'[q].inv["nourriture"] <= player[q].inv["nourriture"]
    <3>1. CASE q = o
      <4> DEFINE fed == [player[q].inv EXCEPT !["nourriture"] = player[q].inv["nourriture"] - 1]
      <4>1. player'[q] = [player[q] EXCEPT !.inv = fed, !.die_time = player[q].die_time + LifeUnit]
        BY <1>5, <2>1, <3>1 DEF PlayerTypes
      <4>2. fed["nourriture"] = player[q].inv["nourriture"] - 1
        BY <1>1, <1>5 DEF PlayerTypes, Inventories
      <4> HIDE DEF fed
      <4>3. player'[q].inv = fed
        BY <1>5, <4>1 DEF PlayerTypes
      <4> QED
        BY <1>2, <4>2, <4>3
    <3>2. CASE q # o
      <4>1. player'[q] = player[q]
        BY <2>1, <3>2
      <4> QED
        BY <1>2, <4>1
    <3> QED
      BY <3>1, <3>2
  <2> QED
    BY <2>1, <2>2
<1> QED
  BY <1>3, <1>4, <1>7, <1>8, <1>9 DEF QuietStep, SelectReturns

LEMMA QuietKept ==
  ASSUME IndInv, IndInv', QuietStep, ~m_game_spawn_resources, NEW r \in Resources
  PROVE  Kept(r)
BY QuietItems, QuietKeeps, KillingKept

\* A respawn takes nothing away.
LEMMA SpawnGives ==
  ASSUME IndInv, IndInv', m_game_spawn_resources, NEW r \in Resources
  PROVE  ~(Total(r)' < Total(r))
<1>1. PICK drawn \in [BatchTiles -> Spawns] :
         items' = [t \in Tiles |->
                     IF t \in BatchTiles /\ inventory_sum(items[t]) <= 15
                     THEN [x \in Resources |-> items[t][x] + drawn[t][x]]
                     ELSE items[t]]
  BY DEF m_game_spawn_resources
<1>2. ASSUME NEW t \in Tiles PROVE items[t][r] <= items'[t][r]
  <2>1. items[t][r] \in Nat
    BY CountsAreNumbers
  <2>2. CASE t \in BatchTiles /\ inventory_sum(items[t]) <= 15
    <3>1. items'[t][r] = items[t][r] + drawn[t][r] /\ drawn[t] \in Inventories
      BY <1>1, <2>2, GameAssumption
    <3>2. drawn[t][r] \in Nat
      BY <3>1 DEF Inventories
    <3> QED
      BY <2>1, <3>1, <3>2
  <2>3. CASE ~(t \in BatchTiles /\ inventory_sum(items[t]) <= 15)
    <3>1. items'[t] = items[t]
      BY <1>1, <2>3
    <3> QED
      BY <2>1, <3>1
  <2> QED
    BY <2>2, <2>3
<1>3. player' = player
  BY DEF m_game_spawn_resources
<1>4. NoneLoses(r)
  BY <1>2, <1>3, CountsAreNumbers DEF NoneLoses
<1> QED
  BY <1>4, TotalFollows

\* A login and a death change who is there, and give nobody anything.
LEMMA LoginKept ==
  ASSUME IndInv, IndInv', NEW fd \in Fds, NEW team \in Teams, NEW place \in StartPlaces,
         game_register_player(fd, team, place), NEW r \in Resources
  PROVE  Kept(r)
<1>1. PICK o \in Objects \ live :
         live' = live \cup {o} /\ player' = [player EXCEPT ![o] = NewPlayer(fd, team, place)]
  BY LoginKeeps
<1>2. items' = items /\ live' # live
  BY <1>1 DEF game_register_player, Handle
<1>3. ASSUME NEW q \in Objects PROVE player'[q].inv[r] <= player[q].inv[r]
  <2>1. player[q].inv[r] \in Nat
    BY CountsAreNumbers
  <2>2. player'[q] = IF q = o THEN NewPlayer(fd, team, place) ELSE player[q]
    BY <1>1 DEF IndInv, TypeOK
  <2>3. NewPlayer(fd, team, place).inv[r] = 0
    BY DEF NewPlayer, NoItems
  <2>4. player'[q].inv[r] = 0 \/ player'[q].inv[r] = player[q].inv[r]
    BY <2>2, <2>3, Zenon
  <2> QED
    BY <2>1, <2>4
<1>4. NoneGains(r)
  BY <1>2, <1>3, CountsAreNumbers DEF NoneGains
<1> QED
  BY <1>2, <1>4, TotalFollows DEF Kept

LEMMA DeathKept ==
  ASSUME IndInv, IndInv', NEW o \in Objects, game_player_die(o), NEW r \in Resources
  PROVE  Kept(r)
<1>1. o \in live
  BY DEF game_player_die, AtSlot, IndInv, RegInv
<1>2. items' = items /\ live' # live
  BY <1>1 DEF game_player_die
<1>3. ASSUME NEW q \in Objects PROVE player'[q].inv[r] <= player[q].inv[r]
  <2>1. player[q].inv[r] \in Nat
    BY CountsAreNumbers
  <2>2. player'[q] = IF q = o THEN ZeroPlayer ELSE player[q]
    BY DEF game_player_die, IndInv, TypeOK
  <2>3. ZeroPlayer.inv[r] = 0
    BY DEF ZeroPlayer, NoItems
  <2>4. player'[q].inv[r] = 0 \/ player'[q].inv[r] = player[q].inv[r]
    BY <2>2, <2>3, Zenon
  <2> QED
    BY <2>1, <2>4
<1>4. NoneGains(r)
  BY <1>2, <1>3, CountsAreNumbers DEF NoneGains
<1> QED
  BY <1>2, <1>4, TotalFollows DEF Kept

\* What a player takes off its tile it has, and the other way round.
LEMMA TransferKept ==
  ASSUME IndInv, IndInv', NEW o \in Objects, NEW a, NEW n \in Int,
         player' = [player EXCEPT ![o].inv = Transfer(player[o].inv, a, n)],
         items' = [items EXCEPT ![player[o].pos] = Transfer(items[player[o].pos], a, -n)],
         NEW r \in Resources
  PROVE  Kept(r)
<1>1. PICK t \in Tiles : t = player[o].pos
  BY DEF IndInv, TypeOK, PlayerTypes
<1>2. PICK b : b = items'
  OBVIOUS
<1>3. PICK p : p = player'
  OBVIOUS
<1>4. /\ items \in [Tiles -> Inventories] /\ b \in [Tiles -> Inventories]
      /\ player \in [Objects -> PlayerTypes] /\ p \in [Objects -> PlayerTypes]
  BY <1>2, <1>3 DEF IndInv, TypeOK
<1> DEFINE d == IF r = a THEN n ELSE 0
<1>5. d \in Int /\ -d \in Int
  OBVIOUS
<1>6. ASSUME NEW inv \in Inventories, NEW k \in Int
      PROVE  Transfer(inv, a, k)[r] = IF r = a THEN inv[r] + k ELSE inv[r]
  BY <1>6 DEF Transfer, Inventories
<1>7. /\ b[t] = Transfer(items[t], a, -n) /\ \A u \in Tiles : u # t => b[u] = items[u]
      /\ p[o].inv = Transfer(player[o].inv, a, n) /\ \A q \in Objects : q # o => p[q] = player[q]
  BY <1>1, <1>2, <1>3, <1>4 DEF PlayerTypes
<1>8. b[t][r] = items[t][r] + (-d) /\ p[o].inv[r] = player[o].inv[r] + d
  <2>1. /\ items[t] \in Inventories /\ player[o].inv \in Inventories
        /\ items[t][r] \in Nat /\ player[o].inv[r] \in Nat
    BY <1>4, CountsAreNumbers DEF PlayerTypes
  <2>2. /\ Transfer(items[t], a, -n)[r] = IF r = a THEN items[t][r] + (-n) ELSE items[t][r]
        /\ Transfer(player[o].inv, a, n)[r] = IF r = a THEN player[o].inv[r] + n ELSE player[o].inv[r]
    BY <1>6, <2>1
  <2> QED
    BY <1>7, <2>1, <2>2
<1> HIDE DEF d
<1>9. Laid(items, r) \in Nat /\ Laid(b, r) = Laid(items, r) + (-d)
  BY <1>4, <1>5, <1>7, <1>8, LaidChanges
<1>10. Carried(player, r) \in Nat /\ Carried(p, r) = Carried(player, r) + d
  BY <1>4, <1>5, <1>7, <1>8, CarriedChanges
<1>11. Total(r) = Laid(items, r) + Carried(player, r) /\ Total(r)' = Laid(b, r) + Carried(p, r)
  BY <1>2, <1>3, TotalParts
<1>12. Total(r) \in Nat /\ Laid(b, r) + Carried(p, r) = Total(r)
  BY <1>5, <1>9, <1>10, <1>11
<1>13. Total(r)' = Total(r)
  BY <1>11, <1>12, Zenon
<1> QED
  BY <1>12, <1>13 DEF Kept

\* The commands that leave all items where they are.
LEMMA CarryNothing ==
  ASSUME IndInv, NEW o \in Objects, NEW p \in Objects,
         \/ m_command_avance(o, p) \/ m_command_droite_gauche(o, p) \/ ReportingCommand(o, p)
         \/ m_command_expulse(o, p) \/ m_command_real_incantation(o, p)
  PROVE  items' = items /\ \A q \in Objects : player'[q].inv = player[q].inv
<1>1. player \in [Objects -> PlayerTypes] /\ \A q \in Objects : player[q] \in PlayerTypes
  BY DEF IndInv, TypeOK
<1>2. items' = items
  BY DEF m_command_avance, m_command_droite_gauche, ReportingCommand, m_command_expulse,
         m_command_real_incantation
<1> SUFFICES ASSUME NEW q \in Objects PROVE player'[q].inv = player[q].inv
  BY <1>2
<1>3. CASE m_command_avance(o, p)
  <2>1. PICK d : player' = [player EXCEPT ![p].pos = d]
    BY <1>3 DEF m_command_avance
  <2>2. player'[q] = IF q = p THEN [player[q] EXCEPT !.pos = d] ELSE player[q]
    BY <1>1, <2>1
  <2> QED
    BY <1>1, <2>2 DEF PlayerTypes
<1>4. CASE m_command_droite_gauche(o, p)
  <2>1. PICK d : player' = [player EXCEPT ![p].dir = d]
    BY <1>4 DEF m_command_droite_gauche
  <2>2. player'[q] = IF q = p THEN [player[q] EXCEPT !.dir = d] ELSE player[q]
    BY <1>1, <2>1
  <2> QED
    BY <1>1, <2>2 DEF PlayerTypes
<1>5. CASE ReportingCommand(o, p)
  BY <1>5 DEF ReportingCommand
<1>6. CASE m_command_expulse(o, p)
  <2>1. \E d : player'[q] = [player[q] EXCEPT !.pos = d] \/ player'[q] = player[q]
    BY <1>6 DEF m_command_expulse
  <2> QED
    BY <1>1, <2>1 DEF PlayerTypes
<1>7. CASE m_command_real_incantation(o, p)
  <2>1. player'[q] = [player[q] EXCEPT !.level = @ + 1] \/ player'[q] = player[q]
    BY <1>7 DEF m_command_real_incantation
  <2> QED
    BY <1>1, <2>1 DEF PlayerTypes
<1> QED
  BY <1>3, <1>4, <1>5, <1>6, <1>7

LEMMA PrendKept ==
  ASSUME IndInv, IndInv', NEW o \in Objects, NEW p \in Objects, m_command_prend(o, p),
         NEW r \in Resources
  PROVE  Kept(r)
<1> DEFINE a == Head(queue[o]).arg
<1> DEFINE t == player[p].pos
<1> DEFINE n == IF a \in Resources /\ items[t][a] > 0 THEN 1 ELSE 0
<1>1. /\ player' = [player EXCEPT ![p].inv = Transfer(player[p].inv, a, n)]
      /\ items' = [items EXCEPT ![t] = Transfer(items[t], a, -n)]
  BY DEF m_command_prend, IndInv, TypeOK
<1>2. n \in Int
  OBVIOUS
<1> HIDE DEF a, n
<1> QED
  BY <1>1, <1>2, TransferKept

LEMMA PoseKept ==
  ASSUME IndInv, IndInv', NEW o \in Objects, NEW p \in Objects, m_command_pose(o, p),
         NEW r \in Resources
  PROVE  Kept(r)
<1> DEFINE a == Head(queue[o]).arg
<1> DEFINE t == player[p].pos
<1> DEFINE n == IF a \in Resources /\ player[p].inv[a] > 0 THEN 1 ELSE 0
<1>1. /\ player' = [player EXCEPT ![p].inv = Transfer(player[p].inv, a, -n)]
      /\ items' = [items EXCEPT ![t] = Transfer(items[t], a, n)]
  BY DEF m_command_pose, IndInv, TypeOK
<1>2. n \in Int
  OBVIOUS
<1> HIDE DEF a, n
<1>3. PICK m \in Int : m = -n
  BY <1>2
<1>4. -m = n
  BY <1>2, <1>3
<1>5. /\ player' = [player EXCEPT ![p].inv = Transfer(player[p].inv, a, m)]
      /\ items' = [items EXCEPT ![t] = Transfer(items[t], a, -m)]
  BY <1>1, <1>3, <1>4
<1> QED
  BY <1>3, <1>5, TransferKept

LEMMA IncantationKept ==
  ASSUME IndInv, IndInv', NEW o \in Objects, NEW p \in Objects, m_command_incantation(o, p),
         NEW r \in Resources
  PROVE  Kept(r)
<1> DEFINE t == player[p].pos
<1>1. p = o /\ o \in live
  <2>1. Command(o, p, {"incantation"})
    BY DEF m_command_incantation
  <2> QED
    BY <2>1, CommandFacts
<1>2. player' = player /\ t \in Tiles
  BY DEF m_command_incantation, IndInv, TypeOK, PlayerTypes
<1>3. ASSUME NEW u \in Tiles PROVE items'[u][r] <= items[u][r]
  <2>1. items[u][r] \in Nat
    BY CountsAreNumbers
  <2>2. CASE items' = items
    BY <2>1, <2>2
  <2>3. CASE /\ m_game_check_can_incantation(p, TRUE)
             /\ items' = [items EXCEPT ![t] = Consumed(items[t], player[p].level)]
    <3>1. player[p].level \in 0 .. LEVEL_MAX - 1
      <4>1. player[p].level \in 0 .. LEVEL_MAX
        BY DEF IndInv, TypeOK, PlayerTypes
      <4>2. player[p].level < LEVEL_MAX
        BY <2>3 DEF m_game_check_can_incantation
      <4> QED
        BY <4>1, <4>2 DEF LEVEL_MAX
    <3>2. Requisites(player[p].level).inv[r] \in Nat
      BY <3>1, LevelFacts
    <3>3. CASE u = t
      <4>1. items'[u] = Consumed(items[u], player[p].level)
        BY <1>2, <2>3, <3>3 DEF IndInv, TypeOK
      <4>2. items'[u][r] = items[u][r] - Requisites(player[p].level).inv[r]
        BY <4>1 DEF Consumed
      <4> QED
        BY <2>1, <3>2, <4>2
    <3>4. CASE u # t
      <4>1. items'[u] = items[u]
        BY <2>3, <3>4 DEF IndInv, TypeOK
      <4> QED
        BY <2>1, <4>1
    <3> QED
      BY <3>3, <3>4
  <2>4. \/ items' = items
        \/ /\ m_game_check_can_incantation(p, TRUE)
           /\ items' = [items EXCEPT ![t] = Consumed(items[t], player[p].level)]
    BY <1>2 DEF m_command_incantation, IndInv, TypeOK
  <2> QED
    BY <2>2, <2>3, <2>4
<1>4. NoneGains(r)
  BY <1>2, <1>3, CountsAreNumbers DEF NoneGains
<1>5. \E x \in live : m_command_incantation(x, x)
  BY <1>1
<1> QED
  BY <1>4, <1>5, TotalFollows DEF Kept

(***************************************************************************)
(* Whatever the clients do, nobody duplicates an item or loses one: prend  *)
(* and pose move items between a player and its tile, only a respawn adds  *)
(* some, and stones go only in an incantation or with a player that dies.  *)
(***************************************************************************)
THEOREM ItemsCorrect == Spec => ItemsConserved
<1>1. ASSUME IndInv, [Next]_vars
      PROVE  [\A r \in Moved :
                /\ Total(r)' > Total(r) => m_game_spawn_resources
                /\ Total(r)' < Total(r) => \/ live' # live
                                           \/ r = "nourriture"
                                           \/ \E o \in live : m_command_incantation(o, o)]_vars
  <2>1. IndInv'
    BY <1>1, NextIndInv
  <2> SUFFICES ASSUME NEW r \in Resources
               PROVE  Kept(r) \/ (m_game_spawn_resources /\ ~(Total(r)' < Total(r)))
    BY DEF Moved, Kept
  <2>2. CASE m_game_spawn_resources
    BY <1>1, <2>1, <2>2, SpawnGives
  <2>3. CASE QuietStep /\ ~m_game_spawn_resources
    BY <1>1, <2>1, <2>3, QuietKept
  <2>4. CASE \E fd \in Fds, team \in Teams, place \in StartPlaces : game_register_player(fd, team, place)
    BY <1>1, <2>1, <2>4, LoginKept
  <2>5. CASE \E o \in Objects : game_player_die(o)
    BY <1>1, <2>1, <2>5, DeathKept
  <2>6. ASSUME NEW o \in Objects, NEW p \in Objects, RunCommand(o, p) PROVE Kept(r)
    <3>1. CASE \/ m_command_avance(o, p) \/ m_command_droite_gauche(o, p) \/ ReportingCommand(o, p)
               \/ m_command_expulse(o, p) \/ m_command_real_incantation(o, p)
      <4>1. items' = items /\ \A q \in Objects : player'[q].inv[r] = player[q].inv[r]
        BY <1>1, <3>1, CarryNothing
      <4> QED
        BY <1>1, <2>1, <4>1, SameItemsKept
    <3>2. CASE m_command_prend(o, p) \/ m_command_pose(o, p) \/ m_command_incantation(o, p)
      BY <1>1, <2>1, <3>2, PrendKept, PoseKept, IncantationKept
    <3> QED
      BY <2>6, <3>1, <3>2 DEF RunCommand
  <2> QED
    BY <1>1, <2>2, <2>3, <2>4, <2>5, <2>6, StepKinds
<1> QED
  BY <1>1, IndInvHolds, PTL DEF Spec, ItemsConserved

----------------------------------------------------------------------------
(* The queues of the clients as bounded deques *)

\* What is to be done, without the times.
ItemsOf(q) == [i \in DOMAIN q |-> Item(q[i])]

\* What a step does to the queue of object o.
Untouched(o) == queue'[o] = queue[o]

Accepts(o) ==
    \E e \in EventTypes :
        Item(e) \in Items /\ Len(queue[o]) < MAX_EVENTS /\ queue'[o] = Append(queue[o], e)

Runs(o) == queue[o] # <<>> /\ queue'[o] = Tail(queue[o])

Continues(o) ==
    \E e \in EventTypes :
        Item(e) \in Items /\ queue[o] # <<>> /\ queue'[o] = <<e>> \o Tail(queue[o])

QueueMove(o) ==
    Untouched(o) \/ Accepts(o) \/ Runs(o) \/ Continues(o) \/ queue'[o] = <<>>

\* No queue is longer than the buffer.
QueuesFit == \A o \in Objects : Len(queue[o]) <= MAX_EVENTS

\* The type of the items; Items are those that the game can ask for.
AllItems ==
    [callback : AllCommands \cup {"real_incantation"}, arg : Resources \cup {NoArg, "unknown"}]

LEMMA ItemType == ASSUME NEW e \in EventTypes PROVE Item(e) \in AllItems
BY DEF EventTypes, Item, AllItems

LEMMA ItemsOfLength ==
  ASSUME NEW q \in Seq(EventTypes)
  PROVE  /\ ItemsOf(q) \in Seq(AllItems) /\ Len(ItemsOf(q)) = Len(q)
         /\ q # <<>> => ItemsOf(q) # <<>>
<1>1. Len(q) \in Nat /\ DOMAIN q = 1 .. Len(q) /\ \A i \in 1 .. Len(q) : q[i] \in EventTypes
  OBVIOUS
<1>2. ItemsOf(q) = [i \in 1 .. Len(q) |-> Item(q[i])]
  BY <1>1 DEF ItemsOf
<1>3. \A i \in 1 .. Len(q) : Item(q[i]) \in AllItems
  BY <1>1, ItemType
<1>4. ItemsOf(q) \in Seq(AllItems) /\ Len(ItemsOf(q)) = Len(q)
  BY <1>1, <1>2, <1>3
<1> QED
  BY <1>4

LEMMA ItemsOfAppend ==
  ASSUME NEW q \in Seq(EventTypes), NEW e \in EventTypes
  PROVE  ItemsOf(Append(q, e)) = Append(ItemsOf(q), Item(e))
BY ItemsOfLength, ItemType DEF ItemsOf

LEMMA ItemsOfTail ==
  ASSUME NEW q \in Seq(EventTypes), q # <<>>
  PROVE  ItemsOf(Tail(q)) = Tail(ItemsOf(q))
BY ItemsOfLength DEF ItemsOf

LEMMA ItemsOfFront ==
  ASSUME NEW q \in Seq(EventTypes), NEW e \in EventTypes
  PROVE  ItemsOf(<<e>> \o q) = <<Item(e)>> \o ItemsOf(q)
BY ItemsOfLength, ItemType DEF ItemsOf

LEMMA MoveIsDequeStep ==
  ASSUME IndInv, NEW o \in Objects, QueueMove(o)
  PROVE  [Deque(o)!Next]_(PendingItems(o))
<1>1. PICK q \in Seq(EventTypes) : q = queue[o]
  BY DEF IndInv, TypeOK
<1>2. PICK r : r = queue'[o]
  OBVIOUS
<1>3. PendingItems(o) = ItemsOf(q) /\ PendingItems(o)' = ItemsOf(r)
  BY <1>1, <1>2 DEF PendingItems, ItemsOf
<1>4. Len(ItemsOf(q)) = Len(q) /\ (q # <<>> => ItemsOf(q) # <<>>)
  BY ItemsOfLength
<1>5. CASE Untouched(o)
  BY <1>1, <1>2, <1>3, <1>5 DEF Untouched
<1>6. CASE Accepts(o)
  <2>1. PICK e \in EventTypes :
            Item(e) \in Items /\ Len(q) < MAX_EVENTS /\ r = Append(q, e)
    BY <1>1, <1>2, <1>6 DEF Accepts
  <2>2. ItemsOf(r) = Append(ItemsOf(q), Item(e))
    BY <2>1, ItemsOfAppend
  <2>3. Deque(o)!Submit(Item(e))
    BY <1>3, <1>4, <2>1, <2>2 DEF Deque!Submit
  <2> QED
    BY <2>1, <2>3 DEF Deque!Next
<1>7. CASE Runs(o)
  <2>1. q # <<>> /\ r = Tail(q)
    BY <1>1, <1>2, <1>7 DEF Runs
  <2>2. ItemsOf(r) = Tail(ItemsOf(q))
    BY <2>1, ItemsOfTail
  <2>3. Deque(o)!Run
    BY <1>3, <1>4, <2>1, <2>2 DEF Deque!Run
  <2> QED
    BY <2>3 DEF Deque!Next
<1>8. CASE Continues(o)
  <2>1. PICK e \in EventTypes : Item(e) \in Items /\ q # <<>> /\ r = <<e>> \o Tail(q)
    BY <1>1, <1>2, <1>8 DEF Continues
  <2>2. Tail(q) \in Seq(EventTypes) /\ ItemsOf(Tail(q)) = Tail(ItemsOf(q))
    BY <2>1, ItemsOfTail
  <2>3. ItemsOf(r) = <<Item(e)>> \o Tail(ItemsOf(q))
    BY <2>1, <2>2, ItemsOfFront
  <2>4. Deque(o)!RunAndContinue(Item(e))
    BY <1>3, <1>4, <2>1, <2>3 DEF Deque!RunAndContinue
  <2> QED
    BY <2>1, <2>4 DEF Deque!Next
<1>9. CASE queue'[o] = <<>>
  <2>1. PendingItems(o)' = <<>>
    BY <1>9 DEF PendingItems
  <2> QED
    BY <2>1 DEF Deque!Next, Deque!Drop
<1> QED
  BY <1>5, <1>6, <1>7, <1>8, <1>9 DEF QueueMove

LEMMA MoveFits ==
  ASSUME IndInv, NEW o \in Objects, QueueMove(o), Len(queue[o]) <= MAX_EVENTS
  PROVE  Len(queue'[o]) <= MAX_EVENTS
<1>1. PICK q \in Seq(EventTypes) : q = queue[o]
  BY DEF IndInv, TypeOK
<1>2. Len(q) \in Nat /\ Len(q) <= MAX_EVENTS /\ MAX_EVENTS \in Nat
  BY <1>1, Numbers
<1>3. CASE Untouched(o)
  BY <1>3 DEF Untouched
<1>4. CASE Accepts(o)
  <2>1. PICK e \in EventTypes : Len(q) < MAX_EVENTS /\ queue'[o] = Append(q, e)
    BY <1>1, <1>4 DEF Accepts
  <2>2. Len(Append(q, e)) = Len(q) + 1
    OBVIOUS
  <2> QED
    BY <1>2, <2>1, <2>2
<1>5. ASSUME q # <<>>
      PROVE  Len(Tail(q)) = Len(q) - 1 /\ \A e \in EventTypes : Len(<<e>> \o Tail(q)) = Len(q)
  <2>1. Tail(q) \in Seq(EventTypes) /\ Len(Tail(q)) = Len(q) - 1
    BY <1>5
  <2>2. \A e \in EventTypes : Len(<<e>> \o Tail(q)) = 1 + Len(Tail(q))
    BY <2>1
  <2> QED
    BY <1>2, <2>1, <2>2
<1>6. CASE Runs(o)
  BY <1>1, <1>2, <1>5, <1>6 DEF Runs
<1>7. CASE Continues(o)
  BY <1>1, <1>2, <1>5, <1>7 DEF Continues
<1>8. CASE queue'[o] = <<>>
  BY <1>2, <1>8
<1> QED
  BY <1>3, <1>4, <1>6, <1>7, <1>8 DEF QueueMove

LEMMA QuietMoves ==
  ASSUME IndInv, QuietStep, QueuesFit, NEW o \in Objects
  PROVE  QueueMove(o)
<1>1. CASE queue' = queue
  BY <1>1 DEF QueueMove, Untouched
<1>2. ASSUME NEW fd \in Fds, m_handle_cmd(fd) PROVE QueueMove(o)
  <2>1. PICK msg \in Sends[fd] : game_execute_command(fd, msg[1], msg[2])
    BY <1>2 DEF m_handle_cmd
  <2> DEFINE c == ClientOf(fd)
  <2>2. PICK t : queue' = IF c = 0 \/ Len(queue[c]) = MAX_EVENTS THEN queue
                          ELSE [queue EXCEPT ![c] = Append(@, Event(t, msg[1], c, msg[2]))]
    BY <2>1 DEF game_execute_command
  <2>4. PICK e : e = Event(t, msg[1], c, msg[2])
    OBVIOUS
  <2>5. Item(e) \in Items
    <3>1. Item(e) = [callback |-> msg[1], arg |-> msg[2]]
      BY <2>4 DEF Item, Event
    <3>2. msg \in UNION {Sends[f] : f \in Fds}
      OBVIOUS
    <3> QED
      BY <3>1, <3>2 DEF Items
  <2>3. CASE queue' # queue
    <3>1. c # 0 /\ Len(queue[c]) # MAX_EVENTS /\ queue' = [queue EXCEPT ![c] = Append(@, e)]
      BY <2>2, <2>3, <2>4
    <3>2. c \in Objects
      BY <3>1, ClientOfFd DEF IndInv, TypeOK
    <3>3. queue \in [Objects -> Seq(EventTypes)] /\ queue' \in [Objects -> Seq(EventTypes)]
      <4>1. IndInv'
        BY <2>1, ExecuteStep
      <4> QED
        BY <4>1 DEF IndInv, TypeOK
    <3> HIDE DEF c
    <3>4. queue'[c] = Append(queue[c], e) /\ \A q \in Objects : q # c => queue'[q] = queue[q]
      BY <3>1, <3>2, <3>3
    <3>5. Len(queue[c]) < MAX_EVENTS
      <4>1. Len(queue[c]) \in Nat /\ Len(queue[c]) <= MAX_EVENTS
        BY <3>2, <3>3 DEF QueuesFit
      <4> QED
        BY <3>1, <4>1, Numbers
    <3>6. e \in EventTypes
      <4>1. /\ queue[c] \in Seq(EventTypes) /\ Append(queue[c], e) \in Seq(EventTypes)
            /\ Len(queue[c]) \in Nat
        BY <3>2, <3>3, <3>4
      <4>2. Append(queue[c], e)[Len(queue[c]) + 1] = e /\ Len(Append(queue[c], e)) = Len(queue[c]) + 1
        BY <4>1, AppendProperties
      <4>3. Len(queue[c]) + 1 \in 1 .. Len(Append(queue[c], e))
        BY <4>1, <4>2
      <4> QED
        BY <4>1, <4>2, <4>3, ElementOfSeq
    <3>7. CASE o = c
      BY <2>5, <3>4, <3>5, <3>6, <3>7 DEF QueueMove, Accepts
    <3>8. CASE o # c
      BY <3>4, <3>8 DEF QueueMove, Untouched
    <3> QED
      BY <3>7, <3>8
  <2> QED
    BY <1>1, <2>3
<1>3. CASE \/ time_api_update \/ SelectReturns \/ NothingToDo \/ m_game_spawn_resources
           \/ EndPlay \/ UNCHANGED vars
  <2>1. queue' = queue
    BY <1>3 DEF time_api_update, SelectReturns, NothingReady, m_remove_clients, NothingToDo,
       m_game_spawn_resources, EndPlay, vars
  <2> QED
    BY <1>1, <2>1
<1>4. ASSUME NEW fd \in Fds, game_kill_player(fd) PROVE queue' = queue
  BY <1>4 DEF game_kill_player
<1>5. ASSUME NEW x \in Objects, Eat(x) PROVE queue' = queue
  BY <1>5 DEF Eat
<1> QED
  BY <1>1, <1>2, <1>3, <1>4, <1>5 DEF QuietStep

LEMMA CommandMoves ==
  ASSUME IndInv, OnceInv, NEW x \in Objects, NEW p \in Objects, RunCommand(x, p), NEW o \in Objects
  PROVE  QueueMove(o)
<1>1. /\ queue[x] # <<>>
      /\ \/ queue' = Popped(x)
         \/ \E t \in Nat : queue' = [Popped(x) EXCEPT ![x] =
                                        <<RealIncantation(t, x, player[x].level)>> \o @]
  BY CommandQueue
<1>2. queue \in [Objects -> Seq(EventTypes)] /\ Popped(x) \in [Objects -> Seq(EventTypes)]
  BY <1>1, PoppedQueues DEF IndInv, TypeOK
<1>3. Popped(x)[x] = Tail(queue[x]) /\ \A q \in Objects : q # x => Popped(x)[q] = queue[q]
  BY <1>2 DEF Popped
<1>4. CASE queue' = Popped(x)
  BY <1>1, <1>3, <1>4 DEF QueueMove, Untouched, Runs
<1>5. ASSUME NEW t \in Nat,
             queue' = [Popped(x) EXCEPT ![x] = <<RealIncantation(t, x, player[x].level)>> \o @]
      PROVE  QueueMove(o)
  <2>1. PICK e : e = RealIncantation(t, x, player[x].level)
    OBVIOUS
  <2>2. e \in EventTypes
    <3>1. player[x].level \in 0 .. LEVEL_MAX
      BY DEF IndInv, TypeOK, PlayerTypes
    <3> QED
      BY <2>1, <3>1 DEF RealIncantation, EventTypes
  <2>6. Item(e) \in Items
    BY <2>1 DEF RealIncantation, Item, Items
  <2>3. /\ queue'[x] = <<e>> \o Tail(queue[x])
        /\ \A q \in Objects : q # x => queue'[q] = queue[q]
    BY <1>2, <1>3, <1>5, <2>1
  <2>4. CASE o = x
    BY <1>1, <2>2, <2>3, <2>4, <2>6 DEF QueueMove, Continues
  <2>5. CASE o # x
    BY <2>3, <2>5 DEF QueueMove, Untouched
  <2> QED
    BY <2>4, <2>5
<1> QED
  BY <1>1, <1>4, <1>5

LEMMA StepMoves ==
  ASSUME IndInv, OnceInv, QueuesFit, [Next]_vars, NEW o \in Objects
  PROVE  QueueMove(o)
<1>1. ASSUME NEW fd \in Fds, NEW team \in Teams, NEW place \in StartPlaces,
             game_register_player(fd, team, place)
      PROVE  QueueMove(o)
  BY <1>1 DEF game_register_player, QueueMove, Untouched
<1>2. ASSUME NEW x \in Objects, game_player_die(x) PROVE QueueMove(o)
  <2>1. queue' = [queue EXCEPT ![x] = <<>>] /\ queue \in [Objects -> Seq(EventTypes)]
    BY <1>2 DEF game_player_die, IndInv, TypeOK
  <2>2. queue'[o] = <<>> \/ queue'[o] = queue[o]
    BY <2>1
  <2> QED
    BY <2>2 DEF QueueMove, Untouched
<1> QED
  BY <1>1, <1>2, StepKinds, QuietMoves, CommandMoves

(***************************************************************************)
(* Clients that log in once: the game uses the buffer of each client as    *)
(* the bounded deque that time_api.c implements.  The commands leave it in *)
(* the order of their acceptance, never more than MAX_EVENTS wait, only    *)
(* the second half of an incantation goes ahead, and nothing but death     *)
(* drops what was accepted.                                                *)
(***************************************************************************)
THEOREM DequesCorrect ==
  ASSUME ~Relogin
  PROVE  Spec => RefinesDeques
<1>1. Init => QueuesFit /\ \A o \in Objects : Deque(o)!Init
  <2> SUFFICES ASSUME Init, NEW o \in Objects
               PROVE  Len(queue[o]) <= MAX_EVENTS /\ Deque(o)!Init
    BY DEF QueuesFit
  <2>1. queue[o] = <<>>
    BY DEF Init
  <2>2. PendingItems(o) = <<>>
    BY <2>1 DEF PendingItems
  <2> QED
    BY <2>1, <2>2, Numbers DEF Deque!Init
<1>2. IndInv /\ OnceInv /\ QueuesFit /\ [Next]_vars => QueuesFit'
  <2> SUFFICES ASSUME IndInv, OnceInv, QueuesFit, [Next]_vars, NEW o \in Objects
               PROVE  Len(queue'[o]) <= MAX_EVENTS
    BY DEF QueuesFit
  <2>1. QueueMove(o)
    BY StepMoves
  <2> QED
    BY <2>1, MoveFits DEF QueuesFit
<1>3. IndInv /\ OnceInv /\ QueuesFit /\ [Next]_vars
         => [\A o \in Objects : [Deque(o)!Next]_(PendingItems(o))]_vars
  <2> SUFFICES ASSUME IndInv, OnceInv, QueuesFit, [Next]_vars, NEW o \in Objects
               PROVE  [Deque(o)!Next]_(PendingItems(o))
    OBVIOUS
  <2>1. QueueMove(o)
    BY StepMoves
  <2> QED
    BY <2>1, MoveIsDequeStep
<1> QED
  BY <1>1, <1>2, <1>3, OnceInvHolds, PTL DEF Spec, RefinesDeques

=============================================================================
