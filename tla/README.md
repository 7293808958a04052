# Zappy in TLA+

This project specifies the Zappy server (C, `src/server`) and its client (Java,
`src/client`). The modules are translated from the code; TLC checks them on
small instances, and TLAPS proves all their safety properties for every size.

## The system

| Part | Code | State | Operations |
|---|---|---|---|
| Time API, event buffers | `time_api.c`, `game_structs.h` | the clock in time units; per client a ring of `MAX_EVENTS` events (time, callback, data, argument string) with `head`, `tail`, `count` | update the clock, schedule at the end, schedule in front, process one due event |
| Players on tiles | `game.c` 329-365, 804-850 | `tile.players`, `next_on_tile`, `prev_on_tile`, `pos` | add, remove, move, the loop of `m_command_expulse` |
| Game | `game.c` | slots of `m_server.clients`, players, teams, the map with its items, `m_ctx` | register, queue a command, kill, the twelve commands, the second half of an incantation, eat, die, respawn resources, `game_play` |
| Geometry | `game.c` 447-596, 852-902 | none | the tile in front, the tiles that `voir` lists, the direction of a broadcast |
| Connections | `server.c`, `ssl_al.c`, `ssl_al_workers.c`, `ssl_table.c` | `m_read_fds`, the table of SSL objects, two rings between the main thread and the handshake worker, `m_clients` (the list of removals) | accept, handshake, take over, select, read a message, remove, shut down |
| Websocket frames | `ssl_al.c` 152-297 | what TLS has received and not given out; how far a frame was read | read header, length, mask, payload; answer a ping; give up |
| Messages | `server.c` 229-429 | none | parse JSON, log in, pass commands on |
| Client | `CommandManager.java`, `Player.java`, `AI.java`, `World.java`, `Position.java`, `WebSocketClient.java` | queue of commands, count of pending responses, own position and direction, own map | send, handle each response, decide on the next commands |
| Process | `main.c`, `config_file.c`, `log.c` | the configuration, what is allocated and open | read the file, start each part, run, clean up |
| Rest | `parse_arg.c`, `ft_malloc.c`, observers, `Main.java` | | |

How they interact. `main_loop` is one thread: update the clock, `server_select`,
update the clock, `game_play`. `server_select` first takes finished handshakes
over from the worker thread, then reads one message from each descriptor that is
ready, in ascending order; a message registers a player or puts a command into
the event buffer of its client; an error removes the client, which only marks
its player as killed. `game_play` visits the slots in order: a player past its
time eats or dies, else one due event is executed. A player that dies asks
`server.c` to remove its descriptor, which happens at the end of a later
`server_select`. The worker thread shares nothing with this but the two rings
and, through the numbers, all descriptors of the process. A client sends up to
ten commands and counts the answers; the server answers in order what its queue
accepted, and drops the rest without a word.

What is hard here: the buffer is changed from within the callback it is running;
the time of an event is read from a slot that is not in use; an incantation
consumes its stones in one step and raises its players in another, with
everything else in between; lists are walked while they are changed; players,
clients and connections all refer to each other by descriptor, a number that is
reused; two threads close descriptors; select and TLS disagree about what is
left to read; the client counts messages as answers that answer nothing.
`PROJECT.json` lists these as hazards,
each with the properties that would catch it.

## Modules

| Module | Models | Notes |
|---|---|---|
| `EventBuffer` | the ring and the functions of `time_api.c` on it, as pure operators | processing is split at the callback: `Pop` before, `ReleaseArg` after |
| `TimeApi` | one buffer with the clock and the heap of argument strings | callbacks reduced to what they do to the buffer; `promised` is a history field |
| `CommandDeque` | what a buffer promises: a bounded deque | refined by `TimeApi`, and by each command queue of `Game` |
| `TileSeq` | the players of a tile as a sequence | shared by the next two |
| `TileList` | the pointers, and the expulse loop step by step | shows that the pointers implement `TileSeq` |
| `Compass` | the geometry | pure; the angle of `atan2` is decided exactly by integers |
| `Game` | the server of `game.c` under `main_loop` | extends `TileSeq` and `Compass`; a command queue is the deque that `TimeApi` implements |
| `Connections` | descriptors, TLS handshakes, select and removal | the game is reduced to the slots of its players, each with the descriptor of its login; `shared` is a history variable |
| `FtList` | the circular lists of `ft_list.c` as sequences | used by `Game` and `Connections` for `m_clients` |
| `WebSocket` | `ws_read` between the client's TLS records and `m_handle_client_event` | one client; bytes are pairs of a frame and an index |
| `ClientSession` | the Java client in its conversation with the server | extends `Compass`; the server is its player's place, level and queue |
| `Process` | `main` from its start to its end | the main loop is one step; `Connections` and `Game` are that loop |
| `ListProofs` | nothing: lemmas about the lists of `TileSeq` and `FtList`, sequences of sequences, sums, and the induction that these rest on | used by the next five |
| `TileListProofs`, `GameProofs`, `ConnectionsProofs`, `ClientSessionProofs`, `WebSocketProofs` | theorems about the module that they extend | |
| `TimeApiProofs`, `ProcessProofs` | theorems about the module that they extend | the first also has the lemmas about `EventBuffer` |
| `MC*` | instances for TLC | constants only |

Names of actions and operators are those of the functions they model; `map` in
`PROJECT.json` gives the lines. Definitions whose comment starts with "Mutant"
are wrong on purpose: they show that each property can fail, and nothing uses
them.

How `Game` uses the two detailed modules. `TimeApi` shows that a buffer is a
bounded deque, and that the free slots, from which the time of an appended event
is computed, hold times of the past (`RingInv`). `Game` therefore keeps
sequences and lets the base of an appended event's time be any time from 0 to
now. `TileList` shows what the loop of `m_command_expulse` does
(`ExpulseResult`): the first other player of the tile is moved, and if another
player stands on the destination the loop never ends. `Game` uses that result
and has a variable `stuck` for the second case.

`stuck` also stands for the use of freed memory: a client that logs in twice has
two players with one descriptor, the second half of the second player's
incantation is put into the first player's queue, and may be executed after the
second player was freed. The model stops there; `OneIncantationAtATime` says
that it cannot happen to clients that log in once.

## Runs

| Run | Shows | Instance |
|---|---|---|
| `time_api` | `RingInv`, `NeverLate`, `ArgOwnership`, `RealIncantationReady`, `RefinesDeque`, `EventuallyExecuted` | 3 slots, 2 strings, delays 0 and 1, clock 0..2 |
| `tile_list` | `EachOnItsTile`, `PointersAreLists`, `ExpulseResult`, `ExpulseEnds` | 4 players, 3 tiles: two on the destination, or three on the tile of the emitter |
| `game_world` | `TilesConsistent`, `RegistryConsistent`, `KilledAreGone`, `NoEarlyDeath`, `ItemsConserved` | 3 slots, 2 descriptors, double logins, 2x2 map with stones and food, respawn every unit, clock 0..1; one client takes, lays down and expels, the other incants; expulse may hang |
| `game_ritual` | `OneIncantationAtATime`, `IncantingStandsStill`, `LevelUpTogether`, `RefinesDeques`, `IncantationEnds` | 2 players, the stones of two elevations, 2x2 map, queues of 2; both incant, one walks, the other turns and expels; only the second half of an incantation has a delay |
| `connections` | `SslOwnership`, `PlayersAreWatched`, `NoDescriptorForgotten`, `GoneIsClosed` | 3 connections, 3 descriptors, 2 slots, double logins, shutdown at any time |
| `client` | `MapsAgree`, `Arrives`, `NothingDropped`, `HearsWhereItSees`, `SoundTurns`, `GoesOnLooking` | 3x3 map, queues and limit of 3, items on the tile underfoot and at the right end of the view, one disturbance, one elevation rule; the connection may be lost at any time |
| `websocket` | `InStep`, `Served`, `GoneIsRemoved` | conversations of two or three frames of every kind, a buffer of 2 bytes, 2 records in the socket |
| `process` | `ConfigInEffect`, `Released` | every file of up to three lines with four keys (`LOG_FILE_PATH` is one, "#" for lines without a setting another) and two values |

`TypeOK` of a module is checked in one of these runs (`WebSocket` and `Process`
have none: every step of theirs is visible in their properties).

Why the bounds are enough. Three slots are the fewest for which a pending event,
the popped slot and a free slot are different, and the buffer is filled, wrapped
and reset within them. Three players are the fewest with which expulse hangs
(one who expels, one beside it, one on the next tile); the other rules of `Game`
are about the player that acts and one other, and the first elevation that the
server performs needs two. With the stones of two elevations both players can be in an
incantation at once, and the end of one finds its player raised by the other:
that is the case for which `m_command_real_incantation` compares levels, and
without the comparison `LevelUpTogether` fails in this run. Two values of the clock
separate "due" from "not yet due": the commands of these runs have no delay, but the
second half of an incantation has. Delays of commands are `TimeApi`'s subject (0 and
1 in its run, any in the proofs of both modules). Three connections are needed for
a descriptor to be given away twice, which is the shortest way to the failures
of `Connections`, and two slots let one client log in twice. The plan of the client for the end of its view has four
commands, one more than queue and limit together allow at once, so that both
are reached; on a 3x3 map every tile is its own neighbour in two ways and
`SoundTurns` quantifies over all tiles. `HearsWhereItSees` speaks of the level
that fits the map. A frame and a half, with a record boundary at every byte, is
what it takes to get out of step; a third frame shows that it is recovered from.
Three lines are enough for a key twice with another one between.

Four runs are expected to find a violation of what a comment or a message says:

- `time_api_delay`: `time_api.c:106` says that the time of an event is "current
  game time + delay". With other events pending it is the old time of the free
  slot plus the delay. The event is never late (`NeverLate`), but commands that
  are queued together do not take the sum of their delays, and a command may run
  at once.
- `connections_up`: a handshake that fails on a descriptor that has been given
  to another connection closes it while select watches it, and the main loop
  ends, although `server.c:537` does not "want to close the server at all".
- `connections_removed`: `ft_list_get_first` (`ft_list.h:46`, "returns first
  node") goes backwards round the circle and stops at the second node. When two
  players die in one round, the connection of the first is not removed: it stays
  watched until its client closes it, and its node leaks. A list of one is
  treated correctly.
- `client_waits`: the client counts each message of type "response" as an
  answer. A broadcast that reaches it between two plans takes the count below
  what is still to come, or to -1; then no answer finds it at 0 and the client
  waits (`Player.java:105`, "waiting responses") for something that nobody will
  send. `GoesOnLooking` shows that this takes such a message: undisturbed, the
  client goes on.

Observations without a run:

- A client that logs in twice on one connection has two players
  (`game_register_player` does not look). When the connection ends,
  `game_kill_player` (`game.c:1459`) marks the one in the first slot; the other
  lives on, on a closed descriptor that nobody watches, until it starves or
  until the removal that follows the first one's death marks it. With three slots
  and three connections that removal can be the one that
  `connections_removed` shows to be lost, and then a new connection that gets the
  number is served with the old player. `PlayersAreWatched` excepts these
  players, and `KilledAreGone` speaks of the marked ones.
- The string of `LOG_FILE_PATH` (`config_file.c:97` or `296`) is freed only when a
  later line replaces it: `parse_free_config` frees the structure and `log_close`
  leaves the path alone. `Released` allows one string to remain, and no more.
- `m_team_remove_player_from_team` (`game.c:412`) clears
  `team.players[current_players]` before it decrements: when the team is full
  that is one past the end of the array, which nothing reads.
- `time_api.c:169` says that `time_api_process_client_events` executes "all
  client events in the buffer that are due"; it executes at most one.
- `level_reqs` is indexed with the level as it is (`game.c:950`), levels begin
  at 1, and so the row that `game.c:133` marks "1-2" is never used. `Requisites`
  models that; the stones of the runs are those of the second row.
- `getMovesToTile` leads elsewhere from index 6 on. The client's own level stays
  1, so it asks for 0 to 3 only, which `Arrives` covers.
- A ping, which `ssl_al.c:216` means to have "handled", gets its pong and the
  client is then removed: the caller takes the result 1 for a message of one
  byte. So is a client that sends an empty text frame.
- A message that shares its TLS record with an earlier one waits until more
  arrives: select does not see what SSL keeps. `Served` excludes it.
- A payload of exactly 4096 bytes is terminated one past the buffer
  (`server.c:391`).
- `Connections` has behaviours in which a client that connects and stays is
  never greeted: the removal of the former client of its descriptor is still
  pending and closes the new connection in the middle of its handshake.
- At shutdown the listening socket is closed twice, as a watched descriptor and
  by `stop_server`, harmlessly as long as no handshake is accepted in between;
  the log stays open after a failed start; the handler knows SIGTERM but is
  installed for SIGINT only.
- `decideNextMovesViewBased` fails (there is no rule 8) when the client has gone
  through all rules; `GoesOnLooking` ends there.

## Fairness

`main_loop` never waits: select has a timeout of zero, and the loop ends only
with the process. Hence weak fairness of the steps of the main loop
(`SelectReturns \/ game_play` in `Game`, `main_loop` and the clean-up in
`Connections`, which are one thread and have one fairness condition there,
`ServerStep` in `WebSocket`, processing in `TimeApi`). The clock is read in every round and real time goes
on, so time passes again and again; in `Game` its step is enabled only at two
points of each round, which takes strong fairness. The worker thread of
`Connections`, which runs until the process ends, is fair on the assumption that a handshake ends: a client that
stays silent in it stops the worker, and all later clients, in the code as well.
The Java client handles what arrives on a thread of the websocket container; in
`ClientSession` it is enough that server and client together go on (`Server \/ Client`). What clients do to the server otherwise, and
what other players do, is never fair; nobody has to press Control-C. In
`TileList` the expulse loop is fair because the thread that runs it does nothing
else.

## Proofs

`TimeApiProofs` begins with lemmas about the ring: the arithmetic of slots
modulo `MAX_EVENTS` and what `Schedule`, `ScheduleFront`, `Pop` and the release
of an argument do to the pending slots. It proves for every `MAX_EVENTS > 1`,
every set of strings and of delays and every bound on the clock:

- `TypeCorrect`, `RingCorrect`, `NeverLateCorrect`, `ArgOwnershipCorrect`,
  `RealIncantationCorrect`: the invariants that the run `time_api` checks;
- `DequeRefinement`: `Spec` implements `CommandDeque`, the abstraction that
  `Game` rests on.

The invariant is `IndInv`, the conjunction of the five. The parts need each
other: `NeverLate` follows for an appended event only because its base time, a
free slot's, is not in the future (`FreeSlotsArePast`), and that is kept by
`Pop` because the popped event was due. `ArgOwnership` speaks of all slots and
not of the pending ones, because `game_player_die` frees them all and because
the slot that is released after a callback is no longer pending; the test
`prev_head == buffer->head` is right only because an insertion in front moves
the head, which with one slot it would not: hence the assumption
`MAX_EVENTS > 1` (it is 10). `RealIncantationReady` holds because nothing gets
ahead of an event at the head but the continuation of the event being executed.
The refinement maps the buffer to the sequence of its pending events from the
head on; each action has a step that shows which step of the deque it is.

`ProcessProofs` proves `ConfigInEffectCorrect` and `ReleasedCorrect` for every
configuration file. `ConfigInv` says what the configuration is in each stage of
the start: while the file is read, what the lines read so far and the defaults
determine (`InForce`). Level and path of the log have a clause of their own,
because `log_init` takes them before the other parts take theirs. `StringsInv`
follows the string of `LOG_FILE_PATH`: while the file is read only the one in
force is allocated, since the former is freed when a line sets a new one, and
afterwards it stays, whatever becomes of the configuration. `HeldInv` says for
each stage of the end what may still be allocated or open. So `Released` is true
of everything but the log after a failure and that one string.

`TileListProofs` proves for any players and any map that the pointers are the
lists of `TileSeq` (`TypesCorrect`, `PointersCorrect`, `PlacesCorrect`) and that
the loop of `m_command_expulse` has the result that `Game` takes from there
(`ExpulseCorrect`). `Represents` relates the pointers to one sequence per tile
and is kept by each insertion and removal; the lemmas say which pointers these
write. `LoopInv` has the three forms of the loop, which walks a list that it
changes: nobody was moved yet, the first other player was moved and its next
pointer ends the loop, or that pointer now leads through the destination's list,
and the loop goes round.

`GameProofs` proves for any number of slots, teams and descriptors, any map, any
delays and whatever clients send:

- `TypesCorrect`, `TilesCorrect`, `RegistryCorrect`, `KilledCorrect`,
  `DeathsCorrect`, `ElevationCorrect` and `ItemsCorrect`;
- for clients that log in once (`~Relogin`), `IncantationsCorrect`,
  `StandsStillCorrect` and `DequesCorrect`. Clients that log in twice violate
  the first and the last, as said above (the second half of an incantation goes
  to the front of a queue that is not being run): the hypothesis is needed.

`IndInv` adds to types and consistency that a command in a queue is its own
player's (`QueueInv`) and what a player that `game_kill_player` has marked is
(`LifeInv`): it has no food, a
time of death in the past, and its turn in this round is still to come (`IsDue`),
since `server_select` is over before `game_play` looks at the slots in order.
That is why no marked player is left when select looks again. `KilledCorrect` says
no more than that: of two players of one connection only the first is marked. Each of the twelve
commands has a lemma that says which part of the state it touches. For
`OneIncantationAtATime` two facts are carried along (`OnceInv`): no two players
have one descriptor, and the second half of an incantation is the next event of
its own player's queue.

`ItemsCorrect` needs no more than `IndInv`: each step raises no count
(`NoneGains`), lowers none (`NoneLoses`), or puts into an inventory what it takes
off a tile or the other way round (`TransferKept`), and the lemmas `SumGrows` and
`SumChanges` of `ListProofs` carry that over to the totals. For `DequesCorrect`
each kind of step has a lemma that says what it does to a queue (`QueueMove`), and
one lemma shows that each such move is a step of `CommandDeque`. Together with
`DequeRefinement` it closes the gap between the ring of `time_api.c` and the
queues of `Game`, which leave out the slots and keep the times.

`ConnectionsProofs` proves for any number of clients, any descriptors and any
length of the rings: `TypesCorrect`, `OwnershipCorrect` and `WatchedCorrect`.
`FdInv` says that a connection has one descriptor, `OwnInv` that an SSL object is
in one place, whichever thread moves it, and `LoopInv` that what select reported
is still watched, and that a descriptor has one player unless two logins share it.
Hence `game_kill_player`, which marks the first player of a descriptor, marks all
of them where none is shared (`KilledUnlessShared`), and `WatchedCorrect` excepts
only players whose descriptor is shared. `ForgottenCorrect` has the hypothesis
`FewClients`, that there are fewer clients than the rings have places: the rings
have no test for being full, and one task more empties them, with the
descriptors in them forgotten.

`ClientSessionProofs` proves:

- for every map and every level, `HearsCorrect` and `SoundCorrect`, from lemmas
  about remainders, the shorter way round the map (`ShorterWay`) and the octants;
  `HearsWhereItSees` needs a map that the view does not go round, and
  `SoundTurns` needs nothing, also where both ways round are equally long;
- `DroppedCorrect` and `ArrivesCorrect` under `LimitFits`: the client's limit is
  not above the length of the server's queue (both are 10 in the code).
  `SessionInv` is about the login. `FlowInv` says of an undisturbed client that
  its count is the number of its messages under way in either direction, that it
  holds commands back only at its limit, that the answer to a look is the last
  thing under way, and that what is left of its plan leads from the player's
  place to the goal (`OnPlan`). `PlanLeads` shows this of each plan of
  `getMovesToTile`, `OnPlanTail` that each executed move keeps it;
- `MapCorrect` for every square map and every start. `MapInv` says that there is
  a track of places that the messages under way lead the client along: it begins
  where the client is, each view was seen from the place where it will find the
  client, and it ends where the player is. `PlacedMoves` and `SameOffset` show
  that a step on the server's map is the turned step on the client's, which is
  false on maps that are not square.

`WebSocketProofs` proves `InStepCorrect` for any frames and any cut into records.
What is still to be read (the rest of the record, the socket, and what the client
has not sent) is at any time the end of the bytes of all frames, from the place
in a frame that `ws_read` is at (`GoesOn`). `FramesAreLaidOut` says where each
frame lies in these bytes, so that what `SSL_read` returns is what comes next in
that frame (`ReadsInFrame`). `IndInv` names the place for each stage of `ws_read`
(`At`) and says that the messages before it are the ones that were handled.

Induction. The library's induction theorems take an operator and cannot be used.
`ListProofs` has induction over sets instead: `AllNumbers`, from the lowest number
that is missing (`MinIsLowest`), and `AllSubsets` for the subsets of a finite set,
from a smallest one that is missing. From them follow what a sequence of sequences
is when flattened (`FlattenPlaces`), and that the fold behind `SumFunction` exists
and adds up (`SumSteps`).

Assumptions. Each theorem is about all values of the constants that satisfy the
named assumptions of the modules, which say that sizes are positive numbers, that
what stands for "none" is none of the values it stands beside, and that there is
a tile to stand on; TLC evaluates them in the runs. `Relogin`, `FewClients` and
`LimitFits` are hypotheses of single theorems and stated there. The prover reads
`@` in an update of two keys as the value before both; where the model updates
two keys of one function, the proofs establish that the keys differ
(`AheadIsElsewhere` in `GameProofs`).

Only model-checked:

- liveness and everything that needs fairness (`EventuallyExecuted`,
  `ExpulseEnds`, `IncantationEnds`, `GoneIsClosed`, `GoesOnLooking`, `Served`,
  `GoneIsRemoved`): out of the prover's reach;
- that `Game` may take `TileSeq` for the pointers of `TileList` is stated between
  the modules, by the use of the same operators, and not as one theorem.

## Not modelled

- Contents of messages and responses, apart from what `voir` and `broadcast`
  compute and what the client makes of them; JSON; the wording of the log.
- The upgrade handshake (SHA-1, base64) and `ws_send`: they format and write.
- Observers: `game_register_observer` puts the first map into a buffer that
  nothing processes, so that an observer has no step after its registration.
- Failures of allocation, and an `SSL_read` of the upgrade request that blocks
  the main thread: what is modelled assumes that it returns.
- The rings of the worker have no test for being full. `Enqueue` models that,
  but no run opens as many connections as it takes.
- `parse_args` returns before it looks at an argument, and `check_params` has no
  caller; the functions of `ft_list.c` without a caller.
- The threads of `Main.java`: one session per client, which share nothing.
- Commands that the Java client never sends, on its side; the server's side of
  them is in `Game`.

## Plan

1. Done: `EventBuffer`, `TimeApi`, `CommandDeque` with proofs; `TileSeq`,
   `TileList`; `Game`; `Compass`, `ClientSession`; `FtList`, `Connections` with
   shutdown; `WebSocket`; `Process`.
2. Done: the proofs of all safety properties that the passing runs check, and of
   both refinements of `CommandDeque`.
3. `Game` with the higher levels, three players in the ritual, and two teams;
   `ClientSession` with two clients on one map.
