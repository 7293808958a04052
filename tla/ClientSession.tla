--------------------------- MODULE ClientSession ---------------------------
(***************************************************************************)
(* A Java client (CommandManager, Player, AI, Position, World) in its      *)
(* conversation with the server, which is reduced to this client's player: *)
(* its place, its level and its command queue.                             *)
(*                                                                         *)
(* Messages go both ways in order.  The client treats one message at a     *)
(* time, from onMessage to the end of its handlers; an exception in a      *)
(* handler ends that.  It counts the answers that it waits for, keeps its  *)
(* own account of where it is, looks up what it sees in a map of its own   *)
(* and decides on the next commands.  It is never told where it is: it     *)
(* calls its first tile (0,0) and its first direction north.               *)
(*                                                                         *)
(* Other players disturb it with messages that answer no command: what     *)
(* they broadcast, their expulse, and their incantation on its tile.       *)
(***************************************************************************)
EXTENDS Compass, Sequences

CONSTANTS
    Starts,      \* the places <<position, direction>> where a player may start
    Targets,     \* the indices of the tiles that hold what the client is after
    MAX_EVENTS,  \* the length of the server's command queue
    MaxPending,  \* the answers that a client waits for at most, 10
    Rules,       \* the number of elevation rules, 7
    MaxNotes     \* bound on the disturbances

\* The client's own level, which is always 1, and what it sees of its map.
Level == 1

Seen == 0 .. (Level + 1) * (Level + 1) - 1

ASSUME ClientSessionAssumption ==
    /\ Starts \subseteq Tiles \X Directions
    /\ Targets \subseteq Seen
    /\ MAX_EVENTS \in Nat \ {0} /\ MaxPending \in Nat \ {0, 1}
    /\ Rules \in Nat \ {0}
    /\ MaxNotes \in Nat

Moves == {"avance", "droite", "gauche"}

Requests == Moves \cup {"voir", "inventaire", "prend"}

\* The messages that answer no command: the cmd fields of the server's responses.
Notes == {"message", "deplacement", "incantation", "-"}

VARIABLES
    up, down,    \* the messages on their way to the server and to the client
    joined,      \* the server's player: no, alive, dead or refused
    pos, dir,    \* its place
    level,       \* its level
    requests,    \* its command queue
    open,        \* the client's session is open
    pending,     \* pendingResponses
    commands,    \* commandQueue
    cpos, cdir,  \* Position
    checked,     \* AI.inventaireChecked
    debugLevel,  \* AI.debugLevel
    start,       \* history: where the player started
    goal,        \* history: the tile that the plan under way leads to, if undisturbed
    notes,       \* history: the number of disturbances
    kicked,      \* history: whether the player was expelled
    dropped      \* history: whether a full queue dropped a command of an undisturbed client

place == <<pos, dir, level>>
player == <<joined, place, requests>>
mind == <<cpos, cdir, checked, debugLevel>>
history == <<start, goal, notes, kicked, dropped>>
vars == <<up, down, player, open, pending, commands, mind, history>>

\* A message to the client; a view says where it was seen from and how far it reaches.
Message(cmd) == [cmd |-> cmd, pos |-> <<0, 0>>, dir |-> 0, level |-> 0]

View == [cmd |-> "voir", pos |-> pos, dir |-> dir, level |-> level]

\* The connection is established and cb_on_accept_success has greeted the client.
Init ==
    /\ up = <<>>
    /\ down = <<Message("bienvenue")>>
    /\ joined = "no"
    /\ start \in Starts
    /\ pos = start[1] /\ dir = start[2] /\ level = 1
    /\ requests = <<>>
    /\ open = TRUE
    /\ pending = 0
    /\ commands = <<>>
    /\ cpos = <<0, 0>> /\ cdir = 0
    /\ checked = FALSE
    /\ debugLevel = 1
    /\ goal = <<0, 0>>
    /\ notes = 0
    /\ kicked = FALSE
    /\ dropped = FALSE

----------------------------------------------------------------------------
(* The server *)

\* m_handle_login_client: a full team is refused with two errors.
ServerLogsIn(welcome) ==
    /\ up # <<>> /\ Head(up) = "login"
    /\ up' = Tail(up)
    /\ joined' = IF welcome THEN "alive" ELSE "refused"
    /\ down' = down \o IF welcome THEN <<Message("welcome")>>
                       ELSE <<Message("error"), Message("error")>>
    /\ UNCHANGED <<place, requests, open, pending, commands, mind, history>>

\* game_execute_command: a full queue drops the command, a dead player's is ignored.
ServerQueues ==
    /\ up # <<>> /\ Head(up) # "login"
    /\ up' = Tail(up)
    /\ requests' = IF joined = "alive" /\ Len(requests) < MAX_EVENTS
                   THEN Append(requests, Head(up)) ELSE requests
    /\ dropped' = (dropped \/ (notes = 0 /\ joined = "alive" /\ Len(requests) = MAX_EVENTS))
    /\ UNCHANGED <<down, joined, place, open, pending, commands, mind, start, goal, notes, kicked>>

Turned(d, cmd) ==
    CASE cmd = "droite" -> (d + 1) % 4
      [] cmd = "gauche" -> (d + 3) % 4
      [] OTHER -> d

\* game_play executes the next command and answers it.
ServerExecutes ==
    /\ requests # <<>>
    /\ LET cmd == Head(requests)
       IN  /\ pos' = IF cmd = "avance" THEN Facing(pos, dir) ELSE pos
           /\ dir' = Turned(dir, cmd)
           /\ down' = Append(down, IF cmd = "voir" THEN View ELSE Message(cmd))
           /\ goal' = IF cmd = "prend" THEN <<0, 0>> ELSE goal
    /\ requests' = Tail(requests)
    /\ UNCHANGED <<up, joined, level, open, pending, commands, mind, start, notes, kicked, dropped>>

\* game_player_die; REMOVE_CLIENT may follow.
ServerLetsDie ==
    /\ joined = "alive"
    /\ joined' = "dead"
    /\ requests' = <<>>
    /\ down' = Append(down, Message("-"))
    /\ UNCHANGED <<up, place, open, pending, commands, mind, history>>

\* Another player does something that this one's client is told of.
Disturbed(note) ==
    /\ joined = "alive"
    /\ notes < MaxNotes
    /\ notes' = notes + 1
    /\ down' = Append(down, Message(note))
    /\ goal' = <<0, 0>>
    /\ UNCHANGED <<up, joined, dir, requests, open, pending, commands, mind, start, dropped>>

Hears == Disturbed("message") /\ UNCHANGED <<pos, level, kicked>>

IsExpelled ==
    /\ Disturbed("deplacement")
    /\ \E d \in Directions : pos' = Facing(pos, d)
    /\ kicked' = TRUE
    /\ UNCHANGED level

IsRaised ==
    /\ Disturbed("incantation")
    /\ level < 7
    /\ level' = level + 1
    /\ UNCHANGED <<pos, kicked>>

Server ==
    \/ \E welcome \in BOOLEAN : ServerLogsIn(welcome)
    \/ ServerQueues
    \/ ServerExecutes

OtherPlayers == ServerLetsDie \/ Hears \/ IsExpelled \/ IsRaised

----------------------------------------------------------------------------
(* What the client decides *)

Repeat(move, n) == [i \in 1 .. n |-> move]

(***************************************************************************)
(* getMovesToTile: its loop stops at the first level whose row is at least *)
(* as long as tileIdx, with leftIdx the square of that level.              *)
(***************************************************************************)
LoopLevel(tileIdx) ==
    CHOOSE l \in 1 .. tileIdx : /\ 2 * l + 1 >= tileIdx
                                /\ \A k \in 1 .. l - 1 : 2 * k + 1 < tileIdx

\* Mutant: left and right are mixed up.
MovesMirrored(tileIdx) ==
    IF tileIdx <= 0 THEN <<>>
    ELSE LET row == LoopLevel(tileIdx)
             offset == tileIdx - (row * row + row)
         IN  Repeat("avance", row)
             \o (IF offset < 0 THEN <<"droite">> ELSE IF offset > 0 THEN <<"gauche">> ELSE <<>>)
             \o Repeat("avance", Abs(offset))

getMovesToTile(tileIdx) ==
    IF tileIdx <= 0 THEN <<>>
    ELSE LET row == LoopLevel(tileIdx)
             offset == tileIdx - (row * row + row)
         IN  Repeat("avance", row)
             \o (IF offset < 0 THEN <<"gauche">> ELSE IF offset > 0 THEN <<"droite">> ELSE <<>>)
             \o Repeat("avance", Abs(offset))

addMovesToTile(tileIdx) == Append(getMovesToTile(tileIdx), "prend")

addRandomMove(move) == <<move, "voir">>

(***************************************************************************)
(* decideNextMovesViewBased, for a view of three kinds: it shows what the  *)
(* client is after (food, or a stone while it is not ready to elevate), it *)
(* does not show it, or the client has all stones and looks through its    *)
(* inventory, once more after every new level.  The client forgets that it *)
(* has looked when it lacks a stone; it does not when it lacks food.       *)
(***************************************************************************)
Decides(view, plan) ==
    \/ /\ \E tileIdx \in Targets : /\ plan = addMovesToTile(tileIdx)
                                   /\ goal' = IF notes = 0 THEN VisionTile(view.pos, view.dir, tileIdx) ELSE goal
       /\ checked' \in {checked, FALSE}
       /\ UNCHANGED debugLevel
    \/ /\ \E move \in Moves : plan = addRandomMove(move)
       /\ checked' \in {checked, FALSE}
       /\ UNCHANGED <<debugLevel, goal>>
    \/ /\ plan = <<"inventaire">>
       /\ debugLevel' = IF checked THEN debugLevel + 1 ELSE debugLevel
       /\ UNCHANGED <<checked, goal>>

\* The commands among which the client may choose when it has seen something.
Plans == {addMovesToTile(t) : t \in Targets} \cup {addRandomMove(m) : m \in Moves}
         \cup {<<"inventaire">>}

----------------------------------------------------------------------------
(* How the client handles a message *)

\* The client takes the next message.
Receives(cmds) ==
    /\ open
    /\ down # <<>> /\ Head(down).cmd \in cmds
    /\ down' = Tail(down)
    /\ UNCHANGED <<player, start, notes, kicked, dropped>>

\* Mutant: one command more is sent.
SendsOneMore(queue, waiting) ==
    LET room == IF waiting <= MaxPending THEN MaxPending + 1 - waiting ELSE 0
        n == IF room < Len(queue) THEN room ELSE Len(queue)
    IN  /\ up' = up \o SubSeq(queue, 1, n)
        /\ pending' = waiting + n
        /\ commands' = SubSeq(queue, n + 1, Len(queue))

(***************************************************************************)
(* The loop at the end of handleResponse sends commands of the queue until *)
(* it waits for ten answers.                                               *)
(***************************************************************************)
Sends(queue, waiting) ==
    LET room == IF waiting < MaxPending THEN MaxPending - waiting ELSE 0
        n == IF room < Len(queue) THEN room ELSE Len(queue)
    IN  /\ up' = up \o SubSeq(queue, 1, n)
        /\ pending' = waiting + n
        /\ commands' = SubSeq(queue, n + 1, Len(queue))

handleBienvenueMsg ==
    /\ Receives({"bienvenue"})
    /\ up' = Append(up, "login")
    /\ UNCHANGED <<open, pending, commands, mind, goal>>

\* setGameState and the first look around.
handleWelcomeMsg ==
    /\ Receives({"welcome"})
    /\ cpos' = <<0, 0>> /\ cdir' = 0
    /\ checked' = FALSE /\ debugLevel' = 1
    /\ up' = Append(up, "voir")
    /\ pending' = pending + 1
    /\ UNCHANGED <<open, commands, goal>>

handleErrorMsg ==
    /\ Receives({"error"})
    /\ open' = FALSE
    /\ UNCHANGED <<up, pending, commands, mind, goal>>

(***************************************************************************)
(* Player.handleResponse for the commands other than voir: when no other   *)
(* answer is waited for, a random move is next.                            *)
(***************************************************************************)
Answered ==
    /\ \E next \in IF pending - 1 = 0 THEN {addRandomMove(m) : m \in Moves} ELSE {<<>>} :
          Sends(commands \o next, pending - 1)
    /\ UNCHANGED <<open, debugLevel, goal>>

\* Position.moveForward wraps with % after adding the size of the map.
handleAvanceResponse ==
    /\ Receives({"avance"})
    /\ cpos' = Facing(cpos, cdir)
    /\ UNCHANGED <<cdir, checked>>
    /\ Answered

\* Mutant: the client does not notice that it turned left.
TurnUnnoticed ==
    /\ Receives({"droite", "gauche"})
    /\ cdir' = IF Head(down).cmd = "gauche" THEN cdir ELSE Turned(cdir, "droite")
    /\ UNCHANGED <<cpos, checked>>
    /\ Answered

handleTurnResponse ==
    /\ Receives({"droite", "gauche"})
    /\ cdir' = Turned(cdir, Head(down).cmd)
    /\ UNCHANGED <<cpos, checked>>
    /\ Answered

\* What the client knows of the things it carries is left out.
handlePrendResponse ==
    /\ Receives({"prend"})
    /\ UNCHANGED <<cpos, cdir, checked>>
    /\ Answered

handleInventaireResponse ==
    /\ Receives({"inventaire"})
    /\ checked' = TRUE
    /\ UNCHANGED <<cpos, cdir>>
    /\ Answered

\* Somebody raised the player: the answer to an incantation that it did not ask for.
LevelUpResponse ==
    /\ Receives({"incantation"})
    /\ UNCHANGED <<cpos, cdir, checked>>
    /\ Answered

(***************************************************************************)
(* A handler throws after the answer was counted: updateVisibleTiles, for  *)
(* a view of more tiles than a player of level 1 has; setTargets, when     *)
(* there is no rule for debugLevel; CommandType.fromName, for messages and *)
(* displacements.                                                          *)
(***************************************************************************)
ViewFails == Head(down).cmd = "voir" /\ (Head(down).level > Level \/ debugLevel > Rules)

HandlerThrows ==
    /\ \/ Receives({"message", "deplacement"})
       \/ Receives({"voir"}) /\ ViewFails
    /\ pending' = pending - 1
    /\ UNCHANGED <<up, open, commands, mind, goal>>

\* Mutant: the answer is counted after the decision.
VoirCountedLate ==
    /\ Receives({"voir"})
    /\ ~ViewFails
    /\ \E plan \in Plans : Decides(Head(down), plan) /\ Sends(commands \o plan, pending)
    /\ UNCHANGED <<open, cpos, cdir>>

handleVoirResponse ==
    /\ Receives({"voir"})
    /\ ~ViewFails
    /\ \E plan \in Plans : Decides(Head(down), plan) /\ Sends(commands \o plan, pending - 1)
    /\ UNCHANGED <<open, cpos, cdir>>

\* The session is closed; what the loop takes from the queue after that is not sent.
handleDieResponse ==
    /\ Receives({"-"})
    /\ open' = FALSE
    /\ \E n \in 0 .. Len(commands) :
          /\ n = Len(commands) \/ pending - 1 + n >= MaxPending
          /\ \A k \in 0 .. n - 1 : pending - 1 + k < MaxPending
          /\ pending' = pending - 1 + n
          /\ commands' = SubSeq(commands, n + 1, Len(commands))
    /\ UNCHANGED <<up, mind, goal>>

(***************************************************************************)
(* The connection is lost, at either end or because the server removed its *)
(* descriptor: the server's player is killed, and nothing arrives any more.*)
(***************************************************************************)
onClose ==
    /\ open
    /\ open' = FALSE
    /\ up' = <<>> /\ down' = <<>> /\ requests' = <<>>
    /\ joined' = IF joined = "alive" THEN "dead" ELSE joined
    /\ UNCHANGED <<place, pending, commands, mind, history>>

Client ==
    \/ handleBienvenueMsg \/ handleWelcomeMsg \/ handleErrorMsg
    \/ handleAvanceResponse \/ handleTurnResponse \/ handlePrendResponse
    \/ handleInventaireResponse \/ LevelUpResponse
    \/ handleVoirResponse \/ HandlerThrows
    \/ handleDieResponse

Next == Server \/ OtherPlayers \/ Client \/ onClose

Spec == Init /\ [][Next]_vars

\* The server plays and the client handles what arrives; nobody has to disturb or to die.
FairSpec == Spec /\ WF_vars(Server \/ Client)

----------------------------------------------------------------------------
(* The client's map *)

\* World.rotate: an offset of a player that looks north, for another direction.
rotate(dx, dy, d) ==
    CASE d = 0 -> <<dx, dy>>
      [] d = 1 -> <<-dy, dx>>
      [] d = 2 -> <<-dx, -dy>>
      [] d = 3 -> <<dy, -dx>>

\* updateVisibleTiles: the tile of the client's map that gets the entry idx of a view.
ClientTile(idx) ==
    LET r == rotate(Side(idx), -Row(idx), cdir) IN At(cpos, r[1], r[2])

\* The tile of the client's map that stands for tile t of the server's map.
Image(t) ==
    LET r == rotate(t[1] - start[1][1], t[2] - start[1][2], (4 - start[2]) % 4)
    IN  At(<<0, 0>>, r[1], r[2])

----------------------------------------------------------------------------
(* Properties *)

\* Every variable has its type.
TypeOK ==
    /\ up \in Seq(Requests \cup {"login"})
    /\ down \in Seq([cmd : Requests \cup Notes \cup {"bienvenue", "welcome", "error"},
                     pos : Tiles, dir : Directions, level : 0 .. 7])
    /\ joined \in {"no", "alive", "dead", "refused"}
    /\ pos \in Tiles /\ dir \in Directions /\ level \in 1 .. 7
    /\ requests \in Seq(Requests)
    /\ open \in BOOLEAN
    /\ pending \in Int
    /\ commands \in Seq(Requests)
    /\ cpos \in Tiles /\ cdir \in Directions
    /\ checked \in BOOLEAN
    /\ debugLevel \in 1 .. Rules + 1
    /\ start \in Starts
    /\ goal \in Tiles
    /\ notes \in 0 .. MaxNotes
    /\ kicked \in BOOLEAN /\ dropped \in BOOLEAN

(***************************************************************************)
(* On a square map the client's map is the server's, turned and shifted:   *)
(* each entry of a view is stored for the tile that the server listed,     *)
(* however many commands were under way between the look and its answer,   *)
(* as long as the player was not expelled.                                 *)
(***************************************************************************)
MapsAgree ==
    MapX = MapY /\ ~kicked /\ down # <<>> /\ Head(down).cmd = "voir" =>
        \A idx \in Seen : ClientTile(idx) = Image(VisionTile(Head(down).pos, Head(down).dir, idx))

(***************************************************************************)
(* A client that nobody disturbed takes things from the tile it saw them   *)
(* on: when its prend is executed, its moves have led there.               *)
(***************************************************************************)
Arrives ==
    notes = 0 /\ requests # <<>> /\ Head(requests) = "prend" => pos = goal

(***************************************************************************)
(* The client's limit suits the server's queue: while nobody disturbs the  *)
(* client no command of it meets a full queue and is dropped.              *)
(***************************************************************************)
NothingDropped == ~dropped

(***************************************************************************)
(* A client that is not disturbed looks around again and again, until its  *)
(* session ends, it dies or it has run out of elevation rules: it never    *)
(* waits for an answer that does not come, nor forgets to decide on        *)
(* something.                                                              *)
(***************************************************************************)
Looks == down # <<>> /\ Head(down).cmd = "voir"

GoesOnLooking ==
    open ~> (Looks \/ ~open \/ notes > 0 \/ joined = "dead" \/ debugLevel > Rules)

(***************************************************************************)
(* Hearing and seeing agree: from a player on a tile in sight, a message   *)
(* comes from ahead (1), from the left of it (2) or from the right (8),    *)
(* according to the tile's place in the view, whatever level the view is   *)
(* of, unless the map is so small that the view meets itself.              *)
(***************************************************************************)
HearsWhereItSees ==
    Looks =>
        LET v == Head(down)
        IN  2 * v.level < MapX /\ 2 * v.level < MapY =>
               \A idx \in 1 .. (v.level + 1) * (v.level + 1) - 1 :
                   compute_broadcast_direction(v.pos, v.dir, VisionTile(v.pos, v.dir, idx)) =
                       IF Within(Side(idx), Row(idx)) THEN 1 ELSE IF Side(idx) < 0 THEN 2 ELSE 8

(***************************************************************************)
(* A turn to the right moves every sound two eighths to the left, and a    *)
(* turn to the left undoes that, whatever way round the map is shorter.    *)
(***************************************************************************)
TurnedSound(k, quarter) == IF k = 0 THEN 0 ELSE ((k - 1 + 2 * quarter) % 8) + 1

SoundTurns ==
    [][dir' # dir => \A t \in Tiles :
         compute_broadcast_direction(pos, dir', t) =
             TurnedSound(compute_broadcast_direction(pos, dir, t), (dir' - dir) % 4)]_vars

(***************************************************************************)
(* Player.java:105 says of a client that decides on nothing "waiting       *)
(* responses": then the answer to one of its commands is still to come.    *)
(***************************************************************************)
Welcomed == joined = "alive" /\ \A i \in DOMAIN down : down[i].cmd # "welcome"

WaitsForSomething ==
    open /\ Welcomed /\ commands = <<>> => up # <<>> \/ requests # <<>> \/ down # <<>>

=============================================================================
