---------------------------- MODULE Connections ----------------------------
(***************************************************************************)
(* The connections of the server: server.c, ssl_al.c, ssl_al_workers.c and *)
(* ssl_table.c.  Two threads share the descriptors of the process:         *)
(*                                                                         *)
(*   - the main loop takes finished handshakes over, selects, accepts,     *)
(*     reads messages, removes clients and lets the game play;             *)
(*   - the worker does the TLS handshakes, one after the other, and closes *)
(*     the descriptor when one fails.                                      *)
(*                                                                         *)
(* A descriptor is a number that the kernel gives out again, the lowest    *)
(* free one first, as soon as it is closed: fdt says which connection it   *)
(* stands for at the moment.  An SSL object is named after the connection  *)
(* for which ssl_al_accept_client made it.  The game is reduced to the     *)
(* slots of its players, each with the descriptor of its login: one client *)
(* may log in twice and has two players then.  The listening socket is     *)
(* always there until the process ends and is left out.                    *)
(***************************************************************************)
EXTENDS FtList, FiniteSets

CONSTANTS
    Conns,      \* the connections that clients open, each once
    Fds,        \* the descriptors that the kernel gives out
    RingSize,   \* 1024, the length of the two rings of ssl_al_workers.c
    NbClients,  \* the places of all teams
    None

Slots == 0 .. NbClients - 1

Players == [fd : Fds, alive : BOOLEAN]

ASSUME ConnectionsAssumption ==
    /\ IsFiniteSet(Conns) /\ None \notin Conns
    /\ Fds \subseteq Nat /\ IsFiniteSet(Fds) /\ Cardinality(Fds) >= Cardinality(Conns)
    /\ RingSize \in Nat \ {0, 1}
    /\ NbClients \in Nat \ {0}
    /\ None \notin [fd : Fds, ssl : Conns, on : Conns \cup {None}] \cup Players

VARIABLES
    step,      \* where the main loop is
    coming,    \* the connections that were not accepted yet
    gone,      \* the connections that the client has closed
    fdt,       \* the connection of each descriptor, or None if it is closed
    secured,   \* the connections whose client has completed a TLS handshake
    peer,      \* the connection that an SSL object was connected with, or None
    freed,     \* the SSL objects that were freed
    read_fds,  \* m_read_fds, without the listening socket
    ready,     \* what select reported and was not handled yet
    table,     \* ssl_table: the SSL object of a descriptor, or None
    tasks,     \* task_fds_q
    done,      \* task_fds_dq
    worker,    \* what the worker has in hand, or None
    slots,     \* m_server.clients: the player of each slot, alive or killed, or None
    removals,  \* m_clients, the list of descriptors to be removed
    shared     \* the descriptors of players of which one logged in beside another; not in the code

tls == <<secured, peer, freed>>
handshakes == <<tasks, done, worker>>
game == <<slots, removals, shared>>
vars == <<step, coming, gone, fdt, tls, read_fds, ready, table, handshakes, game>>

Init ==
    /\ step = "lookup"
    /\ coming = Conns
    /\ gone = {}
    /\ fdt = [fd \in Fds |-> None]
    /\ secured = {}
    /\ peer = [c \in Conns |-> None]
    /\ freed = {}
    /\ read_fds = {}
    /\ ready = {}
    /\ table = [fd \in Fds |-> None]
    /\ tasks = <<>>
    /\ done = <<>>
    /\ worker = None
    /\ slots = [s \in Slots |-> None]
    /\ removals = <<>>
    /\ shared = {}

\* The rings have no test for being full: one entry too many makes them look empty.
Enqueue(ring, x) == IF Len(ring) + 1 = RingSize THEN <<>> ELSE Append(ring, x)

Task(fd, ssl) == [fd |-> fd, ssl |-> ssl]

\* The client of a connection that is open goes away.
ClientCloses(c) ==
    /\ \E fd \in Fds : fdt[fd] = c
    /\ c \notin gone
    /\ step # "ended"
    /\ gone' = gone \cup {c}
    /\ UNCHANGED <<step, coming, fdt, tls, read_fds, ready, table, handshakes, game>>

----------------------------------------------------------------------------
(* The worker *)

TakeTask ==
    /\ worker = None
    /\ tasks # <<>>
    /\ worker' = [fd |-> Head(tasks).fd, ssl |-> Head(tasks).ssl, on |-> fdt[Head(tasks).fd]]
    /\ tasks' = Tail(tasks)
    /\ UNCHANGED <<step, coming, gone, fdt, tls, read_fds, ready, table, done, game>>

(***************************************************************************)
(* SSL_accept works on whatever connection the descriptor stands for.  It  *)
(* succeeds with a client that starts its handshake; it fails when there   *)
(* is none, when the client has completed one already, and when the        *)
(* connection was exchanged under its hands.                               *)
(***************************************************************************)
AcceptSucceeds ==
    /\ worker # None
    /\ LET c == fdt[worker.fd]
       IN  /\ c # None
           /\ c \notin gone \cup secured
           /\ secured' = secured \cup {c}
           /\ peer' = [peer EXCEPT ![worker.ssl] = c]
    /\ done' = Enqueue(done, Task(worker.fd, worker.ssl))
    /\ worker' = None
    /\ UNCHANGED <<step, coming, gone, fdt, freed, read_fds, ready, table, tasks, game>>

AcceptFails ==
    /\ worker # None
    /\ LET c == fdt[worker.fd] IN c = None \/ c \in gone \cup secured \/ c # worker.on
    /\ freed' = freed \cup {worker.ssl}
    /\ fdt' = [fdt EXCEPT ![worker.fd] = None]
    /\ worker' = None
    /\ UNCHANGED <<step, coming, gone, secured, peer, read_fds, ready, table, tasks, done, game>>

handshake_worker == TakeTask \/ AcceptSucceeds \/ AcceptFails

----------------------------------------------------------------------------
(* The main loop *)

\* The table: an entry that is there is overwritten.
ssl_table_add(fd, ssl) == [table EXCEPT ![fd] = ssl]

ssl_table_remove(fds) == [fd \in Fds |-> IF fd \in fds THEN None ELSE table[fd]]

\* SSL_read works: the descriptor stands for the connection of the SSL object.
Readable(fd, ssl) ==
    /\ ssl # None
    /\ fdt[fd] # None
    /\ fdt[fd] = peer[ssl]
    /\ fdt[fd] \notin gone

\* Mutant: the descriptor of a client without a request stays open.
HandshakeDoneOpen(fd, ssl) ==
    /\ table' = ssl_table_add(fd, ssl)
    /\ read_fds' = IF Readable(fd, ssl) THEN read_fds \cup {fd} ELSE read_fds
    /\ UNCHANGED fdt

(***************************************************************************)
(* on_handshake_done: the SSL object enters the table; when the request of *)
(* the client can be read, cb_on_accept_success watches the descriptor and *)
(* sends the hello message, else the descriptor is closed.                 *)
(***************************************************************************)
on_handshake_done(fd, ssl) ==
    /\ table' = ssl_table_add(fd, ssl)
    /\ IF Readable(fd, ssl)
       THEN read_fds' = read_fds \cup {fd} /\ UNCHANGED fdt
       ELSE fdt' = [fdt EXCEPT ![fd] = None] /\ UNCHANGED read_fds

ssl_al_worker_dequeue_all ==
    /\ step = "lookup"
    /\ done # <<>>
    /\ done' = Tail(done)
    /\ on_handshake_done(Head(done).fd, Head(done).ssl)
    /\ UNCHANGED <<step, coming, gone, tls, ready, tasks, worker, game>>

\* What select reports: every connection that its client closed, and some others.
ReadySets ==
    {s \in SUBSET read_fds : \A fd \in read_fds : fdt[fd] \in gone => fd \in s}

(***************************************************************************)
(* server_select after all finished handshakes were looked up.  A          *)
(* descriptor of m_read_fds that is closed makes select fail with EBADF,   *)
(* and main_loop ends.  The listening socket is the lowest descriptor.     *)
(***************************************************************************)
server_select ==
    /\ step = "lookup"
    /\ done = <<>>
    /\ IF \E fd \in read_fds : fdt[fd] = None
       THEN step' = "failed" /\ UNCHANGED ready
       ELSE /\ ready' \in ReadySets
            /\ step' \in {"accept" : x \in coming}
                         \cup (IF ready' = {} THEN {"play"} ELSE {"handle"})
    /\ UNCHANGED <<coming, gone, fdt, tls, read_fds, table, handshakes, game>>

ssl_al_accept_client(c) ==
    /\ step = "accept"
    /\ c \in coming
    /\ LET fd == Min({x \in Fds : fdt[x] = None})
       IN  /\ fdt' = [fdt EXCEPT ![fd] = c]
           /\ tasks' = Enqueue(tasks, Task(fd, c))
    /\ coming' = coming \ {c}
    /\ step' = "handle"
    /\ UNCHANGED <<gone, tls, read_fds, ready, table, done, worker, game>>

\* Mutant: the SSL object of the removed client stays in the table.
CloseKeepingSsl(fds) ==
    /\ freed' = freed \cup ({table[fd] : fd \in fds} \ {None})
    /\ table' = table
    /\ fdt' = [fd \in Fds |-> IF fd \in fds THEN None ELSE fdt[fd]]

\* Mutant: the SSL object is freed and the descriptor left open.
CloseSslOnly(fds) ==
    /\ freed' = freed \cup ({table[fd] : fd \in fds} \ {None})
    /\ table' = ssl_table_remove(fds)
    /\ fdt' = fdt

\* ws_close, for all descriptors in fds.
ws_close(fds) ==
    /\ freed' = freed \cup ({table[fd] : fd \in fds} \ {None})
    /\ table' = ssl_table_remove(fds)
    /\ fdt' = [fd \in Fds |-> IF fd \in fds THEN None ELSE fdt[fd]]

\* The slots of the players with one of these descriptors.
SlotsOf(fds) == {s \in Slots : slots[s] # None /\ slots[s].fd \in fds}

\* m_game_get_client_from_fd: the first slot with the descriptor.
FirstSlot(fd) == Min(SlotsOf({fd}))

\* Mutant: the player of the removed client is not told.
KillNobody(fds) == slots' = slots

\* Of several players with a descriptor only the first is found and told to die.
game_kill_player(fds) ==
    slots' = [s \in Slots |-> IF s \in SlotsOf(fds) /\ s = FirstSlot(slots[s].fd)
                              THEN [slots[s] EXCEPT !.alive = FALSE] ELSE slots[s]]

REMOVE_CLIENT(fds) ==
    /\ read_fds' = read_fds \ fds
    /\ game_kill_player(fds)
    /\ ws_close(fds)

\* The next descriptor of the loop of server_select.
Handle(fd) ==
    /\ step = "handle"
    /\ ready # {} /\ fd = Min(ready)
    /\ ready' = ready \ {fd}
    /\ UNCHANGED <<step, coming, gone, secured, peer, handshakes, removals>>

(***************************************************************************)
(* game_register_player: the first free slot, which a team with a place    *)
(* left has; that the descriptor may have a player already is not looked   *)
(* at.                                                                     *)
(***************************************************************************)
game_register_player(fd) ==
    LET free == {s \in Slots : slots[s] = None}
    IN  /\ free # {}
        /\ slots' = [slots EXCEPT ![Min(free)] = [fd |-> fd, alive |-> TRUE]]
        /\ shared' = IF SlotsOf({fd}) # {} THEN shared \cup {fd} ELSE shared

\* A message that is obeyed; a login makes a player for the client.
m_handle_client_message(fd, login) ==
    /\ Handle(fd)
    /\ Readable(fd, table[fd])
    /\ IF login THEN game_register_player(fd) ELSE UNCHANGED <<slots, shared>>
    /\ UNCHANGED <<fdt, freed, read_fds, table>>

\* A message that is refused, or nothing that can be read.
DropClient(fd) ==
    /\ Handle(fd)
    /\ REMOVE_CLIENT({fd})
    /\ UNCHANGED shared

\* The end of server_select: m_clients is walked, its nodes are freed, and it is NULL.
m_remove_clients ==
    /\ step = "handle"
    /\ ready = {}
    /\ REMOVE_CLIENT(ToSet(Walked(removals)))
    /\ removals' = <<>>
    /\ step' = "play"
    /\ UNCHANGED <<coming, gone, secured, peer, ready, handshakes, shared>>

\* Mutant: the list gets the numbers of the slots instead of the descriptors.
ListSlots(order) == removals' = removals \o order

\* The descriptors of the players in these slots are added to m_clients (ft_list_add_last).
server_remove_client(order) ==
    removals' = removals \o [i \in DOMAIN order |-> slots[order[i]].fd]

(***************************************************************************)
(* game_play: killed players die, and others may; server_remove_client     *)
(* adds their descriptors to m_clients, in the order of their slots.       *)
(***************************************************************************)
game_play ==
    /\ step = "play"
    /\ \E dead \in SUBSET SlotsOf(Fds) :
          /\ \A s \in SlotsOf(Fds) : slots[s].alive \/ s \in dead
          /\ slots' = [s \in Slots |-> IF s \in dead THEN None ELSE slots[s]]
          /\ \E order \in SetToSeqs(dead) :
                /\ \A i, j \in DOMAIN order : i < j => order[i] < order[j]
                /\ server_remove_client(order)
          /\ shared' = shared \cap {slots[s].fd : s \in SlotsOf(Fds) \ dead}
    /\ step' = "lookup"
    /\ UNCHANGED <<coming, gone, fdt, tls, read_fds, ready, table, handshakes>>

----------------------------------------------------------------------------
(* The end of the process, while the worker goes on *)

\* The test of main_loop, once SIGINT has set m_die.
SignalSeen ==
    /\ step = "lookup"
    /\ step' = "died"
    /\ UNCHANGED <<coming, gone, fdt, tls, read_fds, ready, table, handshakes, game>>

\* The players are freed; from here on game_kill_player finds nobody.
game_clean ==
    /\ step \in {"died", "failed"}
    /\ step' = "cleanup"
    /\ slots' = [s \in Slots |-> None]
    /\ shared' = {}
    /\ UNCHANGED <<coming, gone, fdt, tls, read_fds, ready, table, handshakes, removals>>

\* cleanup_server removes the descriptors of m_read_fds in ascending order.
CleanupClient ==
    /\ step = "cleanup"
    /\ read_fds # {}
    /\ REMOVE_CLIENT({Min(read_fds)})
    /\ UNCHANGED <<step, coming, gone, secured, peer, ready, handshakes, removals, shared>>

\* ssl_table_free frees the entries of the table; then main returns.
ssl_table_free ==
    /\ step = "cleanup"
    /\ read_fds = {}
    /\ table' = [fd \in Fds |-> None]
    /\ step' = "ended"
    /\ UNCHANGED <<coming, gone, fdt, tls, read_fds, ready, handshakes, game>>

cleanup_server == game_clean \/ CleanupClient \/ ssl_table_free

Ended == step = "ended" /\ UNCHANGED vars

main_loop ==
    \/ ssl_al_worker_dequeue_all
    \/ server_select
    \/ \E c \in Conns : ssl_al_accept_client(c)
    \/ \E fd \in Fds : \/ \E login \in BOOLEAN : m_handle_client_message(fd, login)
                        \/ DropClient(fd)
    \/ m_remove_clients
    \/ game_play

Next ==
    \/ \E c \in Conns : ClientCloses(c)
    \/ step # "ended" /\ handshake_worker
    \/ main_loop
    \/ SignalSeen
    \/ cleanup_server
    \/ Ended

Spec == Init /\ [][Next]_vars

(***************************************************************************)
(* Both threads run: what they wait for, a handshake and the request after *)
(* it, comes or the client goes away.  Nobody has to press Control-C.      *)
(***************************************************************************)
FairSpec ==
    Spec /\ WF_vars(main_loop \/ cleanup_server) /\ WF_vars(step # "ended" /\ handshake_worker)

----------------------------------------------------------------------------
(* Properties *)

\* Every variable has its type.
TypeOK ==
    /\ step \in {"lookup", "accept", "handle", "play", "died", "failed", "cleanup", "ended"}
    /\ coming \subseteq Conns
    /\ gone \subseteq Conns
    /\ fdt \in [Fds -> Conns \cup {None}]
    /\ secured \subseteq Conns
    /\ peer \in [Conns -> Conns \cup {None}]
    /\ freed \subseteq Conns
    /\ read_fds \subseteq Fds
    /\ ready \subseteq Fds
    /\ table \in [Fds -> Conns \cup {None}]
    /\ tasks \in Seq([fd : Fds, ssl : Conns])
    /\ done \in Seq([fd : Fds, ssl : Conns])
    /\ worker \in [fd : Fds, ssl : Conns, on : Conns \cup {None}] \cup {None}
    /\ slots \in [Slots -> Players \cup {None}]
    /\ removals \in Seq(Fds)
    /\ shared \subseteq Fds

\* The SSL objects that a ring holds.
InRing(ring) == {ring[i].ssl : i \in DOMAIN ring}

(***************************************************************************)
(* Whatever the two threads and stale removals do to the descriptors, no   *)
(* SSL object that was freed can be reached, and each has one owner: a     *)
(* ring, the worker's hands or one entry of the table.                     *)
(***************************************************************************)
SslOwnership ==
    /\ InRing(tasks) \cap InRing(done) = {}
    /\ \A fd \in Fds : table[fd] # None =>
          /\ table[fd] \notin freed \cup InRing(tasks) \cup InRing(done)
          /\ worker # None => worker.ssl # table[fd]
          /\ \A g \in Fds \ {fd} : table[g] # table[fd]
    /\ (InRing(tasks) \cup InRing(done)) \cap freed = {}
    /\ worker # None => worker.ssl \notin freed \cup InRing(tasks) \cup InRing(done)

(***************************************************************************)
(* A player that lives has a connection that the server watches: when its  *)
(* descriptor leaves m_read_fds the player is killed in the same step, and *)
(* a killed player is gone before the next select.  The only ones that are *)
(* excepted live on a descriptor that was shared by two logins, of which   *)
(* game_kill_player finds one.                                             *)
(***************************************************************************)
PlayersAreWatched ==
    \A s \in SlotsOf(Fds) :
        /\ slots[s].alive => slots[s].fd \in read_fds \cup shared
        /\ ~slots[s].alive => step \in {"handle", "play"}

\* The handshakes that have begun and were not taken over by the main loop.
InHandshake(fd) ==
    \/ fd \in {tasks[i].fd : i \in DOMAIN tasks} \cup {done[i].fd : i \in DOMAIN done}
    \/ worker # None /\ worker.fd = fd

(***************************************************************************)
(* No descriptor is forgotten: one that is open is watched, or a handshake *)
(* on it is under way, whatever happened to its number before; nothing of  *)
(* the clients that were served is open when the process ends.             *)
(***************************************************************************)
NoDescriptorForgotten == \A fd \in Fds : fdt[fd] # None => fd \in read_fds \/ InHandshake(fd)

(***************************************************************************)
(* The descriptor of a client that went away is closed eventually, at      *)
(* whatever point of its handshake it did so.                              *)
(***************************************************************************)
HasFd(c) == \E fd \in Fds : fdt[fd] = c

GoneIsClosed == \A c \in Conns : (c \in gone) ~> (~HasFd(c) \/ step = "ended")

(***************************************************************************)
(* server.c:537 says of a client that is removed "We remove the client but *)
(* we don't want to close the server at all.."                             *)
(***************************************************************************)
ServerStaysUp == step # "failed"

(***************************************************************************)
(* ft_list.h says of FT_LIST_GET_FIRST, from which m_remove_clients walks  *)
(* the list, "returns first node": every descriptor on the list is         *)
(* removed when the list is dropped.                                       *)
(***************************************************************************)
ListedAreRemoved ==
    [][removals # <<>> /\ removals' = <<>> => \A fd \in ToSet(removals) : fd \notin read_fds']_vars

=============================================================================
