------------------------- MODULE ConnectionsProofs -------------------------
(***************************************************************************)
(* The safety properties of Connections, for any number of clients, any    *)
(* descriptors and any length of the worker's rings.                       *)
(***************************************************************************)
EXTENDS Connections, ListProofs

Tasks == [fd : Fds, ssl : Conns]

Working == [fd : Fds, ssl : Conns, on : Conns \cup {None}]

\* No SSL object is in a ring twice.
Distinct(ring) == \A i, j \in DOMAIN ring : ring[i].ssl = ring[j].ssl => i = j

\* The kernel: a connection that was accepted has one descriptor at most, the others none.
FdInv ==
    \A fd \in Fds : fdt[fd] # None =>
        /\ fdt[fd] \notin coming
        /\ \A g \in Fds \ {fd} : fdt[g] # fdt[fd]

\* Each SSL object is in one place, and there is none for what was not accepted yet.
OwnInv ==
    /\ SslOwnership
    /\ Distinct(tasks) /\ Distinct(done)
    /\ coming \cap (InRing(tasks) \cup InRing(done) \cup freed) = {}
    /\ worker # None => worker.ssl \notin coming
    /\ \A fd \in Fds : table[fd] \notin coming

\* What select reported is still watched, and only looked at before game_play; two players
\* have different descriptors, or one that is marked as shared.
LoopInv ==
    /\ PlayersAreWatched
    /\ ready \subseteq read_fds
    /\ step \notin {"accept", "handle"} => ready = {}
    /\ step \in {"cleanup", "ended"} => \A s \in Slots : slots[s] = None
    /\ \A s, t \in Slots : slots[s] # None /\ slots[t] # None /\ slots[s].fd = slots[t].fd =>
          s = t \/ slots[s].fd \in shared

IndInv == TypeOK /\ FdInv /\ OwnInv /\ LoopInv

----------------------------------------------------------------------------
(* The rings *)

\* A new object enters a ring at its end, or the ring is emptied.
LEMMA EnqueueRing ==
  ASSUME NEW ring \in Seq(Tasks), NEW t \in Tasks, Distinct(ring), t.ssl \notin InRing(ring)
  PROVE  /\ Enqueue(ring, t) \in Seq(Tasks)
         /\ Distinct(Enqueue(ring, t))
         /\ InRing(Enqueue(ring, t)) \subseteq InRing(ring) \cup {t.ssl}
<1>1. CASE Enqueue(ring, t) = <<>>
  BY <1>1 DEF Distinct, InRing
<1>2. CASE Enqueue(ring, t) = Append(ring, t)
  <2> DEFINE new == Append(ring, t)
  <2>1. /\ new \in Seq(Tasks) /\ DOMAIN new = 1 .. Len(ring) + 1
        /\ \A i \in DOMAIN new : new[i] = IF i = Len(ring) + 1 THEN t ELSE ring[i]
        /\ DOMAIN ring = 1 .. Len(ring) /\ Len(ring) \in Nat
    OBVIOUS
  <2> HIDE DEF new
  <2>2. Distinct(new) /\ InRing(new) \subseteq InRing(ring) \cup {t.ssl}
    BY <2>1 DEF Distinct, InRing
  <2> QED
    BY <1>2, <2>1, <2>2 DEF new
<1> QED
  BY <1>1, <1>2 DEF Enqueue

\* The first object leaves a ring.
LEMMA TailRing ==
  ASSUME NEW ring \in Seq(Tasks), Distinct(ring), ring # <<>>
  PROVE  /\ Head(ring) \in Tasks
         /\ Head(ring).ssl \in InRing(ring)
         /\ Tail(ring) \in Seq(Tasks)
         /\ Distinct(Tail(ring))
         /\ InRing(Tail(ring)) = InRing(ring) \ {Head(ring).ssl}
<1> DEFINE rest == Tail(ring)
<1>1. /\ DOMAIN ring = 1 .. Len(ring) /\ Len(ring) \in Nat \ {0}
      /\ Head(ring) = ring[1] /\ ring[1] \in Tasks
      /\ rest \in Seq(Tasks) /\ DOMAIN rest = 1 .. Len(ring) - 1
      /\ \A i \in DOMAIN rest : rest[i] = ring[i + 1]
  OBVIOUS
<1> HIDE DEF rest
<1>2. Distinct(rest)
  BY <1>1 DEF Distinct
<1>3. InRing(rest) = InRing(ring) \ {ring[1].ssl}
  <2>1. \A i \in DOMAIN rest : i + 1 \in DOMAIN ring /\ i + 1 # 1
    BY <1>1
  <2>2. InRing(rest) \subseteq InRing(ring) \ {ring[1].ssl}
    BY <1>1, <2>1 DEF InRing, Distinct
  <2>3. \A i \in DOMAIN ring : i # 1 => i - 1 \in DOMAIN rest /\ rest[i - 1] = ring[i]
    BY <1>1
  <2>4. InRing(ring) \ {ring[1].ssl} \subseteq InRing(rest)
    BY <2>3 DEF InRing
  <2> QED
    BY <2>2, <2>4
<1>4. ring[1].ssl \in InRing(ring)
  BY <1>1 DEF InRing
<1> QED
  BY <1>1, <1>2, <1>3, <1>4 DEF rest

----------------------------------------------------------------------------
(* The initial state and the steps *)

LEMMA InitIndInv == Init => IndInv
BY ConnectionsAssumption DEF Init, IndInv, TypeOK, FdInv, OwnInv, LoopInv, SslOwnership, InRing,
   Distinct, PlayersAreWatched, SlotsOf

\* While a client waits to be accepted, the kernel has a descriptor for it.
LEMMA FreeDescriptor ==
  ASSUME IndInv, coming # {}
  PROVE  LET fd == Min({x \in Fds : fdt[x] = None}) IN fd \in Fds /\ fdt[fd] = None
<1> DEFINE free == {x \in Fds : fdt[x] = None}
<1> DEFINE used == Fds \ free
<1>1. free # {}
  <2> SUFFICES ASSUME free = {} PROVE FALSE
    OBVIOUS
  <2>1. PICK c \in Conns : c \in coming
    BY DEF IndInv, TypeOK
  <2>2. fdt \in [Fds -> Conns \ {c}] /\ \A fd, g \in Fds : fdt[fd] = fdt[g] => fd = g
    BY <2>1 DEF IndInv, TypeOK, FdInv
  <2>3. fdt \in Injection(Fds, Conns \ {c})
    BY <2>2, Fun_IsInj
  <2>4. /\ IsFiniteSet(Conns \ {c}) /\ Cardinality(Conns \ {c}) = Cardinality(Conns) - 1
        /\ Cardinality(Conns) \in Nat /\ Cardinality(Fds) \in Nat
    BY ConnectionsAssumption, FS_RemoveElement, FS_CardinalityType
  <2>5. Cardinality(Fds) <= Cardinality(Conns \ {c})
    BY <2>3, <2>4, FS_Injection
  <2> QED
    BY <2>4, <2>5, ConnectionsAssumption
<1> QED
  BY <1>1, MinIsLowest, ConnectionsAssumption

\* Nothing that the invariant speaks of changes when a client goes away.
LEMMA ClientClosesStep == ASSUME IndInv, NEW c \in Conns, ClientCloses(c) PROVE IndInv'
<1> USE DEF ClientCloses, tls, handshakes, game, IndInv
<1>1. TypeOK'
  BY DEF TypeOK
<1>2. FdInv'
  BY DEF FdInv
<1>3. OwnInv'
  BY DEF OwnInv, SslOwnership
<1>4. LoopInv'
  BY DEF LoopInv, PlayersAreWatched, SlotsOf
<1> QED
  BY <1>1, <1>2, <1>3, <1>4

LEMMA TakeTaskStep == ASSUME IndInv, TakeTask PROVE IndInv'
<1> USE DEF TakeTask, tls, handshakes, game
<1>1. /\ Head(tasks) \in Tasks /\ Head(tasks).ssl \in InRing(tasks)
      /\ Tail(tasks) \in Seq(Tasks) /\ Distinct(Tail(tasks))
      /\ InRing(Tail(tasks)) = InRing(tasks) \ {Head(tasks).ssl}
  BY TailRing DEF IndInv, TypeOK, OwnInv, Tasks
<1>2. worker' \in Working /\ worker'.ssl = Head(tasks).ssl
  BY <1>1 DEF IndInv, TypeOK, Tasks, Working
<1>3. TypeOK'
  BY <1>1, <1>2 DEF IndInv, TypeOK, Tasks, Working
<1>4. FdInv'
  BY DEF IndInv, FdInv
<1>5. OwnInv'
  BY <1>1, <1>2 DEF IndInv, OwnInv, SslOwnership
<1>6. LoopInv'
  BY DEF IndInv, LoopInv, PlayersAreWatched, SlotsOf
<1> QED
  BY <1>3, <1>4, <1>5, <1>6 DEF IndInv

LEMMA AcceptSucceedsStep == ASSUME IndInv, AcceptSucceeds PROVE IndInv'
<1> USE DEF AcceptSucceeds, tls, handshakes, game
<1> DEFINE t == Task(worker.fd, worker.ssl)
<1>1. /\ worker \in Working /\ t \in Tasks /\ t.ssl = worker.ssl
      /\ worker.fd \in Fds /\ worker.ssl \in Conns /\ worker # None
  BY DEF IndInv, TypeOK, Working, Tasks, Task
<1>2. /\ done' \in Seq(Tasks) /\ Distinct(done')
      /\ InRing(done') \subseteq InRing(done) \cup {worker.ssl}
  <2>1. done \in Seq(Tasks) /\ Distinct(done) /\ t.ssl \notin InRing(done)
    BY <1>1 DEF IndInv, TypeOK, OwnInv, SslOwnership, Tasks
  <2> HIDE DEF t
  <2>2. done' = Enqueue(done, t)
    BY DEF t
  <2> QED
    BY <1>1, <2>1, <2>2, EnqueueRing
<1> HIDE DEF t
<1>3. TypeOK'
  <2>1. fdt[worker.fd] \in Conns
    BY <1>1 DEF IndInv, TypeOK
  <2>2. secured' \subseteq Conns /\ peer' \in [Conns -> Conns \cup {None}]
    BY <2>1 DEF IndInv, TypeOK
  <2> QED
    BY <1>2, <2>2 DEF IndInv, TypeOK, Tasks
<1>4. FdInv'
  BY DEF IndInv, FdInv
<1>5. OwnInv'
  BY <1>1, <1>2 DEF IndInv, OwnInv, SslOwnership
<1>6. LoopInv'
  BY DEF IndInv, LoopInv, PlayersAreWatched, SlotsOf
<1> QED
  BY <1>3, <1>4, <1>5, <1>6 DEF IndInv

LEMMA AcceptFailsStep == ASSUME IndInv, AcceptFails PROVE IndInv'
<1> USE DEF AcceptFails, tls, handshakes, game
<1>1. worker \in Working /\ worker.fd \in Fds /\ worker.ssl \in Conns /\ worker # None
  BY DEF IndInv, TypeOK, Working
<1>2. TypeOK'
  BY <1>1 DEF IndInv, TypeOK
<1>3. FdInv'
  BY DEF IndInv, TypeOK, FdInv
<1>4. OwnInv'
  BY <1>1 DEF IndInv, OwnInv, SslOwnership
<1>5. LoopInv'
  BY DEF IndInv, LoopInv, PlayersAreWatched, SlotsOf
<1> QED
  BY <1>2, <1>3, <1>4, <1>5 DEF IndInv

\* A finished handshake: its object moves from the ring to the table.
LEMMA DequeueStep == ASSUME IndInv, ssl_al_worker_dequeue_all PROVE IndInv'
<1> USE DEF ssl_al_worker_dequeue_all, on_handshake_done, ssl_table_add, tls, handshakes, game
<1> DEFINE fd == Head(done).fd
<1> DEFINE ssl == Head(done).ssl
<1>1. /\ Head(done) \in Tasks /\ ssl \in InRing(done)
      /\ done' \in Seq(Tasks) /\ Distinct(done')
      /\ InRing(done') = InRing(done) \ {ssl}
  BY TailRing DEF IndInv, TypeOK, OwnInv, Tasks
<1>2. fd \in Fds /\ ssl \in Conns
  BY <1>1 DEF Tasks
<1> HIDE DEF fd, ssl
<1>3. /\ table' = [table EXCEPT ![fd] = ssl]
      /\ \/ read_fds' = read_fds \cup {fd} /\ UNCHANGED fdt
         \/ fdt' = [fdt EXCEPT ![fd] = None] /\ UNCHANGED read_fds
      /\ UNCHANGED <<step, coming, ready, freed, tasks, worker, slots, shared>>
  BY DEF fd, ssl
<1>4. TypeOK'
  BY <1>1, <1>2, <1>3 DEF IndInv, TypeOK, Tasks
<1>5. FdInv'
  BY <1>2, <1>3 DEF IndInv, TypeOK, FdInv
<1>6. OwnInv'
  <2>1. \A g \in Fds : table'[g] = IF g = fd THEN ssl ELSE table[g]
    BY <1>2, <1>3 DEF IndInv, TypeOK
  <2>2. SslOwnership'
    BY <1>1, <1>2, <1>3, <2>1 DEF IndInv, OwnInv, SslOwnership
  <2> QED
    BY <1>1, <1>2, <1>3, <2>1, <2>2 DEF IndInv, OwnInv
<1>7. LoopInv'
  BY <1>3 DEF IndInv, LoopInv, PlayersAreWatched, SlotsOf
<1> QED
  BY <1>4, <1>5, <1>6, <1>7 DEF IndInv

LEMMA SelectStep == ASSUME IndInv, server_select PROVE IndInv'
<1> USE DEF server_select, tls, handshakes, game
<1>1. /\ step = "lookup" /\ step' \in {"failed", "accept", "play", "handle"}
      /\ ready' \subseteq read_fds
      /\ step' \in {"failed", "play"} => ready' = {}
  BY DEF ReadySets, IndInv, LoopInv
<1>2. TypeOK'
  BY <1>1 DEF IndInv, TypeOK
<1>3. FdInv'
  BY DEF IndInv, FdInv
<1>4. OwnInv'
  BY DEF IndInv, OwnInv, SslOwnership
<1>5. LoopInv'
  BY <1>1 DEF IndInv, LoopInv, PlayersAreWatched, SlotsOf
<1> QED
  BY <1>2, <1>3, <1>4, <1>5 DEF IndInv

\* A client is accepted: it gets a free descriptor and a new SSL object.
LEMMA AcceptClientStep ==
  ASSUME IndInv, NEW c \in Conns, ssl_al_accept_client(c)
  PROVE  IndInv'
<1> DEFINE fd == Min({x \in Fds : fdt[x] = None})
<1>1. fd \in Fds /\ fdt[fd] = None
  BY FreeDescriptor DEF ssl_al_accept_client
<1>2. /\ c \in coming /\ coming' = coming \ {c}
      /\ step = "accept" /\ step' = "handle"
      /\ fdt' = [fdt EXCEPT ![fd] = c]
      /\ tasks' = Enqueue(tasks, Task(fd, c))
      /\ UNCHANGED <<gone, tls, read_fds, ready, table, done, worker, game>>
  BY DEF ssl_al_accept_client
<1> HIDE DEF fd
<1> USE DEF tls, game
<1>3. /\ tasks' \in Seq(Tasks) /\ Distinct(tasks')
      /\ InRing(tasks') \subseteq InRing(tasks) \cup {c}
  <2>1. Task(fd, c) \in Tasks /\ Task(fd, c).ssl = c
    BY <1>1 DEF Task, Tasks
  <2>2. tasks \in Seq(Tasks) /\ Distinct(tasks) /\ c \notin InRing(tasks)
    BY <1>2 DEF IndInv, TypeOK, OwnInv, Tasks
  <2> QED
    BY <1>2, <2>1, <2>2, EnqueueRing
<1>4. TypeOK'
  BY <1>1, <1>2, <1>3 DEF IndInv, TypeOK, Tasks
<1>5. FdInv'
  BY <1>1, <1>2 DEF IndInv, TypeOK, FdInv
<1>6. OwnInv'
  BY <1>2, <1>3 DEF IndInv, OwnInv, SslOwnership
<1>7. LoopInv'
  BY <1>2 DEF IndInv, LoopInv, PlayersAreWatched, SlotsOf
<1> QED
  BY <1>4, <1>5, <1>6, <1>7 DEF IndInv

\* A step that empties and fills no slot and leaves each player its descriptor.
PlayersKept ==
    \A s \in Slots :
        /\ slots'[s] = None <=> slots[s] = None
        /\ slots[s] # None => slots'[s].fd = slots[s].fd

\* game_kill_player marks players and does no more to them.
LEMMA PlayersStay ==
  ASSUME IndInv, NEW fds, game_kill_player(fds)
  PROVE  /\ slots' \in [Slots -> Players \cup {None}]
         /\ PlayersKept
         /\ \A s \in Slots : slots'[s] # None /\ slots'[s].alive => slots[s].alive
<1>1. \A s \in Slots : slots'[s] \in {slots[s], [slots[s] EXCEPT !.alive = FALSE]}
                     /\ (slots[s] = None => slots'[s] = None)
  BY DEF game_kill_player, SlotsOf
<1>2. slots \in [Slots -> Players \cup {None}]
  BY DEF IndInv, TypeOK
<1>3. ASSUME NEW s \in Slots, slots[s] # None
      PROVE  /\ slots'[s] \in Players /\ slots'[s] # None
             /\ slots'[s].fd = slots[s].fd
             /\ slots'[s].alive => slots[s].alive
  <2>1. slots[s] \in Players
    BY <1>2, <1>3
  <2>2. None \notin Players
    BY ConnectionsAssumption
  <2>3. /\ [slots[s] EXCEPT !.alive = FALSE] \in Players
        /\ [slots[s] EXCEPT !.alive = FALSE].fd = slots[s].fd
        /\ ~[slots[s] EXCEPT !.alive = FALSE].alive
    BY <2>1 DEF Players
  <2>4. CASE slots'[s] = slots[s]
    BY <2>1, <2>2, <2>4
  <2>5. CASE slots'[s] = [slots[s] EXCEPT !.alive = FALSE]
    BY <2>2, <2>3, <2>5
  <2> QED
    BY <1>1, <2>4, <2>5
<1>4. slots' \in [Slots -> Players \cup {None}]
  BY <1>1, <1>3 DEF game_kill_player
<1> QED
  BY <1>1, <1>3, <1>4 DEF PlayersKept

\* game_kill_player reaches every player that does not share its descriptor.
LEMMA KilledUnlessShared ==
  ASSUME IndInv, NEW fds \in SUBSET Fds, game_kill_player(fds),
         NEW s \in Slots, slots[s] # None, slots[s].fd \in fds, slots[s].fd \notin shared
  PROVE  ~slots'[s].alive
<1>1. SlotsOf({slots[s].fd}) = {s}
  BY DEF SlotsOf, IndInv, LoopInv
<1>2. FirstSlot(slots[s].fd) = s
  <2>1. {s} \in SUBSET Nat /\ {s} # {}
    BY DEF Slots
  <2> QED
    BY <1>1, <2>1, MinIsLowest DEF FirstSlot
<1>3. slots'[s] = [slots[s] EXCEPT !.alive = FALSE]
  BY <1>2 DEF game_kill_player, SlotsOf
<1>4. slots[s] \in Players
  BY DEF IndInv, TypeOK
<1> QED
  BY <1>3, <1>4 DEF Players

(***************************************************************************)
(* The removal of any set of clients: their objects leave the table and    *)
(* are freed, their descriptors are closed and no longer watched, and no   *)
(* player that lives is left without a descriptor.                         *)
(***************************************************************************)
LEMMA RemoveClients ==
  ASSUME IndInv, NEW fds \in SUBSET Fds, REMOVE_CLIENT(fds),
         UNCHANGED <<coming, tasks, done, worker, shared>>
  PROVE  /\ fdt' \in [Fds -> Conns \cup {None}]
         /\ table' \in [Fds -> Conns \cup {None}]
         /\ freed' \subseteq Conns
         /\ slots' \in [Slots -> Players \cup {None}]
         /\ read_fds' = read_fds \ fds
         /\ FdInv' /\ OwnInv'
         /\ PlayersKept
         /\ \A s \in Slots : slots'[s] # None /\ slots'[s].alive =>
               slots'[s].fd \in read_fds' \cup shared
<1> USE DEF REMOVE_CLIENT, ws_close, ssl_table_remove
<1>1. /\ \A fd \in Fds : fdt'[fd] = IF fd \in fds THEN None ELSE fdt[fd]
      /\ \A fd \in Fds : table'[fd] = IF fd \in fds THEN None ELSE table[fd]
  OBVIOUS
<1>2. /\ fdt' \in [Fds -> Conns \cup {None}]
      /\ table' \in [Fds -> Conns \cup {None}]
  BY DEF IndInv, TypeOK
<1>3. \A ssl : ssl \in freed' <=>
          ssl \in freed \/ (ssl # None /\ \E fd \in fds : table[fd] = ssl)
  OBVIOUS
<1>4. freed' \subseteq Conns
  BY <1>3 DEF IndInv, TypeOK
<1>5. FdInv'
  BY <1>1 DEF IndInv, FdInv
<1>6. OwnInv'
  <2>1. SslOwnership'
    BY <1>1, <1>3 DEF IndInv, OwnInv, SslOwnership
  <2>2. None \notin coming
    BY ConnectionsAssumption DEF IndInv, TypeOK
  <2> QED
    BY <1>1, <1>3, <2>1, <2>2 DEF IndInv, OwnInv
<1>7. /\ slots' \in [Slots -> Players \cup {None}]
      /\ PlayersKept
      /\ \A s \in Slots : slots'[s] # None /\ slots'[s].alive => slots[s].alive
  BY PlayersStay
<1>8. ASSUME NEW s \in Slots, slots'[s] # None, slots'[s].alive
      PROVE  slots'[s].fd \in read_fds' \cup shared
  <2>1. slots[s] # None /\ slots[s].alive /\ slots'[s].fd = slots[s].fd
    BY <1>7, <1>8 DEF PlayersKept
  <2>2. slots[s].fd \in Fds /\ slots[s].fd \in read_fds \cup shared
    BY <2>1 DEF IndInv, TypeOK, LoopInv, PlayersAreWatched, SlotsOf, Players
  <2>3. CASE slots[s].fd \in fds
    BY <2>1, <2>2, <2>3, <1>8, KilledUnlessShared
  <2>4. CASE slots[s].fd \notin fds
    BY <2>1, <2>2, <2>4
  <2> QED
    BY <2>3, <2>4
<1> QED
  BY <1>1, <1>2, <1>4, <1>5, <1>6, <1>7, <1>8

\* After a removal the players that are told to die wait for game_play.
LEMMA KilledLoopInv ==
  ASSUME IndInv, TypeOK', PlayersKept, UNCHANGED shared, step' \in {"handle", "play"},
         ready' \subseteq read_fds', step' = "play" => ready' = {},
         \A s \in Slots : slots'[s] # None /\ slots'[s].alive =>
             slots'[s].fd \in read_fds' \cup shared
  PROVE  LoopInv'
<1>1. PlayersAreWatched'
  BY DEF PlayersAreWatched, SlotsOf
<1>2. ASSUME NEW s \in Slots, NEW t \in Slots, slots'[s] # None, slots'[t] # None,
             slots'[s].fd = slots'[t].fd
      PROVE  s = t \/ slots'[s].fd \in shared'
  <2>1. /\ slots[s] # None /\ slots[t] # None
        /\ slots'[s].fd = slots[s].fd /\ slots'[t].fd = slots[t].fd
    BY <1>2 DEF PlayersKept
  <2> QED
    BY <1>2, <2>1 DEF IndInv, LoopInv
<1> QED
  BY <1>1, <1>2 DEF LoopInv

\* The descriptor that the loop of server_select handles is one that select reported.
LEMMA HandleReady ==
  ASSUME IndInv, NEW fd \in Fds, Handle(fd)
  PROVE  /\ step = "handle" /\ step' = "handle"
         /\ fd \in ready /\ fd \in read_fds /\ ready' = ready \ {fd}
<1>1. fd = Min(ready) /\ ready # {} /\ ready \in SUBSET Nat
  BY ConnectionsAssumption DEF Handle, IndInv, TypeOK
<1>2. fd \in ready
  BY <1>1, MinIsLowest
<1> QED
  BY <1>2 DEF Handle, IndInv, LoopInv

\* A new player lives on a watched descriptor, which is marked if there is another one on it.
LEMMA RegisterPlayer ==
  ASSUME IndInv, NEW fd \in read_fds, game_register_player(fd), step = "handle",
         UNCHANGED <<step, read_fds>>, ready' \subseteq ready
  PROVE  /\ slots' \in [Slots -> Players \cup {None}] /\ shared' \subseteq Fds
         /\ LoopInv'
<1> DEFINE free == {s \in Slots : slots[s] = None}
<1> DEFINE new == Min(free)
<1>1. new \in free
  <2>1. free \in SUBSET Nat /\ free # {}
    BY DEF Slots, game_register_player
  <2> QED
    BY <2>1, MinIsLowest
<1>2. /\ slots' = [slots EXCEPT ![new] = [fd |-> fd, alive |-> TRUE]]
      /\ shared' = IF SlotsOf({fd}) # {} THEN shared \cup {fd} ELSE shared
  BY DEF game_register_player
<1>3. new \in Slots /\ slots[new] = None
  BY <1>1
<1> HIDE DEF new
<1>4. /\ slots \in [Slots -> Players \cup {None}] /\ fd \in Fds /\ shared \subseteq Fds
      /\ [fd |-> fd, alive |-> TRUE] \in Players
  BY DEF IndInv, TypeOK, Players
<1>5. /\ slots' \in [Slots -> Players \cup {None}] /\ shared' \subseteq Fds
      /\ shared \subseteq shared'
      /\ slots'[new] = [fd |-> fd, alive |-> TRUE]
      /\ \A s \in Slots \ {new} : slots'[s] = slots[s]
  BY <1>2, <1>3, <1>4
<1>6. PlayersAreWatched'
  <2> SUFFICES ASSUME NEW s \in Slots, slots'[s] # None
               PROVE  /\ slots'[s].alive => slots'[s].fd \in read_fds' \cup shared'
                      /\ ~slots'[s].alive => step' \in {"handle", "play"}
    BY DEF PlayersAreWatched, SlotsOf
  <2>1. CASE s = new
    BY <1>5, <2>1
  <2>2. CASE s # new
    <3>1. s \in SlotsOf(Fds) /\ slots'[s] = slots[s]
      BY <1>4, <1>5, <2>2 DEF SlotsOf, Players
    <3> QED
      BY <1>5, <3>1 DEF IndInv, LoopInv, PlayersAreWatched
  <2> QED
    BY <2>1, <2>2
<1>7. ASSUME NEW s \in Slots, NEW t \in Slots, slots'[s] # None, slots'[t] # None,
             slots'[s].fd = slots'[t].fd
      PROVE  s = t \/ slots'[s].fd \in shared'
  <2>1. CASE s = new /\ t # new
    <3>1. t \in SlotsOf({fd}) /\ slots'[s].fd = fd
      BY <1>5, <1>7, <2>1 DEF SlotsOf
    <3> QED
      BY <1>2, <3>1
  <2>2. CASE s # new /\ t = new
    <3>1. s \in SlotsOf({fd}) /\ slots'[s].fd = fd
      BY <1>5, <1>7, <2>2 DEF SlotsOf
    <3> QED
      BY <1>2, <3>1
  <2>3. CASE s # new /\ t # new
    BY <1>5, <1>7, <2>3 DEF IndInv, LoopInv
  <2> QED
    BY <2>1, <2>2, <2>3
<1> QED
  BY <1>5, <1>6, <1>7 DEF IndInv, LoopInv

LEMMA MessageStep ==
  ASSUME IndInv, NEW fd \in Fds, NEW login \in BOOLEAN, m_handle_client_message(fd, login)
  PROVE  IndInv'
<1> USE DEF m_handle_client_message, Handle, handshakes
<1>1. step = "handle" /\ step' = "handle" /\ fd \in read_fds /\ ready' = ready \ {fd}
  BY HandleReady
<1>2. /\ slots' \in [Slots -> Players \cup {None}] /\ shared' \subseteq Fds
      /\ LoopInv'
  <2>1. CASE UNCHANGED <<slots, shared>>
    BY <1>1, <2>1 DEF IndInv, LoopInv, PlayersAreWatched, SlotsOf, TypeOK
  <2>2. CASE game_register_player(fd)
    BY <1>1, <2>2, RegisterPlayer DEF IndInv, LoopInv
  <2> QED
    BY <2>1, <2>2
<1>3. TypeOK'
  BY <1>2 DEF IndInv, TypeOK
<1>4. FdInv'
  BY DEF IndInv, FdInv
<1>5. OwnInv'
  BY DEF IndInv, OwnInv, SslOwnership
<1> QED
  BY <1>2, <1>3, <1>4, <1>5 DEF IndInv

LEMMA DropClientStep == ASSUME IndInv, NEW fd \in Fds, DropClient(fd) PROVE IndInv'
<1> USE DEF DropClient, Handle, handshakes
<1>1. step = "handle" /\ step' = "handle" /\ ready' = ready \ {fd}
  BY HandleReady
<1>2. /\ fdt' \in [Fds -> Conns \cup {None}]
      /\ table' \in [Fds -> Conns \cup {None}]
      /\ freed' \subseteq Conns
      /\ slots' \in [Slots -> Players \cup {None}]
      /\ read_fds' = read_fds \ {fd}
      /\ FdInv' /\ OwnInv'
      /\ PlayersKept
      /\ \A s \in Slots : slots'[s] # None /\ slots'[s].alive =>
            slots'[s].fd \in read_fds' \cup shared
  BY RemoveClients
<1>3. TypeOK'
  BY <1>1, <1>2 DEF IndInv, TypeOK
<1>4. LoopInv'
  BY <1>1, <1>2, <1>3, KilledLoopInv DEF IndInv, LoopInv
<1> QED
  BY <1>2, <1>3, <1>4 DEF IndInv

LEMMA RemoveStep == ASSUME IndInv, m_remove_clients PROVE IndInv'
<1> USE DEF m_remove_clients, handshakes
<1>1. ToSet(Walked(removals)) \in SUBSET Fds
  BY WalkedIsListed DEF IndInv, TypeOK
<1>2. /\ fdt' \in [Fds -> Conns \cup {None}]
      /\ table' \in [Fds -> Conns \cup {None}]
      /\ freed' \subseteq Conns
      /\ slots' \in [Slots -> Players \cup {None}]
      /\ read_fds' = read_fds \ ToSet(Walked(removals))
      /\ FdInv' /\ OwnInv'
      /\ PlayersKept
      /\ \A s \in Slots : slots'[s] # None /\ slots'[s].alive =>
            slots'[s].fd \in read_fds' \cup shared
  BY <1>1, RemoveClients
<1>3. TypeOK'
  BY <1>2 DEF IndInv, TypeOK
<1>4. LoopInv'
  BY <1>2, <1>3, KilledLoopInv DEF IndInv
<1> QED
  BY <1>2, <1>3, <1>4 DEF IndInv

\* game_play lets all killed players die.
LEMMA PlayStep == ASSUME IndInv, game_play PROVE IndInv'
<1> USE DEF game_play, tls, handshakes
<1>1. PICK dead \in SUBSET SlotsOf(Fds) :
          /\ \A s \in SlotsOf(Fds) : slots[s].alive \/ s \in dead
          /\ slots' = [s \in Slots |-> IF s \in dead THEN None ELSE slots[s]]
          /\ \E order \in SetToSeqs(dead) :
                /\ \A i, j \in DOMAIN order : i < j => order[i] < order[j]
                /\ server_remove_client(order)
          /\ shared' = shared \cap {slots[s].fd : s \in SlotsOf(Fds) \ dead}
  OBVIOUS
<1>2. removals' \in Seq(Fds)
  <2>1. IsFiniteSet(dead)
    <3>1. IsFiniteSet(Slots)
      BY ConnectionsAssumption, FS_Interval DEF Slots
    <3> QED
      BY <3>1, FS_Subset DEF SlotsOf
  <2>2. PICK order \in SetToSeqs(dead) : server_remove_client(order)
    BY <1>1
  <2>3. order \in Seq(SlotsOf(Fds))
    BY <2>1, OrdersAreLists
  <2> DEFINE fds == [i \in DOMAIN order |-> slots[order[i]].fd]
  <2>4. \A s \in SlotsOf(Fds) : slots[s].fd \in Fds
    BY DEF SlotsOf
  <2>5. /\ DOMAIN order = 1 .. Len(order) /\ Len(order) \in Nat
        /\ \A i \in 1 .. Len(order) : order[i] \in SlotsOf(Fds)
    BY <2>3
  <2>6. fds \in [1 .. Len(order) -> Fds]
    BY <2>4, <2>5
  <2>7. fds \in Seq(Fds)
    BY <2>5, <2>6
  <2>8. removals' = removals \o fds
    BY <2>2 DEF server_remove_client
  <2> HIDE DEF fds
  <2> QED
    BY <2>7, <2>8 DEF IndInv, TypeOK
<1>3. TypeOK'
  BY <1>1, <1>2 DEF IndInv, TypeOK
<1>4. FdInv'
  BY DEF IndInv, FdInv
<1>5. OwnInv'
  BY DEF IndInv, OwnInv, SslOwnership
<1>6. LoopInv'
  <2>1. ASSUME NEW s \in Slots, slots'[s] # None
        PROVE  /\ slots'[s] = slots[s] /\ slots[s].alive
               /\ slots[s].fd \in shared => slots[s].fd \in shared'
               /\ slots[s].fd \in read_fds \cup shared
    <3>1. s \notin dead /\ slots'[s] = slots[s]
      BY <1>1, <2>1
    <3>2. s \in SlotsOf(Fds)
      BY <2>1, <3>1 DEF SlotsOf, IndInv, TypeOK, Players
    <3> QED
      BY <1>1, <3>1, <3>2 DEF IndInv, LoopInv, PlayersAreWatched
  <2>2. PlayersAreWatched'
    BY <2>1 DEF PlayersAreWatched, SlotsOf
  <2>3. ASSUME NEW s \in Slots, NEW t \in Slots, slots'[s] # None, slots'[t] # None,
               slots'[s].fd = slots'[t].fd
        PROVE  s = t \/ slots'[s].fd \in shared'
    BY <2>1, <2>3 DEF IndInv, LoopInv
  <2> QED
    BY <2>2, <2>3 DEF IndInv, LoopInv
<1> QED
  BY <1>3, <1>4, <1>5, <1>6 DEF IndInv

\* The end of the process: the signal, game_clean and the freed table.
LEMMA EndStep ==
  ASSUME IndInv, SignalSeen \/ game_clean \/ ssl_table_free
  PROVE  IndInv'
<1> USE DEF SignalSeen, game_clean, ssl_table_free, tls, handshakes, game
<1>1. TypeOK'
  BY DEF IndInv, TypeOK
<1>2. FdInv'
  BY DEF IndInv, FdInv
<1>3. OwnInv'
  BY ConnectionsAssumption DEF IndInv, OwnInv, SslOwnership, TypeOK
<1>4. LoopInv'
  BY DEF IndInv, LoopInv, PlayersAreWatched, SlotsOf
<1> QED
  BY <1>1, <1>2, <1>3, <1>4 DEF IndInv

\* The descriptor that cleanup_server removes next is one that is watched.
LEMMA LowestWatched == ASSUME IndInv, read_fds # {} PROVE Min(read_fds) \in Fds
<1>1. read_fds \in SUBSET Nat /\ read_fds \subseteq Fds
  BY ConnectionsAssumption DEF IndInv, TypeOK
<1> QED
  BY <1>1, MinIsLowest

LEMMA CleanupClientStep == ASSUME IndInv, CleanupClient PROVE IndInv'
<1> USE DEF CleanupClient, handshakes
<1> DEFINE fds == {Min(read_fds)}
<1>1. fds \in SUBSET Fds
  BY LowestWatched
<1> HIDE DEF fds
<1>2. REMOVE_CLIENT(fds)
  BY DEF fds
<1>3. /\ fdt' \in [Fds -> Conns \cup {None}]
      /\ table' \in [Fds -> Conns \cup {None}]
      /\ freed' \subseteq Conns
      /\ slots' \in [Slots -> Players \cup {None}]
      /\ read_fds' = read_fds \ fds
      /\ FdInv' /\ OwnInv'
      /\ PlayersKept
  BY <1>1, <1>2, RemoveClients
<1>4. TypeOK'
  BY <1>3 DEF IndInv, TypeOK
<1>5. LoopInv'
  <2>1. \A s \in Slots : slots'[s] = None
    BY <1>3 DEF PlayersKept, IndInv, LoopInv
  <2> QED
    BY <1>3, <2>1 DEF IndInv, LoopInv, PlayersAreWatched, SlotsOf
<1> QED
  BY <1>3, <1>4, <1>5 DEF IndInv

LEMMA NextIndInv == IndInv /\ [Next]_vars => IndInv'
<1> SUFFICES ASSUME IndInv, [Next]_vars PROVE IndInv'
  OBVIOUS
<1>1. CASE \E c \in Conns : ClientCloses(c)
  BY <1>1, ClientClosesStep
<1>2. CASE handshake_worker
  BY <1>2, TakeTaskStep, AcceptSucceedsStep, AcceptFailsStep DEF handshake_worker
<1>3. CASE main_loop
  BY <1>3, DequeueStep, SelectStep, AcceptClientStep, MessageStep, DropClientStep, RemoveStep,
     PlayStep DEF main_loop
<1>4. CASE SignalSeen \/ cleanup_server
  BY <1>4, EndStep, CleanupClientStep DEF cleanup_server
<1>5. CASE UNCHANGED vars
  <2> USE <1>5 DEF vars, tls, handshakes, game, IndInv
  <2>1. TypeOK'
    BY DEF TypeOK
  <2>2. FdInv'
    BY DEF FdInv
  <2>3. OwnInv'
    BY DEF OwnInv, SslOwnership
  <2>4. LoopInv'
    BY DEF LoopInv, PlayersAreWatched, SlotsOf
  <2> QED
    BY <2>1, <2>2, <2>3, <2>4
<1> QED
  BY <1>1, <1>2, <1>3, <1>4, <1>5 DEF Next, Ended

(***************************************************************************)
(* The types of the descriptors, the rings, the SSL table and the players  *)
(* hold through every interleaving of the main loop and the worker.        *)
(***************************************************************************)
THEOREM TypesCorrect == Spec => []TypeOK
<1>1. IndInv => TypeOK
  BY DEF IndInv
<1> QED
  BY <1>1, InitIndInv, NextIndInv, PTL DEF Spec

(***************************************************************************)
(* An SSL object that ssl_al_accept_client made has one owner, a ring, the *)
(* worker or an entry of ssl_table, until it is freed, and none after; so  *)
(* it is never freed twice nor used after that, whatever descriptors are   *)
(* given out again between the worker's close and the main loop's.         *)
(***************************************************************************)
THEOREM OwnershipCorrect == Spec => []SslOwnership
<1>1. IndInv => SslOwnership
  BY DEF IndInv, OwnInv
<1> QED
  BY <1>1, InitIndInv, NextIndInv, PTL DEF Spec

(***************************************************************************)
(* Every player that the game has alive is one whose descriptor the main   *)
(* loop watches, and a killed one is gone before the next select, also     *)
(* while m_remove_clients works off a list of descriptors that may have    *)
(* been given out again.  Only where a client has logged in twice may a    *)
(* player live on without its connection.                                  *)
(***************************************************************************)
THEOREM WatchedCorrect == Spec => []PlayersAreWatched
<1>1. IndInv => PlayersAreWatched
  BY DEF IndInv, LoopInv
<1> QED
  BY <1>1, InitIndInv, NextIndInv, PTL DEF Spec

----------------------------------------------------------------------------
(***************************************************************************)
(* Descriptors are not forgotten as long as no ring of ssl_al_workers.c    *)
(* gets one handshake too many, which empties it.  Fewer clients than the  *)
(* ring has entries is what excludes that: an SSL object is in a ring once *)
(* only, and the one to be entered is in none.                             *)
(***************************************************************************)
FewClients == Cardinality(Conns) < RingSize

\* The descriptors that a ring holds.
RingFds(ring) == {ring[i].fd : i \in DOMAIN ring}

LEMMA RingHasRoom ==
  ASSUME FewClients, NEW ring \in Seq(Tasks), Distinct(ring), NEW c \in Conns,
         c \notin InRing(ring), NEW t
  PROVE  Enqueue(ring, t) = Append(ring, t)
<1> DEFINE n == Len(ring)
<1> DEFINE object == [i \in 1 .. n |-> ring[i].ssl]
<1>1. n \in Nat /\ DOMAIN ring = 1 .. n /\ \A i \in 1 .. n : ring[i] \in Tasks
  OBVIOUS
<1>2. object \in [1 .. n -> Conns \ {c}]
  BY <1>1 DEF InRing, Tasks
<1>3. \A i, j \in 1 .. n : object[i] = object[j] => i = j
  BY <1>1 DEF Distinct
<1>4. /\ IsFiniteSet(Conns \ {c}) /\ Cardinality(Conns \ {c}) = Cardinality(Conns) - 1
      /\ Cardinality(Conns) \in Nat
      /\ IsFiniteSet(1 .. n) /\ Cardinality(1 .. n) = n
  <2>1. /\ IsFiniteSet(Conns \ {c}) /\ Cardinality(Conns \ {c}) = Cardinality(Conns) - 1
        /\ Cardinality(Conns) \in Nat
    BY ConnectionsAssumption, FS_RemoveElement, FS_CardinalityType
  <2>2. IsFiniteSet(1 .. n) /\ Cardinality(1 .. n) = n
    <3> HIDE DEF n
    <3>1. IsFiniteSet(1 .. n) /\ Cardinality(1 .. n) = IF 1 > n THEN 0 ELSE n - 1 + 1
      BY <1>1, FS_Interval
    <3> QED
      BY <1>1, <3>1
  <2> QED
    BY <2>1, <2>2
<1> HIDE DEF object
<1>5. object \in Injection(1 .. n, Conns \ {c})
  BY <1>2, <1>3, Fun_IsInj
<1>6. n <= Cardinality(Conns \ {c})
  BY <1>4, <1>5, FS_Injection
<1>7. n + 1 # RingSize
  BY <1>1, <1>4, <1>6, ConnectionsAssumption DEF FewClients
<1> QED
  BY <1>7 DEF Enqueue

\* What enters a ring with room leaves the rest of it as it is.
LEMMA RoomKeepsFds ==
  ASSUME NEW ring \in Seq(Tasks), NEW t \in Tasks
  PROVE  RingFds(Append(ring, t)) = RingFds(ring) \cup {t.fd}
<1> DEFINE new == Append(ring, t)
<1>1. /\ DOMAIN new = 1 .. Len(ring) + 1 /\ DOMAIN ring = 1 .. Len(ring) /\ Len(ring) \in Nat
      /\ \A i \in DOMAIN ring : i \in DOMAIN new /\ new[i] = ring[i]
      /\ new[Len(ring) + 1] = t
  OBVIOUS
<1>2. \A i \in DOMAIN new : i \in DOMAIN ring \/ i = Len(ring) + 1
  BY <1>1
<1>3. Len(ring) + 1 \in DOMAIN new
  BY <1>1
<1> HIDE DEF new
<1>4. RingFds(new) = RingFds(ring) \cup {t.fd}
  BY <1>1, <1>2, <1>3 DEF RingFds
<1> QED
  BY <1>4 DEF new

\* Only the first descriptor leaves a ring with its head.
LEMMA TailKeepsFds ==
  ASSUME NEW ring \in Seq(Tasks), ring # <<>>
  PROVE  RingFds(ring) \subseteq RingFds(Tail(ring)) \cup {Head(ring).fd}
<1> DEFINE rest == Tail(ring)
<1>1. /\ Head(ring) = ring[1]
      /\ \A i \in DOMAIN ring : i # 1 => i - 1 \in DOMAIN rest /\ rest[i - 1] = ring[i]
  OBVIOUS
<1> HIDE DEF rest
<1>2. RingFds(ring) \subseteq RingFds(rest) \cup {ring[1].fd}
  BY <1>1 DEF RingFds
<1> QED
  BY <1>1, <1>2 DEF rest

LEMMA NextForgotten ==
  ASSUME FewClients, IndInv, NoDescriptorForgotten, [Next]_vars
  PROVE  NoDescriptorForgotten'
<1> DEFINE Held(fd) == \/ fd \in RingFds(tasks) \cup RingFds(done)
                       \/ worker # None /\ worker.fd = fd
<1>1. /\ \A fd \in Fds : fdt[fd] # None => fd \in read_fds \/ Held(fd)
      /\ NoDescriptorForgotten' <=> \A fd \in Fds : fdt'[fd] # None => fd \in read_fds' \/ Held(fd)'
  BY DEF NoDescriptorForgotten, InHandshake, RingFds
<1> SUFFICES ASSUME NEW fd \in Fds, fdt'[fd] # None PROVE fd \in read_fds' \/ Held(fd)'
  BY <1>1
<1>2. /\ tasks \in Seq(Tasks) /\ done \in Seq(Tasks) /\ Distinct(tasks) /\ Distinct(done)
      /\ fdt \in [Fds -> Conns \cup {None}]
  BY DEF IndInv, TypeOK, OwnInv, Tasks
<1>3. ASSUME UNCHANGED <<fdt, read_fds, tasks, done, worker>> PROVE fd \in read_fds' \/ Held(fd)'
  BY <1>1, <1>3
<1>4. ASSUME NEW fds, REMOVE_CLIENT(fds), UNCHANGED <<tasks, done, worker>>
      PROVE  fd \in read_fds' \/ Held(fd)'
  BY <1>1, <1>4 DEF REMOVE_CLIENT, ws_close
<1>5. CASE TakeTask
  <2>1. /\ worker = None /\ worker' # None /\ worker'.fd = Head(tasks).fd
        /\ UNCHANGED <<fdt, read_fds, done>>
    <3>1. Head(tasks) \in Tasks
      BY <1>2, <1>5 DEF TakeTask
    <3>2. worker' \in Working /\ worker'.fd = Head(tasks).fd
      BY <1>2, <1>5, <3>1 DEF TakeTask, Tasks, Working
    <3> QED
      BY <1>5, <3>2, ConnectionsAssumption DEF TakeTask, Working
  <2>2. RingFds(tasks) \subseteq RingFds(tasks') \cup {Head(tasks).fd}
    BY <1>2, <1>5, TailKeepsFds DEF TakeTask
  <2> QED
    BY <1>1, <2>1, <2>2
<1>6. CASE AcceptSucceeds
  <2> DEFINE t == Task(worker.fd, worker.ssl)
  <2>1. /\ worker # None /\ worker.fd \in Fds /\ worker.ssl \in Conns
        /\ worker.ssl \notin InRing(done)
        /\ t \in Tasks /\ t.fd = worker.fd
    BY <1>6 DEF AcceptSucceeds, IndInv, TypeOK, OwnInv, SslOwnership, Tasks, Task
  <2>2. done' = Enqueue(done, t) /\ UNCHANGED <<fdt, read_fds, tasks>>
    BY <1>6 DEF AcceptSucceeds
  <2> HIDE DEF t
  <2>3. RingFds(done') = RingFds(done) \cup {worker.fd}
    BY <1>2, <2>1, <2>2, RingHasRoom, RoomKeepsFds
  <2> QED
    BY <1>1, <2>2, <2>3
<1>7. CASE AcceptFails
  BY <1>1, <1>2, <1>7 DEF AcceptFails
<1>8. CASE ssl_al_worker_dequeue_all
  <2>1. /\ done # <<>> /\ done' = Tail(done) /\ UNCHANGED <<tasks, worker>>
        /\ \/ read_fds' = read_fds \cup {Head(done).fd} /\ UNCHANGED fdt
           \/ fdt' = [fdt EXCEPT ![Head(done).fd] = None] /\ UNCHANGED read_fds
    BY <1>8 DEF ssl_al_worker_dequeue_all, on_handshake_done, handshakes
  <2>2. RingFds(done) \subseteq RingFds(done') \cup {Head(done).fd}
    BY <1>2, <2>1, TailKeepsFds
  <2> QED
    BY <1>1, <1>2, <2>1, <2>2
<1>9. ASSUME NEW c \in Conns, ssl_al_accept_client(c) PROVE fd \in read_fds' \/ Held(fd)'
  <2> DEFINE new == Min({x \in Fds : fdt[x] = None})
  <2>1. new \in Fds
    BY <1>9, FreeDescriptor DEF ssl_al_accept_client
  <2>2. /\ c \in coming
        /\ fdt' = [fdt EXCEPT ![new] = c] /\ tasks' = Enqueue(tasks, Task(new, c))
        /\ UNCHANGED <<read_fds, done, worker>>
    BY <1>9 DEF ssl_al_accept_client
  <2> HIDE DEF new
  <2>3. Task(new, c) \in Tasks /\ Task(new, c).fd = new /\ c \notin InRing(tasks)
    BY <2>1, <2>2 DEF Task, Tasks, IndInv, OwnInv
  <2>4. RingFds(tasks') = RingFds(tasks) \cup {new}
    BY <1>2, <2>2, <2>3, RingHasRoom, RoomKeepsFds
  <2> QED
    BY <1>1, <1>2, <2>2, <2>4
<1> QED
  <2> USE DEF tls, handshakes, game
  <2>1. CASE \E c \in Conns : ClientCloses(c)
    BY <2>1, <1>3 DEF ClientCloses
  <2>2. CASE handshake_worker
    BY <2>2, <1>5, <1>6, <1>7 DEF handshake_worker
  <2>3. CASE main_loop
    <3>1. CASE server_select
      BY <3>1, <1>3 DEF server_select
    <3>2. ASSUME NEW g, NEW login, m_handle_client_message(g, login)
          PROVE  fd \in read_fds' \/ Held(fd)'
      BY <3>2, <1>3 DEF m_handle_client_message, Handle
    <3>3. ASSUME NEW g, DropClient(g) PROVE fd \in read_fds' \/ Held(fd)'
      BY <3>3, <1>4 DEF DropClient, Handle
    <3>4. CASE m_remove_clients
      BY <3>4, <1>4 DEF m_remove_clients
    <3>5. CASE game_play
      BY <3>5, <1>3 DEF game_play
    <3> QED
      BY <2>3, <1>8, <1>9, <3>1, <3>2, <3>3, <3>4, <3>5 DEF main_loop
  <2>4. CASE SignalSeen \/ cleanup_server
    BY <2>4, <1>3, <1>4 DEF SignalSeen, cleanup_server, game_clean, CleanupClient, ssl_table_free
  <2>5. CASE UNCHANGED vars
    BY <2>5, <1>3 DEF vars
  <2> QED
    BY <2>1, <2>2, <2>3, <2>4, <2>5 DEF Next, Ended

(***************************************************************************)
(* With fewer clients than a ring has entries, a descriptor that is open   *)
(* is watched by the main loop or its handshake is under way: the worker   *)
(* that gives up and the main loop that takes over close or watch each     *)
(* descriptor that they let go of, whatever its number stood for before.   *)
(***************************************************************************)
THEOREM ForgottenCorrect ==
  ASSUME FewClients
  PROVE  Spec => []NoDescriptorForgotten
<1>1. Init => NoDescriptorForgotten
  BY DEF Init, NoDescriptorForgotten
<1>2. IndInv /\ NoDescriptorForgotten /\ [Next]_vars => NoDescriptorForgotten'
  BY NextForgotten
<1> QED
  BY <1>1, <1>2, InitIndInv, NextIndInv, PTL DEF Spec

=============================================================================
