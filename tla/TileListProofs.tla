--------------------------- MODULE TileListProofs ---------------------------
(***************************************************************************)
(* The pointers of TileList are the lists of TileSeq, for any players and  *)
(* any map: through registration, movement and death, and in every round   *)
(* of the loop of m_command_expulse, which walks a list that it changes.   *)
(***************************************************************************)
EXTENDS TileList, ListProofs

Maps ==
    [first : [Tiles -> Pointer], next : [Players -> Pointer],
     prev : [Players -> Pointer], pos : [Players -> Tiles]]

\* The pointers of the players on a list lead to their neighbours.
Linked(m, s) ==
    \A i \in DOMAIN s :
        /\ m.next[s[i]] = IF i = Len(s) THEN Null ELSE s[i + 1]
        /\ m.prev[s[i]] = IF i = 1 THEN Null ELSE s[i - 1]

\* The pointers m are the lists ls, and the players in on are those on the map.
Represents(m, ls, on) ==
    /\ m \in Maps /\ ls \in [Tiles -> Seq(Players)] /\ on \subseteq Players
    /\ \A t \in Tiles :
          /\ NoRepeats(ls[t])
          /\ \A q \in Players : OnTile(ls[t], q) <=> q \in on /\ m.pos[q] = t
          /\ m.first[t] = IF ls[t] = <<>> THEN Null ELSE ls[t][1]
          /\ Linked(m, ls[t])
    /\ \A q \in Players \ on : m.next[q] = Null /\ m.prev[q] = Null

----------------------------------------------------------------------------
(* The pointer operations *)

\* What a list says of the place of its players, and of their neighbours.
LEMMA PlacesOnLists ==
  ASSUME NEW m, NEW ls, NEW on, Represents(m, ls, on), NEW u \in Tiles
  PROVE  /\ Len(ls[u]) \in Nat /\ DOMAIN ls[u] = 1 .. Len(ls[u])
         /\ \A i \in DOMAIN ls[u] : ls[u][i] \in on /\ ls[u][i] \in Players /\ m.pos[ls[u][i]] = u
         /\ ls[u] # <<>> => 1 \in DOMAIN ls[u]
         /\ m.first[u] # Null => m.first[u] \in on /\ m.pos[m.first[u]] = u
<1>1. ls[u] \in Seq(Players)
  BY DEF Represents
<1>2. Len(ls[u]) \in Nat /\ DOMAIN ls[u] = 1 .. Len(ls[u]) /\ (ls[u] # <<>> => 1 \in DOMAIN ls[u])
  BY <1>1
<1>3. \A i \in DOMAIN ls[u] : ls[u][i] \in Players /\ OnTile(ls[u], ls[u][i])
  BY <1>1 DEF OnTile
<1>4. \A i \in DOMAIN ls[u] : ls[u][i] \in on /\ m.pos[ls[u][i]] = u
  BY <1>3 DEF Represents
<1> QED
  BY <1>2, <1>3, <1>4 DEF Represents

\* m_game_add_player_to_tile puts a player that is on no tile on the list of one.
LEMMA AddRepresents ==
  ASSUME NEW m, NEW ls, NEW on, Represents(m, ls, on), NEW p \in Players \ on, NEW t \in Tiles
  PROVE  Represents(m_game_add_player_to_tile(m, t, p), [ls EXCEPT ![t] = PushFront(@, p)],
                    on \cup {p})
<1> DEFINE n == m_game_add_player_to_tile(m, t, p)
<1> DEFINE s == PushFront(ls[t], p)
<1> DEFINE new == [ls EXCEPT ![t] = s]
<1>1. m \in Maps /\ ls \in [Tiles -> Seq(Players)] /\ ls[t] \in Seq(Players) /\ on \subseteq Players
  BY DEF Represents
<1>2. /\ n \in Maps
      /\ \A u \in Tiles : n.first[u] = IF u = t THEN p ELSE m.first[u]
      /\ \A q \in Players :
            /\ n.next[q] = IF q = p THEN m.first[t] ELSE m.next[q]
            /\ n.prev[q] = IF q = m.first[t] THEN p ELSE IF q = p THEN Null ELSE m.prev[q]
            /\ n.pos[q] = IF q = p THEN t ELSE m.pos[q]
  BY <1>1 DEF m_game_add_player_to_tile, Maps, Pointer
<1> HIDE DEF n
<1>3. /\ s \in Seq(Players) /\ Len(s) = Len(ls[t]) + 1 /\ DOMAIN s = 1 .. Len(ls[t]) + 1
      /\ \A i \in 1 .. Len(ls[t]) + 1 : s[i] = IF i = 1 THEN p ELSE ls[t][i - 1]
      /\ \A q : OnTile(s, q) <=> q = p \/ OnTile(ls[t], q)
      /\ NoRepeats(ls[t]) /\ ~OnTile(ls[t], p) => NoRepeats(s)
  <2> HIDE DEF s
  <2>1. /\ s \in Seq(Players) /\ Len(s) = Len(ls[t]) + 1 /\ DOMAIN s = 1 .. Len(ls[t]) + 1
        /\ \A i \in 1 .. Len(ls[t]) + 1 : s[i] = IF i = 1 THEN p ELSE ls[t][i - 1]
    BY <1>1, PushFrontList DEF s
  <2>2. /\ \A q : OnTile(s, q) <=> q = p \/ OnTile(ls[t], q)
        /\ NoRepeats(ls[t]) /\ ~OnTile(ls[t], p) => NoRepeats(s)
    BY <1>1, PushFrontPlayers DEF s
  <2> QED
    BY <2>1, <2>2
<1> HIDE DEF s
<1>4. new \in [Tiles -> Seq(Players)] /\ \A u \in Tiles : new[u] = IF u = t THEN s ELSE ls[u]
  BY <1>1, <1>3
<1> HIDE DEF new
<1>5. p # Null /\ (m.first[t] # Null => m.first[t] \in on /\ m.pos[m.first[t]] = t)
  BY PlacesOnLists, TileListAssumption
<1>6. ASSUME NEW u \in Tiles, u # t
      PROVE  /\ NoRepeats(new[u])
             /\ \A q \in Players : OnTile(new[u], q) <=> q \in on \cup {p} /\ n.pos[q] = u
             /\ n.first[u] = IF new[u] = <<>> THEN Null ELSE new[u][1]
             /\ Linked(n, new[u])
  <2>1. new[u] = ls[u]
    BY <1>4, <1>6
  <2>2. \A i \in DOMAIN ls[u] : /\ ls[u][i] \in Players
                                /\ ls[u][i] # p /\ ls[u][i] # m.first[t]
    BY <1>5, <1>6, PlacesOnLists, TileListAssumption
  <2>3. Linked(m, ls[u])
    BY DEF Represents
  <2>4. Linked(n, ls[u])
    <3>1. \A i \in DOMAIN ls[u] : /\ n.next[ls[u][i]] = m.next[ls[u][i]]
                                  /\ n.prev[ls[u][i]] = m.prev[ls[u][i]]
      BY <1>2, <2>2
    <3> QED
      BY <2>3, <3>1 DEF Linked
  <2>5. \A q \in Players : OnTile(ls[u], q) <=> q \in on \cup {p} /\ n.pos[q] = u
    BY <1>2, <1>6 DEF Represents
  <2>6. NoRepeats(ls[u]) /\ n.first[u] = IF ls[u] = <<>> THEN Null ELSE ls[u][1]
    BY <1>2, <1>6 DEF Represents
  <2> QED
    BY <2>1, <2>4, <2>5, <2>6
<1>7. /\ NoRepeats(s)
      /\ \A q \in Players : OnTile(s, q) <=> q \in on \cup {p} /\ n.pos[q] = t
      /\ n.first[t] = IF s = <<>> THEN Null ELSE s[1]
      /\ Linked(n, s)
  <2>1. NoRepeats(s) /\ \A q \in Players : OnTile(s, q) <=> q \in on \cup {p} /\ n.pos[q] = t
    BY <1>2, <1>3 DEF Represents
  <2>2. s[1] = p /\ s # <<>> /\ Len(ls[t]) \in Nat
    BY <1>1, <1>3
  <2>3. /\ \A i \in DOMAIN ls[t] : ls[t][i] \in Players /\ ls[t][i] # p
        /\ DOMAIN ls[t] = 1 .. Len(ls[t])
        /\ m.first[t] = IF Len(ls[t]) = 0 THEN Null ELSE ls[t][1]
    <3>1. \A i \in DOMAIN ls[t] : ls[t][i] \in Players /\ ls[t][i] \in on
      BY PlacesOnLists
    <3>2. m.first[t] = IF ls[t] = <<>> THEN Null ELSE ls[t][1]
      BY DEF Represents
    <3> QED
      BY <1>1, <3>1, <3>2
  <2>4. Linked(m, ls[t]) /\ NoRepeats(ls[t])
    BY DEF Represents
  <2>5. ASSUME NEW i \in DOMAIN s
        PROVE  /\ n.next[s[i]] = IF i = Len(s) THEN Null ELSE s[i + 1]
               /\ n.prev[s[i]] = IF i = 1 THEN Null ELSE s[i - 1]
    <3>1. CASE i = 1
      BY <1>2, <1>3, <1>5, <2>2, <2>3, <3>1
    <3>2. CASE i # 1
      <4> DEFINE j == i - 1
      <4>1. j \in DOMAIN ls[t] /\ s[i] = ls[t][j] /\ i = j + 1 /\ j \in Nat /\ j >= 1
        BY <1>3, <2>2, <2>3, <2>5, <3>2
      <4> HIDE DEF j
      <4>2. /\ m.next[ls[t][j]] = IF j = Len(ls[t]) THEN Null ELSE ls[t][j + 1]
            /\ m.prev[ls[t][j]] = IF j = 1 THEN Null ELSE ls[t][j - 1]
        BY <2>4, <4>1 DEF Linked
      <4>3. n.next[s[i]] = IF i = Len(s) THEN Null ELSE s[i + 1]
        BY <1>2, <1>3, <2>2, <2>3, <4>1, <4>2, SMTT(30)
      <4>4. n.prev[s[i]] = s[i - 1]
        <5>1. CASE j = 1
          BY <1>2, <1>3, <2>2, <2>3, <4>1, <5>1
        <5>2. CASE j # 1
          <6>1. ls[t][j] # m.first[t]
            BY <2>2, <2>3, <2>4, <4>1, <5>2 DEF NoRepeats
          <6> QED
            BY <1>2, <1>3, <2>2, <2>3, <4>1, <4>2, <5>2, <6>1
        <5> QED
          BY <5>1, <5>2
      <4> QED
        BY <3>2, <4>3, <4>4
    <3> QED
      BY <3>1, <3>2
  <2> QED
    BY <1>2, <2>1, <2>2, <2>5 DEF Linked
<1>8. \A q \in Players \ (on \cup {p}) : n.next[q] = Null /\ n.prev[q] = Null
  BY <1>2, <1>5, TileListAssumption DEF Represents
<1>9. Represents(n, new, on \cup {p})
  <2>1. \A u \in Tiles :
          /\ NoRepeats(new[u])
          /\ \A q \in Players : OnTile(new[u], q) <=> q \in on \cup {p} /\ n.pos[q] = u
          /\ n.first[u] = IF new[u] = <<>> THEN Null ELSE new[u][1]
          /\ Linked(n, new[u])
    <3> TAKE u \in Tiles
    <3>1. CASE u = t
      <4>1. new[u] = s
        BY <1>4, <3>1
      <4> QED
        BY <1>7, <3>1, <4>1
    <3> QED
      BY <1>6, <3>1
  <2> QED
    BY <1>1, <1>2, <1>4, <1>8, <2>1 DEF Represents
<1> QED
  BY <1>9 DEF n, new, s

\* m_game_remove_player_from_tile takes a player off the list of its tile.
LEMMA RemoveRepresents ==
  ASSUME NEW m, NEW ls, NEW on, Represents(m, ls, on), NEW p \in on
  PROVE  Represents(m_game_remove_player_from_tile(m, p),
                    [ls EXCEPT ![m.pos[p]] = Without(@, p)], on \ {p})
<1> DEFINE n == m_game_remove_player_from_tile(m, p)
<1> DEFINE t == m.pos[p]
<1> DEFINE s == ls[t]
<1> DEFINE rest == Without(ls[t], p)
<1> DEFINE new == [ls EXCEPT ![t] = rest]
<1>1. /\ m \in Maps /\ ls \in [Tiles -> Seq(Players)] /\ on \subseteq Players
      /\ p \in Players /\ t \in Tiles /\ s \in Seq(Players)
  BY DEF Represents, Maps
<1> HIDE DEF t, s
<1>2. /\ n \in Maps
      /\ \A u \in Tiles : n.first[u] = IF u = t /\ m.prev[p] = Null THEN m.next[p] ELSE m.first[u]
      /\ \A q \in Players :
            /\ n.next[q] = IF q = p THEN Null ELSE IF q = m.prev[p] THEN m.next[p] ELSE m.next[q]
            /\ n.prev[q] = IF q = p THEN Null ELSE IF q = m.next[p] THEN m.prev[p] ELSE m.prev[q]
            /\ n.pos[q] = m.pos[q]
  BY <1>1 DEF m_game_remove_player_from_tile, Maps, Pointer, t
<1> HIDE DEF n
<1>3. /\ Len(s) \in Nat /\ DOMAIN s = 1 .. Len(s) /\ NoRepeats(s) /\ Linked(m, s)
      /\ \A i \in DOMAIN s : s[i] \in on /\ s[i] \in Players /\ m.pos[s[i]] = t
  <2>1. Len(s) \in Nat /\ DOMAIN s = 1 .. Len(s)
    BY <1>1
  <2>2. NoRepeats(s) /\ Linked(m, s)
    BY <1>1 DEF Represents, s
  <2>3. \A i \in DOMAIN s : s[i] \in on /\ s[i] \in Players /\ m.pos[s[i]] = t
    BY <1>1, PlacesOnLists DEF s
  <2> QED
    BY <2>1, <2>2, <2>3
<1>4. PICK k \in DOMAIN s : s[k] = p
  BY <1>1 DEF Represents, OnTile, t, s
<1>5. /\ rest \in Seq(Players) /\ Len(rest) = Len(s) - 1 /\ DOMAIN rest = 1 .. Len(s) - 1
      /\ \A i \in 1 .. Len(s) - 1 : rest[i] = IF i < k THEN s[i] ELSE s[i + 1]
      /\ \A q : OnTile(rest, q) <=> q # p /\ OnTile(s, q)
      /\ NoRepeats(rest)
  <2> HIDE DEF rest
  <2>1. /\ rest \in Seq(Players) /\ Len(rest) = Len(s) - 1 /\ DOMAIN rest = 1 .. Len(s) - 1
        /\ \A i \in 1 .. Len(s) - 1 : rest[i] = IF i < k THEN s[i] ELSE s[i + 1]
    BY <1>1, <1>3, <1>4, WithoutList DEF rest, s
  <2>2. (\A q : OnTile(rest, q) <=> q # p /\ OnTile(s, q)) /\ NoRepeats(rest)
    BY <1>1, <1>3, WithoutPlayers DEF rest, s
  <2> QED
    BY <2>1, <2>2
<1> HIDE DEF rest
<1>6. new \in [Tiles -> Seq(Players)] /\ \A u \in Tiles : new[u] = IF u = t THEN rest ELSE ls[u]
  BY <1>1, <1>5
<1> HIDE DEF new
<1>7. /\ m.next[p] = IF k = Len(s) THEN Null ELSE s[k + 1]
      /\ m.prev[p] = IF k = 1 THEN Null ELSE s[k - 1]
      /\ p # Null
      /\ k \in Nat /\ (k # Len(s) => k + 1 \in DOMAIN s) /\ (k # 1 => k - 1 \in DOMAIN s)
  <2>1. k \in Nat /\ (k # Len(s) => k + 1 \in DOMAIN s) /\ (k # 1 => k - 1 \in DOMAIN s)
    BY <1>3
  <2> QED
    BY <1>1, <1>3, <1>4, <2>1, TileListAssumption DEF Linked
<1>8. ASSUME NEW u \in Tiles, u # t
      PROVE  /\ NoRepeats(ls[u])
             /\ \A q \in Players : OnTile(ls[u], q) <=> q \in on \ {p} /\ n.pos[q] = u
             /\ n.first[u] = IF ls[u] = <<>> THEN Null ELSE ls[u][1]
             /\ Linked(n, ls[u])
  <2>1. /\ m.next[p] # Null => m.next[p] \in Players /\ m.pos[m.next[p]] = t
        /\ m.prev[p] # Null => m.prev[p] \in Players /\ m.pos[m.prev[p]] = t
    BY <1>3, <1>7
  <2>2. \A i \in DOMAIN ls[u] : /\ ls[u][i] \in Players /\ ls[u][i] # p
                                /\ ls[u][i] # m.next[p] /\ ls[u][i] # m.prev[p]
    BY <1>1, <1>8, <2>1, PlacesOnLists, TileListAssumption DEF t
  <2>3. \A i \in DOMAIN ls[u] : /\ n.next[ls[u][i]] = m.next[ls[u][i]]
                                /\ n.prev[ls[u][i]] = m.prev[ls[u][i]]
    BY <1>2, <2>2
  <2>4. Linked(n, ls[u])
    <3>1. Linked(m, ls[u])
      BY DEF Represents
    <3> QED
      BY <2>3, <3>1 DEF Linked
  <2>5. \A q \in Players : OnTile(ls[u], q) <=> q \in on \ {p} /\ n.pos[q] = u
    BY <1>2, <1>8 DEF Represents, t
  <2>6. NoRepeats(ls[u]) /\ n.first[u] = IF ls[u] = <<>> THEN Null ELSE ls[u][1]
    BY <1>2, <1>8 DEF Represents
  <2> QED
    BY <2>4, <2>5, <2>6
<1>9. /\ \A q \in Players : OnTile(rest, q) <=> q \in on \ {p} /\ n.pos[q] = t
      /\ n.first[t] = IF rest = <<>> THEN Null ELSE rest[1]
      /\ Linked(n, rest)
  <2>1. \A q \in Players : OnTile(rest, q) <=> q \in on \ {p} /\ n.pos[q] = t
    BY <1>1, <1>2, <1>5 DEF Represents, s
  <2>2. /\ m.first[t] = s[1]
        /\ rest = <<>> <=> Len(s) = 1
        /\ 1 \in DOMAIN s
    <3>1. s # <<>> /\ 1 \in DOMAIN s
      BY <1>1, <1>3, <1>4
    <3>2. rest = <<>> <=> Len(s) = 1
      <4>1. Len(rest) = 0 <=> Len(s) = 1
        BY <1>3, <1>5
      <4> QED
        BY <1>5, <4>1
    <3> QED
      BY <1>1, <3>1, <3>2 DEF Represents, s
  <2>3. n.first[t] = IF rest = <<>> THEN Null ELSE rest[1]
    <3>1. CASE k = 1
      BY <1>1, <1>2, <1>3, <1>4, <1>5, <1>7, <2>2, <3>1
    <3>2. CASE k # 1
      <4>1. m.prev[p] # Null /\ Len(s) # 1 /\ 1 < k /\ 1 \in 1 .. Len(s) - 1
        BY <1>3, <1>4, <1>7, <3>2, TileListAssumption
      <4> QED
        BY <1>1, <1>2, <1>5, <2>2, <4>1
    <3> QED
      BY <3>1, <3>2
  <2>4. ASSUME NEW i \in DOMAIN rest
        PROVE  /\ n.next[rest[i]] = IF i = Len(rest) THEN Null ELSE rest[i + 1]
               /\ n.prev[rest[i]] = IF i = 1 THEN Null ELSE rest[i - 1]
    <3>1. PICK j \in DOMAIN s : j = IF i < k THEN i ELSE i + 1
      BY <1>3, <1>5
    <3>2. rest[i] = s[j] /\ j # k /\ i \in Nat /\ i >= 1 /\ s[j] # p /\ s[j] \in Players
      BY <1>3, <1>4, <1>5, <3>1 DEF NoRepeats
    <3>3. /\ m.next[s[j]] = IF j = Len(s) THEN Null ELSE s[j + 1]
          /\ m.prev[s[j]] = IF j = 1 THEN Null ELSE s[j - 1]
      BY <1>3 DEF Linked
    <3>4. s[j] = m.prev[p] <=> j = k - 1
      <4>1. CASE k = 1
        BY <1>3, <1>7, <3>1, <3>2, <4>1, TileListAssumption
      <4>2. CASE k # 1
        BY <1>3, <1>7, <4>2 DEF NoRepeats
      <4> QED
        BY <4>1, <4>2
    <3>5. s[j] = m.next[p] <=> j = k + 1
      <4>1. CASE k = Len(s)
        BY <1>3, <1>7, <3>1, <3>2, <4>1, TileListAssumption
      <4>2. CASE k # Len(s)
        BY <1>3, <1>7, <4>2 DEF NoRepeats
      <4> QED
        BY <4>1, <4>2
    <3>6. n.next[rest[i]] = IF i = Len(rest) THEN Null ELSE rest[i + 1]
      <4>1. n.next[rest[i]] = IF j = k - 1 THEN m.next[p] ELSE m.next[s[j]]
        BY <1>2, <3>2, <3>4
      <4>2. CASE j = k - 1
        <5>1. i = k - 1 /\ i \in 1 .. Len(s) - 1
          BY <1>3, <1>5, <1>7, <3>1, <3>2, <4>2
        <5>2. i # Len(rest) => i + 1 \in 1 .. Len(s) - 1 /\ rest[i + 1] = s[k + 1]
          BY <1>3, <1>5, <1>7, <5>1
        <5> QED
          BY <1>3, <1>5, <1>7, <4>1, <4>2, <5>1, <5>2
      <4>3. CASE j # k - 1
        <5>1. i # Len(rest) => i + 1 \in 1 .. Len(s) - 1 /\ rest[i + 1] = s[j + 1] /\ j # Len(s)
          BY <1>3, <1>5, <1>7, <3>1, <3>2, <4>3
        <5>2. i = Len(rest) => j = Len(s)
          <6>1. Len(rest) = Len(s) - 1 /\ k \in 1 .. Len(s) /\ Len(s) \in Nat
            BY <1>3, <1>5
          <6> QED
            BY <3>1, <3>2, <4>3, <6>1
        <5> QED
          BY <3>3, <4>1, <4>3, <5>1, <5>2
      <4> QED
        BY <4>2, <4>3
    <3>7. n.prev[rest[i]] = IF i = 1 THEN Null ELSE rest[i - 1]
      <4>1. n.prev[rest[i]] = IF j = k + 1 THEN m.prev[p] ELSE m.prev[s[j]]
        BY <1>2, <3>2, <3>5
      <4>2. CASE j = k + 1
        <5>1. i = k /\ (i # 1 => i - 1 \in 1 .. Len(s) - 1 /\ rest[i - 1] = s[k - 1])
          BY <1>3, <1>5, <1>7, <3>1, <3>2, <4>2
        <5> QED
          BY <1>7, <4>1, <4>2, <5>1
      <4>3. CASE j # k + 1
        <5>1. i # 1 => i - 1 \in 1 .. Len(s) - 1 /\ rest[i - 1] = s[j - 1] /\ j # 1
          BY <1>3, <1>5, <1>7, <3>1, <3>2, <4>3, SMTT(30)
        <5>2. i = 1 => j = 1
          BY <1>3, <1>5, <1>7, <3>1, <3>2, <4>3
        <5> QED
          BY <3>3, <4>1, <4>3, <5>1, <5>2
      <4> QED
        BY <4>2, <4>3
    <3> QED
      BY <3>6, <3>7
  <2> QED
    BY <2>1, <2>3, <2>4 DEF Linked
<1>10. \A q \in Players \ (on \ {p}) : n.next[q] = Null /\ n.prev[q] = Null
  <2>1. /\ m.next[p] # Null => m.next[p] \in on
        /\ m.prev[p] # Null => m.prev[p] \in on
    BY <1>3, <1>7
  <2> QED
    BY <1>2, <2>1, TileListAssumption DEF Represents
<1>11. Represents(n, new, on \ {p})
  <2>1. \A u \in Tiles :
          /\ NoRepeats(new[u])
          /\ \A q \in Players : OnTile(new[u], q) <=> q \in on \ {p} /\ n.pos[q] = u
          /\ n.first[u] = IF new[u] = <<>> THEN Null ELSE new[u][1]
          /\ Linked(n, new[u])
    <3> TAKE u \in Tiles
    <3>1. CASE u = t
      <4>1. new[u] = rest
        BY <1>6, <3>1
      <4> QED
        BY <1>5, <1>9, <3>1, <4>1
    <3>2. CASE u # t
      <4>1. new[u] = ls[u]
        BY <1>6, <3>2
      <4> QED
        BY <1>8, <3>2, <4>1
    <3> QED
      BY <3>1, <3>2
  <2> QED
    BY <1>1, <1>2, <1>6, <1>10, <2>1 DEF Represents
<1> QED
  BY <1>11 DEF n, new, rest, t

\* m_game_move_player moves a player from list to list, and changes no other position.
LEMMA MoveRepresents ==
  ASSUME Represents(map, lists, alive), NEW p \in alive, NEW t \in Tiles
  PROVE  /\ Represents(m_game_move_player(map, p, t), MovedLists(p, t), alive)
         /\ m_game_move_player(map, p, t).pos = [map.pos EXCEPT ![p] = t]
<1> DEFINE m == m_game_remove_player_from_tile(map, p)
<1> DEFINE ls == [lists EXCEPT ![map.pos[p]] = Without(@, p)]
<1>1. /\ map \in Maps /\ lists \in [Tiles -> Seq(Players)] /\ p \in Players
      /\ map.pos[p] \in Tiles /\ p \in Players \ (alive \ {p})
      /\ (alive \ {p}) \cup {p} = alive
  BY DEF Represents, Maps
<1>2. Represents(m, ls, alive \ {p}) /\ m.pos = map.pos
  BY RemoveRepresents DEF m_game_remove_player_from_tile
<1>3. \A u \in Tiles : u # map.pos[p] => Without(lists[u], p) = lists[u]
  BY <1>1, WithoutAbsent DEF Represents
<1>4. MovedLists(p, t) = [ls EXCEPT ![t] = PushFront(@, p)]
  BY <1>1, <1>3 DEF MovedLists
<1> HIDE DEF m, ls
<1>5. Represents(m_game_add_player_to_tile(m, t, p), [ls EXCEPT ![t] = PushFront(@, p)], alive)
  BY <1>1, <1>2, AddRepresents
<1>6. m_game_move_player(map, p, t) = m_game_add_player_to_tile(m, t, p)
  BY DEF m_game_move_player, m
<1>7. m_game_add_player_to_tile(m, t, p).pos = [map.pos EXCEPT ![p] = t]
  BY <1>2 DEF m_game_add_player_to_tile
<1> QED
  BY <1>4, <1>5, <1>6, <1>7

----------------------------------------------------------------------------
(* The invariant *)

(***************************************************************************)
(* The loop of m_command_expulse either has moved nobody yet and is at the *)
(* first player of the tile or at the one after the emitter; or it has     *)
(* moved one player to an empty tile and is at its end; or it met players  *)
(* there, and is at the second player of that tile from then on.           *)
(***************************************************************************)
NobodyMoved(t) ==
    /\ lists = before
    /\ \/ it = before[t][1]
       \/ before[t][1] = emitter /\ it = IF Len(before[t]) = 1 THEN Null ELSE before[t][2]

FirstMoved(t) ==
    /\ OthersAt(before[t], {emitter}) # {} /\ before[dest] = <<>>
    /\ lists = AfterExpulse(before, t, dest, {emitter})
    /\ it = Null

GoesRound == Len(lists[dest]) >= 2 /\ it = lists[dest][2]

LoopInv ==
    emitter # Null =>
        /\ dest # map.pos[emitter]
        /\ NobodyMoved(map.pos[emitter]) \/ FirstMoved(map.pos[emitter]) \/ GoesRound

IndInv ==
    /\ Represents(map, lists, alive)
    /\ emitter \in alive \cup {Null} /\ it \in alive \cup {Null}
    /\ emitter = Null => it = Null
    /\ dest \in Tiles /\ before \in [Tiles -> Seq(Players)]
    /\ LoopInv

LEMMA InitIndInv == Init => IndInv
<1> SUFFICES ASSUME Init PROVE IndInv
  OBVIOUS
<1> USE TileListAssumption DEF Init
<1>1. Represents(map, lists, alive)
  BY DEF Represents, Maps, Pointer, NoRepeats, OnTile, Linked
<1> QED
  BY <1>1 DEF IndInv, LoopInv

\* The place of a player on the list of its tile.
LEMMA PlayerIsListed ==
  ASSUME Represents(map, lists, alive), NEW p \in alive
  PROVE  /\ p \in Players /\ p # Null /\ map.pos[p] \in Tiles
         /\ \E i \in DOMAIN lists[map.pos[p]] : lists[map.pos[p]][i] = p
         /\ lists[map.pos[p]] # <<>>
         /\ map.first[map.pos[p]] = lists[map.pos[p]][1]
         /\ map.first[map.pos[p]] \in alive
<1>1. /\ p \in Players /\ p # Null /\ map.pos[p] \in Tiles
      /\ \E i \in DOMAIN lists[map.pos[p]] : lists[map.pos[p]][i] = p
  BY TileListAssumption DEF Represents, Maps, OnTile
<1>2. lists[map.pos[p]] # <<>>
  BY <1>1
<1>3. 1 \in DOMAIN lists[map.pos[p]]
  BY <1>1, <1>2, PlacesOnLists
<1>4. map.first[map.pos[p]] = lists[map.pos[p]][1]
  BY <1>1, <1>2 DEF Represents
<1>5. lists[map.pos[p]][1] \in alive
  BY <1>1, <1>3, PlacesOnLists
<1> QED
  BY <1>1, <1>2, <1>4, <1>5

\* Registration, movement and death, while no loop runs.
LEMMA IdleSteps ==
  ASSUME IndInv, NEW p \in Players, NEW t \in Tiles,
         \/ game_register_player(p, t) \/ m_command_avance(p, t) \/ game_player_die(p)
  PROVE  IndInv'
<1>1. emitter' = Null /\ it' = Null /\ dest' \in Tiles /\ before' \in [Tiles -> Seq(Players)]
  BY DEF game_register_player, m_command_avance, game_player_die, Idle, IndInv
<1>2. Represents(map', lists', alive')
  <2>1. CASE game_register_player(p, t)
    BY <2>1, AddRepresents DEF game_register_player, IndInv
  <2>2. CASE m_command_avance(p, t)
    BY <2>2, MoveRepresents DEF m_command_avance, IndInv
  <2>3. CASE game_player_die(p)
    BY <2>3, RemoveRepresents DEF game_player_die, IndInv
  <2> QED
    BY <2>1, <2>2, <2>3
<1>3. Represents(map, lists, alive)'
  BY <1>2 DEF Represents, Linked
<1> QED
  BY <1>1, <1>3 DEF IndInv, LoopInv

\* m_command_expulse enters its loop at the first player of the tile.
LEMMA ExpulseStep ==
  ASSUME IndInv, NEW p \in Players, NEW t \in Tiles, m_command_expulse(p, t)
  PROVE  IndInv'
<1> USE DEF m_command_expulse, Idle
<1>1. /\ Represents(map, lists, alive)' /\ p \in alive /\ p # Null
      /\ it' = lists[map.pos[p]][1] /\ it' \in alive
      /\ map.pos[p] \in Tiles
  <2>1. Represents(map, lists, alive)'
    BY DEF IndInv, Represents, Linked
  <2>2. p \in alive /\ it' = map.first[map.pos[p]]
    OBVIOUS
  <2> QED
    BY <2>1, <2>2, PlayerIsListed DEF IndInv
<1>2. t # map.pos[p]
  BY <1>1, TileListAssumption
<1>3. LoopInv'
  BY <1>1, <1>2 DEF LoopInv, NobodyMoved
<1>4. lists \in [Tiles -> Seq(Players)]
  BY DEF IndInv, Represents
<1> QED
  BY <1>1, <1>3, <1>4 DEF IndInv

LEMMA ExpulseDoneStep == ASSUME IndInv, ExpulseDone PROVE IndInv'
<1> USE DEF ExpulseDone, IndInv
<1>1. Represents(map, lists, alive)'
  BY DEF Represents, Linked
<1>2. dest' \in Tiles /\ before' \in [Tiles -> Seq(Players)]
  BY DEF Represents
<1> QED
  BY <1>1, <1>2 DEF LoopInv

\* The player at the head of a list on which k is another place; what follows it.
LEMMA NextOnList ==
  ASSUME NEW m, NEW ls, NEW on, Represents(m, ls, on), NEW u \in Tiles, NEW i \in DOMAIN ls[u]
  PROVE  /\ m.next[ls[u][i]] = IF i = Len(ls[u]) THEN Null ELSE ls[u][i + 1]
         /\ m.next[ls[u][i]] \in on \cup {Null}
<1>1. m.next[ls[u][i]] = IF i = Len(ls[u]) THEN Null ELSE ls[u][i + 1]
  BY DEF Represents, Linked
<1>2. i # Len(ls[u]) => i + 1 \in DOMAIN ls[u]
  BY PlacesOnLists
<1> QED
  BY <1>1, <1>2, PlacesOnLists

\* The loop meets the emitter: it is passed over.
LEMMA PassStep == ASSUME IndInv, ExpulseLoop, it = emitter PROVE IndInv'
<1> DEFINE t == map.pos[emitter]
<1> DEFINE s == before[t]
<1>1. /\ emitter # Null /\ it # Null /\ emitter \in alive
      /\ UNCHANGED <<map, lists, alive, emitter, dest, before>>
      /\ it' = map.next[it]
  BY DEF ExpulseLoop, IndInv
<1>2. Represents(map, lists, alive) /\ Represents(map, lists, alive)'
  BY <1>1 DEF IndInv, Represents, Linked
<1>3. /\ t \in Tiles /\ lists[t] # <<>> /\ 1 \in DOMAIN lists[t] /\ NoRepeats(lists[t])
      /\ \A i \in DOMAIN lists[dest] : lists[dest][i] # emitter
  <2>1. t \in Tiles /\ lists[t] # <<>>
    BY <1>1, <1>2, PlayerIsListed
  <2>2. dest \in Tiles /\ dest # t
    BY <1>1 DEF IndInv, LoopInv
  <2>3. 1 \in DOMAIN lists[t] /\ NoRepeats(lists[t])
    BY <1>2, <2>1, PlacesOnLists DEF Represents
  <2>4. \A i \in DOMAIN lists[dest] : lists[dest][i] # emitter
    BY <1>2, <2>2, PlacesOnLists
  <2> QED
    BY <2>1, <2>3, <2>4
<1>4. NobodyMoved(t)
  <2>1. ~FirstMoved(t)
    BY <1>1 DEF FirstMoved
  <2>2. ~GoesRound
    <3>1. dest \in Tiles
      BY DEF IndInv
    <3>2. Len(lists[dest]) >= 2 => 2 \in DOMAIN lists[dest]
      BY <1>2, <3>1, PlacesOnLists
    <3> QED
      BY <1>3, <3>2 DEF GoesRound
  <2> QED
    BY <1>1, <2>1, <2>2 DEF IndInv, LoopInv
<1> HIDE DEF t
<1>5. lists = before /\ s[1] = emitter
  <2>1. CASE it = s[1]
    BY <1>4, <2>1 DEF NobodyMoved
  <2>2. CASE s[1] = emitter
    BY <1>4, <2>2 DEF NobodyMoved
  <2> QED
    BY <1>4, <2>1, <2>2 DEF NobodyMoved
<1>6. it' = (IF 1 = Len(s) THEN Null ELSE s[1 + 1]) /\ it' \in alive \cup {Null}
  <2>1. /\ map.next[lists[t][1]] = IF 1 = Len(lists[t]) THEN Null ELSE lists[t][1 + 1]
        /\ map.next[lists[t][1]] \in alive \cup {Null}
    BY <1>2, <1>3, NextOnList
  <2> QED
    BY <1>1, <1>5, <2>1
<1>7. 1 + 1 = 2
  OBVIOUS
<1>8. NobodyMoved(t)'
  BY <1>1, <1>5, <1>6, <1>7 DEF NobodyMoved, t
<1>9. LoopInv'
  BY <1>1, <1>8 DEF IndInv, LoopInv, t
<1> QED
  BY <1>1, <1>2, <1>6, <1>9 DEF IndInv

(***************************************************************************)
(* The loop meets another player and moves it: either it is the first that *)
(* is moved, and the loop goes on behind it on the tile in front, or the   *)
(* loop is there already.                                                  *)
(***************************************************************************)
LEMMA MoveStep == ASSUME IndInv, ExpulseLoop, it # emitter PROVE IndInv'
<1> DEFINE t == map.pos[emitter]
<1> DEFINE rest == Without(lists[dest], it)
<1>1. /\ emitter # Null /\ it # Null /\ emitter \in alive /\ it \in alive
      /\ map' = m_game_move_player(map, it, dest)
      /\ lists' = MovedLists(it, dest)
      /\ it' = map'.next[it]
      /\ UNCHANGED <<alive, emitter, dest, before>>
  BY DEF ExpulseLoop, IndInv
<1>2. Represents(map, lists, alive) /\ dest \in Tiles
  BY DEF IndInv
<1>3. /\ t \in Tiles /\ dest # t /\ emitter \in Players /\ it \in Players
      /\ lists \in [Tiles -> Seq(Players)]
      /\ map.pos \in [Players -> Tiles]
  BY <1>1, <1>2 DEF IndInv, LoopInv, Represents, Maps
<1>4. /\ Represents(map', lists', alive)
      /\ map'.pos = [map.pos EXCEPT ![it] = dest]
  BY <1>1, <1>2, MoveRepresents
<1>5. Represents(map, lists, alive)'
  BY <1>1, <1>4 DEF Represents, Linked
<1>6. t' = t
  BY <1>1, <1>3, <1>4
<1> HIDE DEF t
<1>7. /\ rest \in Seq(Players) /\ NoRepeats(lists[dest])
      /\ lists'[dest] = PushFront(rest, it)
  <2>1. lists[dest] \in Seq(Players) /\ NoRepeats(lists[dest])
    BY <1>2, <1>3 DEF Represents
  <2>2. lists'[dest] = PushFront(rest, it)
    BY <1>1, <1>2 DEF MovedLists
  <2> QED
    BY <2>1, <2>2, WithoutPlayers
<1>8. /\ Len(lists'[dest]) = Len(rest) + 1 /\ lists'[dest][1] = it /\ Len(rest) \in Nat
      /\ 1 \in DOMAIN lists'[dest]
      /\ Len(rest) > 0 => lists'[dest][2] = rest[1]
  <2> HIDE DEF rest
  <2>1. /\ Len(PushFront(rest, it)) = Len(rest) + 1
        /\ DOMAIN PushFront(rest, it) = 1 .. Len(rest) + 1
        /\ \A i \in 1 .. Len(rest) + 1 : PushFront(rest, it)[i] = IF i = 1 THEN it ELSE rest[i - 1]
    BY <1>3, <1>7, PushFrontList
  <2>2. Len(rest) \in Nat
    BY <1>7
  <2> QED
    BY <1>7, <2>1, <2>2
<1>9. it' = (IF Len(rest) = 0 THEN Null ELSE lists'[dest][2]) /\ it' \in alive \cup {Null}
  <2>1. it' = (IF 1 = Len(lists'[dest]) THEN Null ELSE lists'[dest][1 + 1]) /\ it' \in alive \cup {Null}
    <3>1. it' = map'.next[lists'[dest][1]]
      BY <1>1, <1>8
    <3> HIDE DEF rest
    <3> QED
      BY <1>2, <1>4, <1>8, <3>1, NextOnList
  <2> HIDE DEF rest
  <2> QED
    BY <1>8, <2>1
<1>10. Len(rest) > 0 => GoesRound'
  <2> HIDE DEF rest
  <2> QED
    BY <1>1, <1>8, <1>9 DEF GoesRound
<1>11. Len(rest) = 0 => FirstMoved(t)'
  <2> SUFFICES ASSUME Len(rest) = 0 PROVE FirstMoved(t)'
    OBVIOUS
  <2>1. NobodyMoved(t) \/ GoesRound
    BY <1>1 DEF IndInv, LoopInv, FirstMoved, t
  <2>2. ~GoesRound
    <3> SUFFICES ASSUME GoesRound PROVE FALSE
      OBVIOUS
    <3>1. /\ lists[dest] \in Seq(Players) /\ 2 \in DOMAIN lists[dest] /\ it = lists[dest][2]
          /\ Len(lists[dest]) \in Nat
      BY <1>2, PlacesOnLists DEF GoesRound, Represents
    <3>2. Len(rest) = Len(lists[dest]) - 1
      BY <1>7, <3>1, WithoutList
    <3> HIDE DEF rest
    <3> QED
      BY <3>1, <3>2 DEF GoesRound
  <2>3. /\ lists = before
        /\ \/ it = before[t][1]
           \/ before[t][1] = emitter /\ it = IF Len(before[t]) = 1 THEN Null ELSE before[t][2]
    BY <2>1, <2>2 DEF NobodyMoved
  <2>4. /\ 1 \in DOMAIN lists[t] /\ NoRepeats(lists[t]) /\ Len(lists[t]) \in Nat
        /\ lists[t] \in Seq(Players) /\ DOMAIN lists[t] = 1 .. Len(lists[t])
    BY <1>1, <1>2, <1>3, PlayerIsListed, PlacesOnLists DEF Represents, t
  <2>5. PICK k \in DOMAIN lists[t] : /\ it = lists[t][k]
                                    /\ \A i \in DOMAIN lists[t] : i < k => lists[t][i] = emitter
    <3>1. CASE it = lists[t][1]
      BY <2>4, <3>1
    <3>2. CASE it # lists[t][1]
      <4>1. lists[t][1] = emitter /\ Len(lists[t]) # 1 /\ it = lists[t][2]
        BY <1>1, <2>3, <3>2
      <4>2. 2 \in DOMAIN lists[t] /\ \A i \in DOMAIN lists[t] : i < 2 => i = 1
        <5> HIDE DEF rest
        <5>1. Len(lists[t]) >= 2
          <6> DEFINE n == Len(lists[t])
          <6>1. n \in Nat /\ 1 \in 1 .. n /\ n # 1
            BY <2>4, <4>1
          <6> HIDE DEF n
          <6>2. n >= 2
            BY <6>1
          <6> QED
            BY <6>2 DEF n
        <5> QED
          BY <2>4, <5>1
      <4> QED
        BY <4>1, <4>2
    <3> QED
      BY <3>1, <3>2
  <2>6. k \in OthersAt(lists[t], {emitter})
    BY <2>5 DEF OthersAt
  <2>7. FirstOther(lists[t], {emitter}) = it
    <3>1. PICK j \in DOMAIN lists[t] : /\ FirstOther(lists[t], {emitter}) = lists[t][j]
                                      /\ lists[t][j] \notin {emitter}
                                      /\ \A i \in DOMAIN lists[t] : i < j => lists[t][i] \in {emitter}
      BY <2>4, <2>6, FirstOtherIsFirst
    <3>2. ~(k < j) /\ ~(j < k)
      BY <2>5, <3>1
    <3>3. j = k
      BY <2>4, <3>2
    <3> QED
      BY <2>5, <3>1, <3>3
  <2>8. map.pos[it] = t
    BY <1>2, <1>3, <2>5, PlacesOnLists
  <2>9. \A u \in Tiles : u # t => Without(lists[u], it) = lists[u]
    BY <1>1, <1>2, <1>3, <2>8, WithoutAbsent DEF Represents
  <2>10. before[dest] = <<>>
    <3>1. Len(lists[dest]) = 0 /\ lists[dest] \in Seq(Players)
      BY <1>2, <1>3, <2>9
    <3> QED
      BY <2>3, <3>1
  <2>11. lists' = AfterExpulse(lists, t, dest, {emitter})
    <3>1. lists' = [lists EXCEPT ![t] = Without(@, it), ![dest] = PushFront(@, it)]
      BY <1>1, <1>2, <1>3, <2>9 DEF MovedLists
    <3> QED
      BY <2>6, <2>7, <3>1 DEF AfterExpulse
  <2>12. it' = Null
    BY <1>9
  <2> QED
    BY <1>1, <1>6, <2>3, <2>6, <2>10, <2>11, <2>12 DEF FirstMoved
<1>12. LoopInv'
  <2>1. FirstMoved(t)' \/ GoesRound'
    <3> HIDE DEF rest
    <3> QED
      BY <1>8, <1>10, <1>11
  <2> QED
    BY <1>1, <1>3, <1>6, <2>1 DEF LoopInv, t
<1> QED
  BY <1>1, <1>2, <1>5, <1>9, <1>12 DEF IndInv

LEMMA NextIndInv == IndInv /\ [Next]_vars => IndInv'
<1> SUFFICES ASSUME IndInv, [Next]_vars PROVE IndInv'
  OBVIOUS
<1>1. ASSUME NEW p \in Players, NEW t \in Tiles,
             game_register_player(p, t) \/ m_command_avance(p, t) \/ m_command_expulse(p, t)
      PROVE  IndInv'
  BY <1>1, IdleSteps, ExpulseStep
<1>2. ASSUME NEW p \in Players, game_player_die(p) PROVE IndInv'
  BY <1>2, IdleSteps, TileListAssumption
<1>3. CASE ExpulseLoop
  BY <1>3, PassStep, MoveStep
<1>4. CASE ExpulseDone
  BY <1>4, ExpulseDoneStep
<1>5. CASE UNCHANGED vars
  <2>1. Represents(map, lists, alive)'
    BY <1>5 DEF vars, IndInv, Represents, Linked
  <2>2. LoopInv'
    BY <1>5 DEF vars, IndInv, LoopInv, NobodyMoved, FirstMoved, GoesRound
  <2> QED
    BY <1>5, <2>1, <2>2 DEF vars, IndInv
<1> QED
  BY <1>1, <1>2, <1>3, <1>4, <1>5 DEF Next

(***************************************************************************)
(* The pointers, the loop variable of m_command_expulse and the lists have *)
(* their types in every state: no operation of game.c lets a pointer of a  *)
(* tile or a player lead to anything but a player or NULL.                 *)
(***************************************************************************)
THEOREM TypesCorrect == Spec => []TypeOK
<1>1. IndInv => TypeOK
  BY DEF IndInv, TypeOK, Represents, Maps, Pointer
<1> QED
  BY <1>1, InitIndInv, NextIndInv, PTL DEF Spec

(***************************************************************************)
(* tile.players, next_on_tile and prev_on_tile are at every moment the     *)
(* list of the tile, also between two rounds of the loop of                *)
(* m_command_expulse, and who is on no tile points nowhere.                *)
(***************************************************************************)
THEOREM PointersCorrect == Spec => []PointersAreLists
<1>1. IndInv => PointersAreLists
  BY DEF IndInv, PointersAreLists, Represents, Linked
<1> QED
  BY <1>1, InitIndInv, NextIndInv, PTL DEF Spec

(***************************************************************************)
(* m_game_add_player_to_tile and m_game_remove_player_from_tile keep every *)
(* player that lives on the list of the tile that its position names, once *)
(* and on no other, however they are combined.                             *)
(***************************************************************************)
THEOREM PlacesCorrect == Spec => []EachOnItsTile
<1>1. ASSUME IndInv PROVE EachOnItsTile
  <2>1. Represents(map, lists, alive)
    BY <1>1 DEF IndInv
  <2>2. \A t \in Tiles : \A i \in DOMAIN lists[t] :
           lists[t][i] \in alive /\ map.pos[lists[t][i]] = t
    BY <2>1, PlacesOnLists
  <2>3. \A p \in alive : OnTile(lists[map.pos[p]], p)
    BY <2>1, PlayerIsListed DEF OnTile
  <2>4. \A t \in Tiles : \A i, j \in DOMAIN lists[t] : lists[t][i] = lists[t][j] => i = j
    BY <2>1 DEF Represents, NoRepeats
  <2> QED
    BY <2>2, <2>3, <2>4 DEF EachOnItsTile
<1> QED
  BY <1>1, InitIndInv, NextIndInv, PTL DEF Spec

(***************************************************************************)
(* The loop of m_command_expulse comes to its end only after it has moved  *)
(* the first other player of the tile and nobody else, to a tile that was  *)
(* empty, or when there was nobody to be moved: Game uses that result in   *)
(* place of the loop.                                                      *)
(***************************************************************************)
THEOREM ExpulseCorrect == Spec => []ExpulseResult
<1>1. ASSUME IndInv PROVE ExpulseResult
  <2> SUFFICES ASSUME emitter # Null, it = Null
               PROVE  LET t == map.pos[emitter]
                      IN  /\ lists = AfterExpulse(before, t, dest, {emitter})
                          /\ ~ExpulseIsStuck(before, t, dest, {emitter})
    BY DEF ExpulseResult
  <2> DEFINE t == map.pos[emitter]
  <2>1. Represents(map, lists, alive) /\ emitter \in alive /\ dest \in Tiles
    BY <1>1 DEF IndInv
  <2>2. /\ t \in Tiles /\ Null \notin alive
        /\ lists[t] # <<>> /\ 1 \in DOMAIN lists[t] /\ DOMAIN lists[t] = 1 .. Len(lists[t])
        /\ lists[t][1] \in alive
    <3>1. t \in Tiles /\ lists[t] # <<>> /\ Null \notin alive
      BY <2>1, PlayerIsListed, TileListAssumption
    <3> QED
      BY <2>1, <3>1, PlacesOnLists
  <2>3. NobodyMoved(t) \/ FirstMoved(t) \/ GoesRound
    BY <1>1 DEF IndInv, LoopInv
  <2>4. CASE NobodyMoved(t)
    <3>1. lists = before /\ before[t][1] = emitter /\ (Len(before[t]) # 1 => before[t][2] = Null)
      BY <2>2, <2>4 DEF NobodyMoved
    <3>2. Len(lists[t]) = 1
      <4> SUFFICES ASSUME Len(lists[t]) # 1 PROVE FALSE
        OBVIOUS
      <4> DEFINE n == Len(lists[t])
      <4>1. n \in Nat /\ 1 \in 1 .. n /\ n # 1
        BY <2>1, <2>2, PlacesOnLists
      <4> HIDE DEF n
      <4>2. 2 \in 1 .. n
        BY <4>1
      <4>3. 2 \in DOMAIN lists[t]
        BY <2>2, <4>2 DEF n
      <4> QED
        BY <2>1, <2>2, <3>1, <4>3, PlacesOnLists
    <3>3. OthersAt(before[t], {emitter}) = {}
      BY <2>2, <3>1, <3>2 DEF OthersAt
    <3> QED
      BY <3>1, <3>3 DEF AfterExpulse, ExpulseIsStuck
  <2>5. CASE FirstMoved(t)
    BY <2>5 DEF FirstMoved, ExpulseIsStuck, OthersAt
  <2>6. CASE GoesRound
    <3>1. 2 \in DOMAIN lists[dest]
      BY <2>1, <2>6, PlacesOnLists DEF GoesRound
    <3> QED
      BY <2>1, <2>2, <2>6, <3>1, PlacesOnLists DEF GoesRound
  <2> QED
    BY <2>3, <2>4, <2>5, <2>6
<1> QED
  BY <1>1, InitIndInv, NextIndInv, PTL DEF Spec

=============================================================================
