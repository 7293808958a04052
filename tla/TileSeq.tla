------------------------------ MODULE TileSeq ------------------------------
(***************************************************************************)
(* The players of a tile as a sequence, first the one that tile.players    *)
(* points to: what the pointer operations of game.c do to it.  TileList    *)
(* checks that the pointers implement these operators; Game uses them.     *)
(***************************************************************************)
EXTENDS Naturals, Sequences, FiniteSetsExt

\* m_game_add_player_to_tile: the player becomes the first of the tile.
PushFront(s, p) == <<p>> \o s

\* m_game_remove_player_from_tile: the player leaves, the others keep their order.
Without(s, p) ==
    LET k == CHOOSE i \in DOMAIN s : s[i] = p
    IN  IF \E i \in DOMAIN s : s[i] = p
        THEN [i \in 1 .. Len(s) - 1 |-> IF i < k THEN s[i] ELSE s[i + 1]]
        ELSE s

OnTile(s, p) == \E i \in DOMAIN s : s[i] = p

(***************************************************************************)
(* What the loop of m_command_expulse does to the lists ls, for a player   *)
(* on tile t that faces tile d; it passes over the players in self, those  *)
(* that have the descriptor of the one who expels.  The first other player *)
(* of the tile is put on d; the walk then goes on through the list of d    *)
(* and, when it meets others there, goes round among them for ever.        *)
(***************************************************************************)
OthersAt(s, self) == {i \in DOMAIN s : s[i] \notin self}

FirstOther(s, self) == s[Min(OthersAt(s, self))]

ExpulseIsStuck(ls, t, d, self) == OthersAt(ls[t], self) # {} /\ OthersAt(ls[d], self) # {}

AfterExpulse(ls, t, d, self) ==
    IF OthersAt(ls[t], self) = {}
    THEN ls
    ELSE LET p == FirstOther(ls[t], self)
         IN  [ls EXCEPT ![t] = Without(@, p), ![d] = PushFront(@, p)]

=============================================================================
