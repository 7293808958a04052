----------------------------- MODULE MCTileList -----------------------------
(***************************************************************************)
(* TileList with three tiles in a ring and four players: enough for a list *)
(* with a first, a middle and a last player beside an occupied neighbour.  *)
(***************************************************************************)
EXTENDS TileList

CONSTANTS a, b, c, d

MCTiles == 0 .. 2

MCAdjacent == [t \in MCTiles |-> MCTiles \ {t}]

=============================================================================
