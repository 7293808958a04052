------------------------------- MODULE MCGame -------------------------------
(***************************************************************************)
(* Instances of Game.  The commands have no delays here: only the second   *)
(* half of an incantation is not due at once, and keeps the commands of    *)
(* its player waiting behind it.  MCTimeApi has delays of commands.        *)
(*                                                                         *)
(* World: three players of two clients, which may log in twice.  One takes *)
(* and lays down food, eats and expels (expulse may hang), the other       *)
(* incants; food comes back.                                               *)
(*                                                                         *)
(* Ritual: two players that arrive on the tile with the stones of two      *)
(* elevations, so that both may be in an incantation at once; one walks,   *)
(* the other turns and expels.                                             *)
(***************************************************************************)
EXTENDS Game

MCOrigin == <<0, 0>>

MCOneTile(inv) == [t \in Tiles |-> IF t = MCOrigin THEN inv ELSE NoItems]

MCTwoElevations == {MCOneTile([r \in Resources |-> 2 * Requisites(1).inv[r]])}

MCElevationAndFood == {MCOneTile([Requisites(1).inv EXCEPT !["nourriture"] = 1])}

MCFood == {NoItems, [NoItems EXCEPT !["nourriture"] = 1]}

MCNoSpawn == {NoItems}

MCNoDelay == [c \in AllCommands |-> 0]

\* Commands without an argument.
MCPlain(names) == names \X {NoArg}

MCWorldSends ==
    (4 :> MCPlain({"connect_nbr", "incantation"}))
    @@ (5 :> MCPlain({"expulse"}) \cup {<<"prend", "nourriture">>, <<"pose", "nourriture">>})

MCRitualSends ==
    (4 :> MCPlain({"incantation", "gauche", "expulse"}))
    @@ (5 :> MCPlain({"incantation", "avance"}))

MCOnePlace == {<<MCOrigin, 1>>}

=============================================================================
