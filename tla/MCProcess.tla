----------------------------- MODULE MCProcess -----------------------------
(***************************************************************************)
(* Process with files of up to three lines.                                *)
(***************************************************************************)
EXTENDS Process

MCLines ==
    [key : {"LIFE_UNIT_TO_TIME", "SPAWN_MORE_RESOURCES", "LOG_FILE_PATH", "#"}, val : {0, 5}]

MCFiles == UNION {[1 .. n -> MCLines] : n \in 0 .. 3}

=============================================================================
