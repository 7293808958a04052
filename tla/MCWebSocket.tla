---------------------------- MODULE MCWebSocket ----------------------------
(***************************************************************************)
(* WebSocket for conversations of two or three frames.                     *)
(***************************************************************************)
EXTENDS WebSocket

MCConversations ==
    {<<kind, "text">> : kind \in Kinds} \cup {<<"text", "long", "text">>, <<"text", "text", "text">>}

=============================================================================
