-------------------------- MODULE MCClientSession --------------------------
(***************************************************************************)
(* ClientSession on small maps, with shorter queues than the code has: the *)
(* longest plan of a client is longer than the queue.                      *)
(***************************************************************************)
EXTENDS ClientSession

MCStarts == {<<<<1, 2>>, 1>>}

=============================================================================
