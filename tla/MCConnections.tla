--------------------------- MODULE MCConnections ---------------------------
(***************************************************************************)
(* Connections on a small instance: three clients and as many descriptors. *)
(* One client leaves, the second gets its descriptor, the third gets it    *)
(* again.                                                                  *)
(***************************************************************************)
EXTENDS Connections

=============================================================================
