----------------------------- MODULE MCTimeApi -----------------------------
(***************************************************************************)
(* TimeApi on a small instance: three slots, so that a handful of commands *)
(* fills the buffer and wraps it around, two argument strings and a short  *)
(* clock.                                                                  *)
(***************************************************************************)
EXTENDS TimeApi

=============================================================================
