------------------------------- MODULE FtList -------------------------------
(***************************************************************************)
(* The circular lists of ft_list.c, as the sequence of what their nodes    *)
(* hold, beginning with the node that the head points to.                  *)
(***************************************************************************)
EXTENDS Naturals, Sequences, SequencesExt

\* The node before the head of a circular list is its last one.
ft_list_add_last(list, x) == Append(list, x)

(***************************************************************************)
(* ft_list_get_first follows the prev pointers from the head until the     *)
(* next one would be the head again: the node it stops at comes after the  *)
(* head, and is the head only when there is no other (none, when the list  *)
(* is empty).                                                              *)
(***************************************************************************)
ft_list_get_first(list) == IF Len(list) >= 2 THEN 2 ELSE 1

\* What a walk with ft_list_get_next from there meets before it is at the head again.
Walked(list) == SubSeq(list, ft_list_get_first(list), Len(list))

=============================================================================
