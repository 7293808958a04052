---------------------------- MODULE CommandDeque ----------------------------
(***************************************************************************)
(* What an event buffer promises to its owner: a bounded queue of items.   *)
(* New items go to the end, or are refused when the queue is full; running *)
(* takes the first one, which may leave a continuation that runs before    *)
(* everything else; the owner may drop the queue at any time.              *)
(***************************************************************************)
EXTENDS Sequences, Naturals

CONSTANTS Items, Capacity

VARIABLE pending

Init == pending = <<>>

Submit(x) == Len(pending) < Capacity /\ pending' = Append(pending, x)

Run == pending # <<>> /\ pending' = Tail(pending)

RunAndContinue(x) == pending # <<>> /\ pending' = <<x>> \o Tail(pending)

Drop == pending' = <<>>

Next ==
    \/ \E x \in Items : Submit(x) \/ RunAndContinue(x)
    \/ Run
    \/ Drop

Spec == Init /\ [][Next]_pending

=============================================================================
