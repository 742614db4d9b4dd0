-------------------------------- MODULE Fifo --------------------------------
(***************************************************************************)
(* What a ring promises, whatever its indices, tags and doorbells: items   *)
(* come out in the order they went in, each once, and none is overwritten. *)
(* The receive and transmit rings of the network card, the TRB and event   *)
(* rings of the xHCI driver and the keyboard's buffer are shown to         *)
(* implement it.                                                           *)
(***************************************************************************)
EXTENDS Integers, Sequences

CONSTANTS
    Item,      \* what goes through the ring
    Capacity   \* how many items it holds

VARIABLES
    queue,     \* the items in it, oldest first
    out        \* the item taken out last

Init == queue = <<>>

Put(x) ==
    /\ Len(queue) < Capacity
    /\ queue' = Append(queue, x)
    /\ UNCHANGED out

Take ==
    /\ queue # <<>>
    /\ out' = Head(queue)
    /\ queue' = Tail(queue)

Next == Take \/ \E x \in Item : Put(x)

Spec == Init /\ [][Next]_<<queue, out>>
=============================================================================
