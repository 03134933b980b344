----------------------------- MODULE BoundedFifo -----------------------------
(***************************************************************************)
(* What a bounded buffer shared by threads promises: items come out in the *)
(* order they went in, each once, and never more than Capacity are inside. *)
(***************************************************************************)
EXTENDS Naturals, Sequences

CONSTANTS Consumers, Items, Capacity

VARIABLES queue,        \* the items inside, oldest first
          got           \* got[c]: the last item consumer c took

vars == <<queue, got>>

Put(x) == /\ Len(queue) < Capacity
          /\ queue' = Append(queue, x)
          /\ UNCHANGED got

Get(c) == /\ queue # <<>>
          /\ got' = [got EXCEPT ![c] = Head(queue)]
          /\ queue' = Tail(queue)

Init == queue = <<>> /\ \E x \in Items : got = [c \in Consumers |-> x]

Next == \/ \E x \in Items : Put(x)
        \/ \E c \in Consumers : Get(c)

Spec == Init /\ [][Next]_vars
==============================================================================
