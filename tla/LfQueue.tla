------------------------------- MODULE LfQueue -------------------------------
(***************************************************************************)
(* The lock-free queue of lab4/lab4-out/partE/lf-queue.c: a linked list    *)
(* from front to rear that starts with a dummy node.  One action is one    *)
(* access to memory other threads use.  front and rear are _Atomic; a      *)
(* node's next and the size are plain.  An enqueue writes the last node's  *)
(* next BEFORE the compare-and-swap that makes its node the last.  A fresh *)
(* node's next is not initialised: NULL stands for that, and for any       *)
(* address that is no node's, and following it crashes the thread.  Nodes  *)
(* are never freed; their number bounds the enqueues.                      *)
(***************************************************************************)
EXTENDS Integers, Sequences

CONSTANTS Producers, Consumers, \* the threads that enqueue, that dequeue
          Nodes,                \* the addresses malloc can return
          Dummy,                \* the one that lf_queue_init got
          Values,               \* the integers that are enqueued
          NULL

ASSUME NodesAssumption == NULL \notin Nodes /\ Dummy \in Nodes
ASSUME ValuesAssumption == Values \subseteq Int
ASSUME RolesAssumption == Producers \cap Consumers = {}

VARIABLES front, rear, size,    \* lf_queue_t
          next, value,          \* the nodes' fields
          heap,                 \* addresses malloc has handed out
          pc,                   \* where each thread is
          node, old, oldrear, nxt, \* new; old_rear or old_front; old_rear; front_next
          tmp,                  \* the register of a size++ or size-- in flight
          ret,                  \* what each thread's last call returns
          queue                 \* history: the nodes in the queue, oldest first

shared == <<front, rear, size, next, value, heap, queue>>
locals == <<node, old, oldrear, nxt, tmp, ret>>
vars == <<shared, pc, locals>>

Threads == Producers \cup Consumers
NoValue == -1
Pointers == Nodes \cup {NULL}
Labels == {"idle", "enq_load", "enq_link", "enq_cas", "inc", "inc_store",
           "deq_front", "deq_rear", "deq_next", "deq_cas", "value", "dec", "dec_store",
           "return", "crash"}

Goto(t, from, to) == pc[t] = from /\ pc' = [pc EXCEPT ![t] = to]

-----------------------------------------------------------------------------
Init == /\ front = Dummy /\ rear = Dummy /\ size = 0 /\ queue = <<Dummy>>
        /\ heap = {Dummy}
        /\ next = [n \in Nodes |-> NULL]
        /\ value = [n \in Nodes |-> 0]
        /\ pc = [t \in Threads |-> "idle"]
        /\ node = [t \in Threads |-> NULL]
        /\ old = [t \in Threads |-> NULL]
        /\ oldrear = [t \in Threads |-> NULL]
        /\ nxt = [t \in Threads |-> NULL]
        /\ tmp = [t \in Threads |-> 0]
        /\ ret = [t \in Threads |-> NoValue]

(* The loop body's locals go out of scope at its end. *)
EndIteration(t) == /\ old' = [old EXCEPT ![t] = NULL]
                   /\ oldrear' = [oldrear EXCEPT ![t] = NULL]
                   /\ nxt' = [nxt EXCEPT ![t] = NULL]

(* malloc and new->value = value. *)
CallEnqueue(t, v) == /\ Goto(t, "idle", "enq_load")
                     /\ \E n \in Nodes \ heap : /\ heap' = heap \cup {n}
                                                /\ node' = [node EXCEPT ![t] = n]
                                                /\ value' = [value EXCEPT ![n] = v]
                     /\ ret' = [ret EXCEPT ![t] = NoValue]
                     /\ UNCHANGED <<front, rear, size, next, queue, old, oldrear, nxt, tmp>>

EnqLoad(t) == /\ Goto(t, "enq_load", "enq_link")
              /\ old' = [old EXCEPT ![t] = rear]
              /\ UNCHANGED <<shared, node, oldrear, nxt, tmp, ret>>

(* Mutant: the new node is linked to the old one instead of the other way. *)
LinkBackwards(t) == [next EXCEPT ![node[t]] = old[t]]
LinkForwards(t) == [next EXCEPT ![old[t]] = node[t]]

(* old_rear->next = new, whoever else may have linked there. *)
EnqLink(t) == /\ Goto(t, "enq_link", "enq_cas")
              /\ next' = LinkForwards(t)
              /\ UNCHANGED <<front, rear, size, value, heap, queue, locals>>

(* The compare-and-swap of the rear, or another turn of the loop, which only  *)
(* another producer can cause.                                                *)
EnqCas(t) == IF rear = old[t]
             THEN /\ Goto(t, "enq_cas", "inc")
                  /\ rear' = node[t]
                  /\ queue' = Append(queue, node[t])
                  /\ UNCHANGED <<front, size, next, value, heap, locals>>
             ELSE /\ Goto(t, "enq_cas", "enq_load")
                  /\ EndIteration(t)
                  /\ UNCHANGED <<shared, node, tmp, ret>>

(* queue->size++ and queue->size-- : a load ... *)
SizeLoad(t) == /\ Goto(t, "inc", "inc_store") \/ Goto(t, "dec", "dec_store")
               /\ tmp' = [tmp EXCEPT ![t] = size]
               /\ UNCHANGED <<shared, node, old, oldrear, nxt, ret>>

(* ... and a store. *)
SizeStore(t) == /\ \/ Goto(t, "inc_store", "return") /\ size' = tmp[t] + 1
                   \/ Goto(t, "dec_store", "return") /\ size' = tmp[t] - 1
                /\ tmp' = [tmp EXCEPT ![t] = 0]
                /\ UNCHANGED <<front, rear, next, value, heap, queue, node, old, oldrear, nxt, ret>>

CallDequeue(t) == /\ Goto(t, "idle", "deq_front")
                  /\ ret' = [ret EXCEPT ![t] = NoValue]
                  /\ UNCHANGED <<shared, node, old, oldrear, nxt, tmp>>

DeqFront(t) == /\ Goto(t, "deq_front", "deq_rear")
               /\ old' = [old EXCEPT ![t] = front]
               /\ UNCHANGED <<shared, node, oldrear, nxt, tmp, ret>>

DeqRear(t) == /\ Goto(t, "deq_rear", "deq_next")
              /\ oldrear' = [oldrear EXCEPT ![t] = rear]
              /\ UNCHANGED <<shared, node, old, nxt, tmp, ret>>

(* Mutant: a queue of two elements is taken for empty. *)
EmptyAtTwo(t) == oldrear[t] \in {old[t], next[old[t]]}
SeemsEmpty(t) == old[t] = oldrear[t]

(* old_front->next, followed even when front is no node; then the test for an *)
(* empty queue, whose answer is -1.                                           *)
DeqNext(t) == /\ pc[t] = "deq_next"
              /\ IF old[t] = NULL
                 THEN Goto(t, "deq_next", "crash") /\ UNCHANGED nxt
                 ELSE /\ Goto(t, "deq_next", IF SeemsEmpty(t) THEN "return" ELSE "deq_cas")
                      /\ nxt' = [nxt EXCEPT ![t] = next[old[t]]]
              /\ UNCHANGED <<shared, node, old, oldrear, tmp, ret>>

DeqCas(t) == \/ /\ front = old[t]
                /\ Goto(t, "deq_cas", "value")
                /\ front' = nxt[t]
                /\ queue' = Tail(queue)
                /\ UNCHANGED <<rear, size, next, value, heap, locals>>
             \/ /\ front # old[t]
                /\ Goto(t, "deq_cas", "deq_front")
                /\ EndIteration(t)
                /\ UNCHANGED <<shared, node, tmp, ret>>

(* Mutant: the value of the node that is now first. *)
NextValue(t) == value[nxt[t]]
OldValue(t) == value[old[t]]

(* value = old_front->value: the node taken off, which is the dummy's turn first. *)
DeqValue(t) == /\ Goto(t, "value", "dec")
               /\ ret' = [ret EXCEPT ![t] = OldValue(t)]
               /\ UNCHANGED <<shared, node, old, oldrear, nxt, tmp>>

Return(t) == /\ Goto(t, "return", "idle")
             /\ node' = [node EXCEPT ![t] = NULL]
             /\ EndIteration(t)
             /\ UNCHANGED <<shared, tmp, ret>>

Call(t) == \/ t \in Producers /\ \E v \in Values : CallEnqueue(t, v)
           \/ t \in Consumers /\ CallDequeue(t)
Continue(t) == \/ EnqLoad(t) \/ EnqLink(t) \/ EnqCas(t) \/ SizeLoad(t) \/ SizeStore(t)
               \/ DeqFront(t) \/ DeqRear(t) \/ DeqNext(t) \/ DeqCas(t) \/ DeqValue(t)
               \/ Return(t)

Next == \E t \in Threads : Call(t) \/ Continue(t)

Spec == Init /\ [][Next]_vars

-----------------------------------------------------------------------------
(* Every variable has its type. *)
TypeOK == /\ front \in Pointers
          /\ rear \in Nodes
          /\ size \in Int
          /\ next \in [Nodes -> Pointers]
          /\ value \in [Nodes -> Values \cup {0}]
          /\ heap \subseteq Nodes
          /\ pc \in [Threads -> Labels]
          /\ node \in [Threads -> Pointers]
          /\ old \in [Threads -> Pointers]
          /\ oldrear \in [Threads -> Pointers]
          /\ nxt \in [Threads -> Pointers]
          /\ tmp \in [Threads -> Int]
          /\ ret \in [Threads -> Values \cup {0, NoValue}]
          /\ queue \in Seq(Nodes)

(* With one producer the pointers from front to rear spell the nodes that     *)
(* were enqueued and not dequeued, in order: the link an enqueue writes       *)
(* before its compare-and-swap (line 31) is there when a dequeue that has     *)
(* seen the new rear follows it (line 46).                                    *)
ListRep == /\ queue # <<>> /\ front = queue[1] /\ rear = queue[Len(queue)]
           /\ \A i \in 1..(Len(queue) - 1) : next[queue[i]] = queue[i + 1]

(* No dequeue follows a next that was never written. *)
NoCrash == \A t \in Threads : pc[t] # "crash"

-----------------------------------------------------------------------------
(* A dequeue that loaded front and then found the same node at the rear took  *)
(* effect at that instant: the queue held one element.                        *)
FoundEmpty(t) == pc[t] = "deq_next" /\ old[t] = oldrear[t]
KindOf(t) == CASE pc[t] = "idle" -> "idle"
               [] pc[t] \in {"enq_load", "enq_link", "enq_cas"} -> "enqueue"
               [] pc[t] \in {"deq_front", "deq_rear", "deq_next", "deq_cas"}
                    /\ ~FoundEmpty(t) -> "dequeue"
               [] OTHER -> "done"
ValOf(t) == IF KindOf(t) = "enqueue" THEN value[node[t]]
            ELSE IF pc[t] = "value" THEN value[old[t]]
            ELSE ret[t]
absQueue == [i \in 1..Len(queue) |-> value[queue[i]]]
absOp == [t \in Threads |-> [kind |-> KindOf(t), val |-> ValOf(t)]]
Abs == INSTANCE AbstractQueue WITH queue <- absQueue, op <- absOp

(* With one producer every call takes effect atomically between its call and  *)
(* its return, as AbstractQueue says.                                         *)
ImplementsQueue == Abs!Spec
==============================================================================
