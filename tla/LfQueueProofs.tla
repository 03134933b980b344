---------------------------- MODULE LfQueueProofs ----------------------------
(***************************************************************************)
(* Proofs about LfQueue with one producer and any number of consumers, and *)
(* about LfQueueTest with any number of threads and any TESTSIZE.          *)
(***************************************************************************)
EXTENDS LfQueueTest, ProofFacts

-----------------------------------------------------------------------------
(***************************************************************************)
(* What holds of the queue whoever enqueues, as long as the first node's   *)
(* link is right when a dequeue follows it (FirstLink).                    *)
(***************************************************************************)
Enqueuing == {t \in Threads : pc[t] \in {"enq_load", "enq_link", "enq_cas"}}
(* The threads whose dequeue has loaded front, and those that will use it again. *)
HoldingFront == {t \in Threads : pc[t] \in {"deq_rear", "deq_next", "deq_cas"}}
HoldingOld == HoldingFront \cup {t \in Threads : pc[t] = "value"}
InQueue == {queue[i] : i \in 1..Len(queue)}
Private == {node[t] : t \in Enqueuing}

(* Producers enqueue, consumers dequeue, and no thread has crashed. *)
RolesOK ==
  /\ \A t \in Producers : pc[t] \in {"idle", "enq_load", "enq_link", "enq_cas", "inc",
                                     "inc_store", "return"}
  /\ \A t \in Consumers : pc[t] \in {"idle", "deq_front", "deq_rear", "deq_next", "deq_cas",
                                     "value", "dec", "dec_store", "return"}

(* The queue is made of allocated nodes, each once; front and rear are its ends. *)
EndsOK == /\ queue # <<>> /\ front = queue[1] /\ rear = queue[Len(queue)]
          /\ \A i, j \in 1..Len(queue) : i # j => queue[i] # queue[j]
          /\ InQueue \subseteq heap

(* A node being enqueued is its thread's own, and not in the queue. *)
PrivateOK == \A t \in Enqueuing : /\ node[t] \in heap \ InQueue
                                  /\ \A u \in Enqueuing : node[u] = node[t] => u = t

(* What an enqueue writes to is a node. *)
OldRearOK == \A t \in Threads : pc[t] \in {"enq_link", "enq_cas"} => old[t] \in Nodes

(* What a dequeue took for the front is a published node that is still the    *)
(* front or has left the queue.                                               *)
OldFrontOK == /\ \A t \in HoldingOld : old[t] \in heap \ Private
              /\ \A t \in HoldingFront : old[t] = front \/ old[t] \notin InQueue

(* As long as it is the front, the rear seen after it is in the queue, and    *)
(* what a dequeue is about to install is the second node.                     *)
SeenOK == \A t \in Threads : old[t] = front =>
            /\ pc[t] = "deq_next" => oldrear[t] \in InQueue
            /\ pc[t] = "deq_cas" => Len(queue) > 1 /\ nxt[t] = queue[2]

Base == TypeOK /\ RolesOK /\ EndsOK /\ PrivateOK /\ OldRearOK /\ OldFrontOK /\ SeenOK

FirstLink == Len(queue) > 1 /\ (\E t \in Threads : pc[t] = "deq_next")
               => next[queue[1]] = queue[2]


LEMMA BaseInit == Init => Base
  <1> SUFFICES ASSUME Init PROVE Base
    OBVIOUS
  <1>1. TypeOK
    BY NodesAssumption DEF Init, TypeOK, Pointers, Labels, NoValue, Threads
  <1>2. queue = <<Dummy>> /\ Len(queue) = 1 /\ queue[1] = Dummy /\ heap = {Dummy}
    BY DEF Init
  <1>3. EndsOK
    BY <1>2 DEF Init, EndsOK, InQueue
  <1>4. \A t \in Threads : pc[t] = "idle"
    BY DEF Init
  <1>5. QED
    BY <1>1, <1>3, <1>4 DEF Base, RolesOK, PrivateOK, OldRearOK, OldFrontOK, SeenOK,
                            Enqueuing, HoldingFront, HoldingOld, Threads

(* The length and the elements of the queue. *)
LEMMA QueueFacts ==
  ASSUME Base
  PROVE  /\ Len(queue) \in Nat \ {0} /\ 1 \in 1..Len(queue) /\ Len(queue) \in 1..Len(queue)
         /\ \A i \in 1..Len(queue) : queue[i] \in Nodes /\ queue[i] \in InQueue
         /\ front \in Nodes /\ front \in InQueue /\ rear \in InQueue
  <1>1. Len(queue) \in Nat \ {0}
    BY EmptySeq DEF Base, EndsOK, TypeOK
  <1>2. 1 \in 1..Len(queue) /\ Len(queue) \in 1..Len(queue)
    BY <1>1
  <1>3. \A i \in 1..Len(queue) : queue[i] \in Nodes /\ queue[i] \in InQueue
    BY <1>1 DEF Base, TypeOK, InQueue
  <1>4. QED
    BY <1>1, <1>2, <1>3 DEF Base, EndsOK

(* A step that leaves the queue, the heap and the enqueues' nodes alone. *)
LEMMA QuietStep ==
  ASSUME Base, UNCHANGED <<front, rear, heap, queue>>,
         Enqueuing' \subseteq Enqueuing, \A u \in Enqueuing' : node'[u] = node[u]
  PROVE  EndsOK' /\ PrivateOK' /\ InQueue' = InQueue /\ Private' \subseteq Private
  <1>1. InQueue' = InQueue /\ EndsOK'
    BY DEF Base, InQueue, EndsOK
  <1>2. PrivateOK'
    BY <1>1 DEF Base, PrivateOK
  <1>3. Private' \subseteq Private
    BY DEF Private
  <1>4. QED
    BY <1>1, <1>2, <1>3

QuietOf(t) == \/ CallDequeue(t) \/ EnqLoad(t) \/ EnqLink(t) \/ SizeLoad(t) \/ SizeStore(t)
              \/ DeqFront(t) \/ DeqRear(t) \/ DeqNext(t) \/ DeqValue(t) \/ Return(t)
              \/ EnqCas(t) /\ rear # old[t]
              \/ DeqCas(t) /\ front # old[t]

LEMMA QuietType ==
  ASSUME Base, NEW t \in Threads, QuietOf(t), CallDequeue(t) => t \in Consumers
  PROVE  TypeOK' /\ RolesOK'
  <1> USE DEF Base, TypeOK, RolesOK, OldFrontOK, Goto, EndIteration, Pointers, Labels, NoValue, shared, locals
  <1>1. CASE CallDequeue(t)
    BY <1>1, RolesAssumption DEF CallDequeue
  <1>2. CASE EnqLoad(t)
    BY <1>2 DEF EnqLoad
  <1>3. CASE EnqLink(t)
    BY <1>3 DEF EnqLink, LinkForwards, OldRearOK
  <1>4. CASE SizeLoad(t)
    <2>1. CASE Goto(t, "inc", "inc_store")
      BY <1>4, <2>1 DEF SizeLoad
    <2>2. CASE Goto(t, "dec", "dec_store")
      BY <1>4, <2>2 DEF SizeLoad
    <2>3. QED
      BY <1>4, <2>1, <2>2 DEF SizeLoad
  <1>5. CASE SizeStore(t)
    <2>1. CASE Goto(t, "inc_store", "return") /\ size' = tmp[t] + 1
      BY <1>5, <2>1 DEF SizeStore
    <2>2. CASE Goto(t, "dec_store", "return") /\ size' = tmp[t] - 1
      BY <1>5, <2>2 DEF SizeStore
    <2>3. QED
      BY <1>5, <2>1, <2>2 DEF SizeStore
  <1>6. CASE DeqFront(t)
    BY <1>6 DEF DeqFront
  <1>7. CASE DeqRear(t)
    BY <1>7 DEF DeqRear
  <1>8. CASE DeqNext(t)
    <2>1. old[t] \in Nodes
      BY <1>8 DEF DeqNext, HoldingOld, HoldingFront
    <2>2. \E l \in {"return", "deq_cas"} : Goto(t, "deq_next", l)
      BY <1>8, <2>1, NodesAssumption DEF DeqNext
    <2>3. nxt' = [nxt EXCEPT ![t] = next[old[t]]] /\ UNCHANGED <<shared, node, old, oldrear, tmp, ret>>
      BY <1>8, <2>1, NodesAssumption DEF DeqNext
    <2>4. TypeOK'
      BY <2>1, <2>2, <2>3
    <2>5. RolesOK'
      BY <2>2
    <2>6. QED
      BY <2>4, <2>5
  <1>9. CASE DeqValue(t)
    <2>1. old[t] \in Nodes
      BY <1>9 DEF DeqValue, HoldingOld
    <2>2. QED
      BY <1>9, <2>1 DEF DeqValue, OldValue
  <1>10. CASE Return(t)
    BY <1>10 DEF Return
  <1>11. CASE EnqCas(t) /\ rear # old[t]
    <2>1. Goto(t, "enq_cas", "enq_load") /\ EndIteration(t) /\ UNCHANGED <<shared, node, tmp, ret>>
      BY <1>11 DEF EnqCas
    <2>2. TypeOK'
      BY <2>1
    <2>3. RolesOK'
      BY <2>1
    <2>4. QED
      BY <2>2, <2>3
  <1>12. CASE DeqCas(t) /\ front # old[t]
    <2>1. Goto(t, "deq_cas", "deq_front") /\ EndIteration(t) /\ UNCHANGED <<shared, node, tmp, ret>>
      BY <1>12 DEF DeqCas
    <2>2. TypeOK'
      BY <2>1
    <2>3. RolesOK'
      BY <2>1
    <2>4. QED
      BY <2>2, <2>3
  <1>13. QED
    BY <1>1, <1>2, <1>3, <1>4, <1>5, <1>6, <1>7, <1>8, <1>9, <1>10, <1>11, <1>12 DEF QuietOf

LEMMA QuietBase ==
  ASSUME Base, FirstLink, NEW t \in Threads, QuietOf(t), CallDequeue(t) => t \in Consumers
  PROVE  Base'
  <1> USE DEF Goto, EndIteration, shared, locals, Enqueuing
  <1>1. TypeOK' /\ RolesOK' /\ TypeOK /\ RolesOK
    BY QuietType DEF Base
  <1>2. UNCHANGED <<front, rear, heap, queue>>
    BY DEF QuietOf, CallDequeue, EnqLoad, EnqLink, SizeLoad, SizeStore, DeqFront, DeqRear,
           DeqNext, DeqValue, Return, EnqCas, DeqCas
  <1>3. Enqueuing' \subseteq Enqueuing /\ \A u \in Enqueuing' : node'[u] = node[u]
    BY <1>1 DEF TypeOK, QuietOf, CallDequeue, EnqLoad, EnqLink, SizeLoad, SizeStore, DeqFront, DeqRear,
           DeqNext, DeqValue, Return, EnqCas, DeqCas
  <1>4. EndsOK' /\ PrivateOK' /\ InQueue' = InQueue /\ Private' \subseteq Private
    BY <1>2, <1>3, QuietStep
  <1>5. OldRearOK'
    BY <1>1, SMTT(30) DEF Base, OldRearOK, TypeOK, QuietOf, CallDequeue, EnqLoad, EnqLink, SizeLoad, SizeStore,
           DeqFront, DeqRear, DeqNext, DeqValue, Return, EnqCas, DeqCas
  <1>6. front \in heap \ Private
    BY QueueFacts DEF Base, EndsOK, PrivateOK, Private
  <1>7. OldFrontOK'
    <2>1. \A u \in HoldingOld' : (u \in HoldingOld /\ old'[u] = old[u]) \/ old'[u] = front
      BY <1>1 DEF HoldingOld, HoldingFront, TypeOK, QuietOf, CallDequeue, EnqLoad, EnqLink,
           SizeLoad, SizeStore, DeqFront, DeqRear, DeqNext, DeqValue, Return, EnqCas, DeqCas
    <2>2. \A u \in HoldingFront' : (u \in HoldingFront /\ old'[u] = old[u]) \/ old'[u] = front
      BY <1>1 DEF HoldingFront, TypeOK, QuietOf, CallDequeue, EnqLoad, EnqLink,
           SizeLoad, SizeStore, DeqFront, DeqRear, DeqNext, DeqValue, Return, EnqCas, DeqCas
    <2>3. QED
      BY <1>2, <1>4, <1>6, <2>1, <2>2 DEF Base, OldFrontOK
  <1>8. SeenOK'
    <2>1. CASE DeqNext(t)
      <3>1. /\ pc[t] = "deq_next" /\ t \in HoldingOld /\ old' = old /\ oldrear' = oldrear
            /\ \A u \in Threads : u # t => pc'[u] = pc[u] /\ nxt'[u] = nxt[u]
        BY <1>1, <2>1 DEF DeqNext, HoldingOld, HoldingFront, TypeOK
      <3>2. old[t] # NULL
        BY <3>1, NodesAssumption DEF Base, OldFrontOK, TypeOK
      <3>3. pc'[t] # "deq_next" /\ (pc'[t] = "deq_cas" => ~SeemsEmpty(t) /\ nxt'[t] = next[old[t]])
        BY <1>1, <2>1, <3>2 DEF DeqNext, TypeOK
      <3>4. ASSUME old[t] = front, ~SeemsEmpty(t) PROVE Len(queue) > 1 /\ next[front] = queue[2]
        <4>1. oldrear[t] \in InQueue /\ oldrear[t] # queue[1]
          BY <3>1, <3>4 DEF Base, SeenOK, EndsOK, SeemsEmpty
        <4>2. Len(queue) > 1
          BY <4>1, QueueFacts DEF InQueue
        <4>3. QED
          BY <3>1, <4>2 DEF FirstLink, Base, EndsOK
      <3>5. QED
        BY <1>2, <1>4, <3>1, <3>3, <3>4 DEF Base, SeenOK
    <2>2. CASE ~DeqNext(t)
      BY <1>1, <1>2, <1>4, <2>2, QueueFacts, SMTT(40) DEF Base, SeenOK, TypeOK, QuietOf, CallDequeue, EnqLoad, EnqLink,
           SizeLoad, SizeStore, DeqFront, DeqRear, DeqValue, Return, EnqCas, DeqCas
    <2>3. QED
      BY <2>1, <2>2
  <1>9. QED
    BY <1>1, <1>4, <1>5, <1>7, <1>8 DEF Base

(* A fresh node is in nobody's hands. *)
LEMMA CallEnqueueBase ==
  ASSUME Base, NEW t \in Producers, NEW v \in Values, CallEnqueue(t, v)
  PROVE  Base'
  <1> USE DEF Goto
  <1>1. PICK n \in Nodes \ heap : /\ heap' = heap \cup {n}
                                  /\ node' = [node EXCEPT ![t] = n]
                                  /\ value' = [value EXCEPT ![n] = v]
    BY DEF CallEnqueue
  <1>2. /\ pc[t] = "idle" /\ pc' = [pc EXCEPT ![t] = "enq_load"]
        /\ ret' = [ret EXCEPT ![t] = NoValue]
        /\ UNCHANGED <<front, rear, size, next, queue, old, oldrear, nxt, tmp>>
    BY DEF CallEnqueue
  <1>3. TypeOK'
    BY <1>1, <1>2, ValuesAssumption DEF Base, TypeOK, Labels, Pointers, NoValue, Threads
  <1>4. RolesOK'
    BY <1>2, RolesAssumption DEF Base, RolesOK, TypeOK, Threads
  <1>5. InQueue' = InQueue /\ InQueue \subseteq heap
    BY <1>2 DEF Base, EndsOK, InQueue
  <1>6. EndsOK'
    BY <1>1, <1>2, <1>5 DEF Base, EndsOK
  <1>7. Enqueuing' = Enqueuing \cup {t} /\ t \notin Enqueuing /\ t \in Threads
    BY <1>2 DEF Base, TypeOK, Enqueuing, Threads
  <1>8. node'[t] = n /\ \A u \in Enqueuing : node'[u] = node[u]
    BY <1>1, <1>7 DEF Base, TypeOK, Enqueuing
  <1>9. \A u \in Enqueuing : node[u] \in heap /\ node[u] # n
    BY <1>1 DEF Base, PrivateOK
  <1>10. PrivateOK'
    BY <1>1, <1>5, <1>7, <1>8, <1>9 DEF Base, PrivateOK
  <1>11. Private' = Private \cup {n}
    BY <1>7, <1>8 DEF Private
  <1>12. OldRearOK' /\ HoldingOld' = HoldingOld /\ HoldingFront' = HoldingFront
    BY <1>2, <1>7 DEF Base, OldRearOK, TypeOK, HoldingOld, HoldingFront
  <1>13. OldFrontOK'
    BY <1>1, <1>2, <1>5, <1>11, <1>12 DEF Base, OldFrontOK
  <1>14. SeenOK'
    BY <1>2, <1>5, <1>7 DEF Base, SeenOK, TypeOK
  <1>15. QED
    BY <1>3, <1>4, <1>6, <1>10, <1>12, <1>13, <1>14 DEF Base

(* The compare-and-swap of the rear that hits. *)
LEMMA EnqCasBase ==
  ASSUME Base, NEW t \in Threads, EnqCas(t), rear = old[t]
  PROVE  Base'
  <1> USE DEF Goto
  <1>1. /\ pc[t] = "enq_cas" /\ pc' = [pc EXCEPT ![t] = "inc"]
        /\ rear' = node[t] /\ queue' = Append(queue, node[t])
        /\ UNCHANGED <<front, size, next, value, heap, locals>>
    BY DEF EnqCas
  <1>2. t \in Enqueuing /\ node[t] \in heap /\ node[t] \in Nodes /\ node[t] \notin InQueue
    BY <1>1 DEF Base, PrivateOK, Enqueuing, TypeOK
  <1> DEFINE n == Len(queue)
  <1>3. /\ n \in Nat \ {0} /\ queue' # <<>> /\ Len(queue') = n + 1
        /\ \A i \in 1..n : queue'[i] = queue[i]
        /\ queue'[n + 1] = node[t]
        /\ InQueue' = InQueue \cup {node[t]}
    BY <1>1, <1>2, AppendFacts, QueueFacts DEF Base, TypeOK, InQueue
  <1>4. queue' \in Seq(Nodes)
    BY <1>1, <1>2, AppendProperties DEF Base, TypeOK
  <1>5. TypeOK'
    BY <1>1, <1>2, <1>4 DEF Base, TypeOK, Labels, locals
  <1>6. RolesOK'
    BY <1>1 DEF Base, RolesOK, TypeOK, Threads
  <1>7. EndsOK'
    <2>1. front' = queue'[1] /\ rear' = queue'[Len(queue')]
      BY <1>1, <1>3 DEF Base, EndsOK
    <2>2. \A i \in 1..n : queue[i] # node[t]
      BY <1>2 DEF InQueue
    <2> HIDE DEF n
    <2>3. \A i, j \in 1..(n + 1) : i # j => queue'[i] # queue'[j]
      <3>1. \A i, j \in 1..n : i # j => queue'[i] # queue'[j]
        BY <1>3 DEF Base, EndsOK, n
      <3>2. \A i \in 1..(n + 1) : i \in 1..n \/ i = n + 1
        BY <1>3
      <3>3. QED
        BY <1>3, <2>2, <3>1, <3>2
    <2>4. QED
      BY <1>1, <1>2, <1>3, <2>1, <2>3 DEF Base, EndsOK
  <1>8. Enqueuing' = Enqueuing \ {t} /\ node' = node
    BY <1>1 DEF Base, TypeOK, Enqueuing, locals
  <1>9. PrivateOK'
    BY <1>1, <1>2, <1>3, <1>8 DEF Base, PrivateOK
  <1>10. Private' \subseteq Private /\ node[t] \in Private
    BY <1>2, <1>8 DEF Private
  <1>11. HoldingOld' = HoldingOld /\ HoldingFront' = HoldingFront /\ old' = old
    BY <1>1 DEF Base, TypeOK, HoldingOld, HoldingFront, locals
  <1>12. OldRearOK'
    BY <1>1 DEF Base, OldRearOK, TypeOK, locals
  <1>13. \A u \in HoldingFront : old[u] # node[t]
    BY <1>10 DEF Base, OldFrontOK, HoldingOld
  <1>14. OldFrontOK'
    BY <1>1, <1>3, <1>10, <1>11, <1>13 DEF Base, OldFrontOK
  <1>15. SeenOK'
    BY <1>1, <1>3 DEF Base, SeenOK, TypeOK, locals
  <1>16. QED
    BY <1>5, <1>6, <1>7, <1>9, <1>12, <1>14, <1>15 DEF Base

(* The compare-and-swap of the front that hits. *)
LEMMA DeqCasBase ==
  ASSUME Base, NEW t \in Threads, DeqCas(t), front = old[t]
  PROVE  /\ Base' /\ queue' = Tail(queue) /\ Len(queue) > 1 /\ front' = queue[2]
         /\ Len(queue') = Len(queue) - 1
         /\ \A i \in 1..Len(queue') : i + 1 \in 1..Len(queue) /\ queue'[i] = queue[i + 1]
  <1> USE DEF Goto
  <1>1. /\ pc[t] = "deq_cas" /\ pc' = [pc EXCEPT ![t] = "value"]
        /\ front' = nxt[t] /\ queue' = Tail(queue)
        /\ UNCHANGED <<rear, size, next, value, heap, locals>>
    BY DEF DeqCas
  <1>2. Len(queue) > 1 /\ nxt[t] = queue[2]
    BY <1>1 DEF Base, SeenOK
  <1> DEFINE n == Len(queue)
  <1>3. /\ queue' \in Seq(Nodes) /\ n \in Nat \ {0} /\ Len(queue') = n - 1
        /\ \A i \in 1..Len(queue') : i + 1 \in 1..n /\ queue'[i] = queue[i + 1]
        /\ InQueue' = InQueue \ {front}
    <2>1. /\ queue \in Seq(Nodes) /\ queue # <<>> /\ front = queue[1]
          /\ \A i, j \in 1..Len(queue) : i # j => queue[i] # queue[j]
      BY DEF Base, TypeOK, EndsOK
    <2> DEFINE r == Tail(queue)
    <2> HIDE DEF r
    <2>2. /\ r \in Seq(Nodes) /\ n \in Nat \ {0} /\ Len(r) = n - 1
          /\ \A i \in 1..Len(r) : i + 1 \in 1..n /\ r[i] = queue[i + 1]
          /\ {r[i] : i \in 1..Len(r)} = {queue[i] : i \in 1..n} \ {queue[1]}
      BY ONLY <2>1, TailFacts DEF r
    <2>3. queue' = r
      BY <1>1 DEF r
    <2>4. InQueue' = {r[i] : i \in 1..Len(r)}
      BY <2>3 DEF InQueue
    <2>5. InQueue' = InQueue \ {front}
      BY <2>1, <2>2, <2>4 DEF InQueue
    <2>6. QED
      BY <2>2, <2>3, <2>5
  <1>4. front' = queue'[1] /\ front' \in Nodes /\ front' \in InQueue' /\ front' # front
    <2>1. 2 \in 1..n /\ 1 \in 1..n /\ 1 \in 1..Len(queue')
      BY <1>2, <1>3
    <2>2. queue[2] # queue[1] /\ queue[2] \in Nodes
      <3>1. queue[2] \in Nodes
        BY <2>1, QueueFacts
      <3>2. queue[2] # queue[1]
        <4>1. \A i, j \in 1..n : i # j => queue[i] # queue[j]
          BY DEF Base, EndsOK
        <4> HIDE DEF n
        <4>2. QED
          BY <2>1, <4>1
      <3>3. QED
        BY <3>1, <3>2
    <2>3. 1 + 1 = 2 /\ queue'[1] = queue[1 + 1]
      BY <1>3, <2>1
    <2>4. queue'[1] = queue[2] /\ queue'[1] \in InQueue'
      BY <2>1, <2>3 DEF InQueue
    <2>5. QED
      BY <1>1, <1>2, <2>2, <2>4 DEF Base, EndsOK
  <1>5. TypeOK'
    BY <1>1, <1>3, <1>4 DEF Base, TypeOK, Labels, Pointers, locals
  <1>6. RolesOK'
    BY <1>1 DEF Base, RolesOK, TypeOK, Threads
  <1>7. EndsOK'
    <2>1. queue' # <<>>
      BY <1>2, <1>3
    <2>2. rear' = queue'[Len(queue')]
      <3>1. Len(queue') \in 1..Len(queue') /\ Len(queue') + 1 = n
        BY <1>2, <1>3
      <3>2. queue'[Len(queue')] = queue[n]
        BY <1>3, <3>1
      <3>3. rear = queue[n] /\ rear' = rear
        BY <1>1 DEF Base, EndsOK
      <3>4. QED
        BY <3>2, <3>3
    <2>3. ASSUME NEW i \in 1..Len(queue'), NEW j \in 1..Len(queue'), i # j
          PROVE  queue'[i] # queue'[j]
      <3>1. i + 1 \in 1..n /\ j + 1 \in 1..n /\ i + 1 # j + 1
        BY <1>3, <2>3
      <3>2. QED
        BY <1>3, <3>1 DEF Base, EndsOK
    <2>4. QED
      BY <1>1, <1>3, <1>4, <2>1, <2>2, <2>3 DEF Base, EndsOK
  <1>8. Enqueuing' = Enqueuing /\ node' = node
    BY <1>1 DEF Base, TypeOK, Enqueuing, locals
  <1>9. PrivateOK' /\ Private' = Private
    BY <1>1, <1>3, <1>8 DEF Base, PrivateOK, Private
  <1>10. HoldingOld' = HoldingOld /\ HoldingFront' = HoldingFront \ {t} /\ old' = old
    BY <1>1 DEF Base, TypeOK, HoldingOld, HoldingFront, locals
  <1>11. OldRearOK'
    BY <1>1 DEF Base, OldRearOK, TypeOK, locals
  <1>12. OldFrontOK'
    BY <1>1, <1>3, <1>9, <1>10 DEF Base, OldFrontOK
  <1>13. SeenOK'
    <2>1. ASSUME NEW u \in Threads, pc'[u] \in {"deq_next", "deq_cas"} PROVE old'[u] # front'
      <3>1. u \in HoldingFront
        BY <1>1, <2>1 DEF Base, TypeOK, HoldingFront
      <3>2. old[u] = front \/ old[u] \notin InQueue
        BY <3>1 DEF Base, OldFrontOK
      <3>3. QED
        BY <1>3, <1>4, <1>10, <3>2
    <2>2. QED
      BY <2>1 DEF SeenOK
  <1>14. QED
    BY <1>1, <1>2, <1>3, <1>5, <1>6, <1>7, <1>9, <1>11, <1>12, <1>13 DEF Base

LEMMA BaseNext ==
  ASSUME Base, FirstLink, [Next]_vars PROVE Base'
  <1>1. ASSUME NEW t \in Threads, Call(t) PROVE Base'
    <2>1. CASE t \in Producers /\ \E v \in Values : CallEnqueue(t, v)
      BY <2>1, CallEnqueueBase
    <2>2. CASE t \in Consumers /\ CallDequeue(t)
      BY <2>2, QuietBase DEF QuietOf
    <2>3. QED
      BY <1>1, <2>1, <2>2 DEF Call
  <1>2. ASSUME NEW t \in Threads, Continue(t) PROVE Base'
    <2>1. CASE EnqCas(t) /\ rear = old[t]
      BY <2>1, EnqCasBase
    <2>2. CASE DeqCas(t) /\ front = old[t]
      BY <2>2, DeqCasBase
    <2>3. CASE ~(EnqCas(t) /\ rear = old[t]) /\ ~(DeqCas(t) /\ front = old[t])
      <3>1. QuietOf(t) /\ pc[t] # "idle"
        BY <1>2, <2>3 DEF Continue, QuietOf, Goto, EnqLoad, EnqLink, EnqCas, SizeLoad, SizeStore, DeqFront,
                          DeqRear, DeqNext, DeqCas, DeqValue, Return
      <3>2. CallDequeue(t) => t \in Consumers
        BY <3>1 DEF CallDequeue, Goto
      <3>3. QED
        BY <3>1, <3>2, QuietBase
    <2>4. QED
      BY <2>1, <2>2, <2>3
  <1>3. CASE UNCHANGED vars
    BY <1>3 DEF vars, shared, locals, Base, TypeOK, RolesOK, EndsOK, PrivateOK, OldRearOK, OldFrontOK, SeenOK,
                InQueue, Private, Enqueuing, HoldingOld, HoldingFront
  <1>4. QED
    BY <1>1, <1>2, <1>3 DEF Next
-----------------------------------------------------------------------------
(***************************************************************************)
(* One producer: the list that next spells is the queue.                   *)
(***************************************************************************)
OneProducer == \A s, t \in Producers : s = t

(* Nobody else moves the rear between the one enqueue's load of it and its    *)
(* compare-and-swap, which therefore never misses.                            *)
LinkOK == /\ \A t \in Threads : pc[t] \in {"enq_link", "enq_cas"} => old[t] = rear
          /\ \A t \in Threads : pc[t] = "enq_cas" => next[rear] = node[t]

Single == Base /\ ListRep /\ LinkOK

LEMMA SingleInit == Init => Single
  <1> SUFFICES ASSUME Init PROVE Single
    OBVIOUS
  <1>1. Base
    BY BaseInit
  <1>2. queue = <<Dummy>> /\ Len(queue) = 1 /\ queue[1] = Dummy
    BY DEF Init
  <1>3. ListRep
    BY <1>2 DEF Init, ListRep
  <1>4. LinkOK
    BY DEF Init, LinkOK
  <1>5. QED
    BY <1>1, <1>3, <1>4 DEF Single

LEMMA SingleFirstLink == Single => FirstLink
  BY QueueFacts DEF Single, ListRep, FirstLink

(* At most one thread enqueues. *)
LEMMA OneEnqueuing ==
  ASSUME OneProducer, Base
  PROVE  \A s, t \in Enqueuing : s = t
  <1>1. \A t \in Threads : t \in Enqueuing => t \in Producers
    BY DEF Base, RolesOK, Enqueuing, Threads
  <1>2. QED
    BY <1>1 DEF OneProducer, Enqueuing

LEMMA QuietSingle ==
  ASSUME OneProducer, Single, Base', NEW t \in Threads, QuietOf(t)
  PROVE  ListRep' /\ LinkOK'
  <1> USE DEF Goto, EndIteration, shared, locals
  <1>1. UNCHANGED <<front, rear, heap, queue>>
    BY DEF QuietOf, CallDequeue, EnqLoad, EnqLink, SizeLoad, SizeStore, DeqFront, DeqRear,
           DeqNext, DeqValue, Return, EnqCas, DeqCas
  <1>2. TypeOK /\ OldRearOK /\ EndsOK
    BY DEF Single, Base
  <1>3. CASE EnqLink(t)
    <2>1. /\ pc[t] = "enq_link" /\ pc' = [pc EXCEPT ![t] = "enq_cas"]
          /\ next' = [next EXCEPT ![rear] = node[t]]
          /\ old' = old /\ node' = node
      BY <1>3 DEF EnqLink, LinkForwards, Single, LinkOK
    <2>2. \A i \in 1..(Len(queue) - 1) : queue[i] # rear /\ queue[i] \in Nodes
      <3>1. \A i \in 1..(Len(queue) - 1) : i \in 1..Len(queue) /\ i # Len(queue)
        BY QueueFacts DEF Single
      <3>2. \A i \in 1..(Len(queue) - 1) : queue[i] # queue[Len(queue)]
        BY <3>1, QueueFacts DEF Single, EndsOK, Base
      <3>3. QED
        BY <3>1, <3>2, QueueFacts DEF Single, ListRep
    <2>3. ListRep'
      BY <1>1, <1>2, <2>1, <2>2 DEF Single, ListRep, TypeOK
    <2>4. \A u \in Threads : u # t => pc[u] \notin {"enq_link", "enq_cas"}
      BY <2>1, OneEnqueuing DEF Single, Enqueuing
    <2>5. LinkOK'
      BY <1>1, <1>2, <2>1, <2>4 DEF Single, LinkOK, TypeOK
    <2>6. QED
      BY <2>3, <2>5
  <1>4. CASE ~EnqLink(t)
    <2>1. next' = next
      BY <1>4 DEF QuietOf, CallDequeue, EnqLoad, SizeLoad, SizeStore, DeqFront, DeqRear,
           DeqNext, DeqValue, Return, EnqCas, DeqCas
    <2>2. ListRep'
      BY <1>1, <2>1 DEF Single, ListRep
    <2>3. \A u \in Threads : pc'[u] \in {"enq_link", "enq_cas"} =>
            \/ pc'[u] = "enq_link" /\ old'[u] = rear
            \/ pc'[u] = pc[u] /\ old'[u] = old[u] /\ node'[u] = node[u]
      BY <1>2, <1>4 DEF TypeOK, QuietOf, CallDequeue, EnqLoad, SizeLoad, SizeStore, DeqFront, DeqRear,
           DeqNext, DeqValue, Return, EnqCas, DeqCas
    <2>4. LinkOK'
      BY <1>1, <2>1, <2>3 DEF Single, LinkOK
    <2>5. QED
      BY <2>2, <2>4
  <1>5. QED
    BY <1>3, <1>4

LEMMA EnqCasSingle ==
  ASSUME OneProducer, Single, Base', NEW t \in Threads, EnqCas(t), rear = old[t]
  PROVE  ListRep' /\ LinkOK'
  <1> USE DEF Goto
  <1>1. /\ pc[t] = "enq_cas" /\ pc' = [pc EXCEPT ![t] = "inc"]
        /\ rear' = node[t] /\ queue' = Append(queue, node[t])
        /\ UNCHANGED <<front, size, next, value, heap, locals>>
    BY DEF EnqCas
  <1>2. TypeOK /\ node[t] \in Nodes /\ queue \in Seq(Nodes)
    BY <1>1 DEF Single, Base, PrivateOK, Enqueuing, TypeOK
  <1>3. next[rear] = node[t]
    BY <1>1 DEF Single, LinkOK
  <1> DEFINE n == Len(queue)
  <1>4. /\ n \in Nat \ {0} /\ queue' # <<>> /\ Len(queue') = n + 1
        /\ \A i \in 1..n : queue'[i] = queue[i]
        /\ queue'[n + 1] = node[t]
    BY <1>1, <1>2, AppendFacts, QueueFacts DEF Single
  <1>5. front = queue[1] /\ rear = queue[n] /\ \A i \in 1..(n - 1) : next[queue[i]] = queue[i + 1]
    BY DEF Single, ListRep
  <1> HIDE DEF n
  <1>6. \A i \in 1..n : next[queue'[i]] = queue'[i + 1]
    <2>1. ASSUME NEW i \in 1..n PROVE next[queue'[i]] = queue'[i + 1]
      <3>1. CASE i = n
        BY <1>3, <1>4, <1>5, <3>1
      <3>2. CASE i # n
        BY <1>4, <1>5, <3>2
      <3>3. QED
        BY <3>1, <3>2
    <2>2. QED
      BY <2>1
  <1>7. front' = queue'[1] /\ rear' = queue'[n + 1] /\ Len(queue') - 1 = n
    BY <1>1, <1>4, <1>5
  <1>8. ListRep'
    BY <1>1, <1>4, <1>6, <1>7 DEF ListRep
  <1>9. \A u \in Threads : u # t => pc[u] \notin {"enq_link", "enq_cas"}
    BY <1>1, OneEnqueuing DEF Single, Enqueuing
  <1>10. LinkOK'
    BY <1>1, <1>2, <1>9 DEF LinkOK, TypeOK
  <1>11. QED
    BY <1>8, <1>10

LEMMA DeqCasSingle ==
  ASSUME Single, NEW t \in Threads, DeqCas(t), front = old[t]
  PROVE  ListRep' /\ LinkOK'
  <1>1. /\ Base' /\ Len(queue) > 1 /\ Len(queue') = Len(queue) - 1
        /\ \A i \in 1..Len(queue') : i + 1 \in 1..Len(queue) /\ queue'[i] = queue[i + 1]
    BY DeqCasBase DEF Single
  <1>2. pc[t] = "deq_cas" /\ pc' = [pc EXCEPT ![t] = "value"] /\ UNCHANGED <<rear, next, node, old>>
    BY DEF DeqCas, Goto, locals
  <1> DEFINE n == Len(queue)
             m == Len(queue')
  <1>3. n \in Nat /\ m = n - 1 /\ \A i \in 1..m : i + 1 \in 1..n /\ queue'[i] = queue[i + 1]
    BY <1>1 DEF Single, Base, TypeOK
  <1>4. \A i \in 1..(n - 1) : next[queue[i]] = queue[i + 1]
    BY DEF Single, ListRep
  <1>5. queue' # <<>> /\ front' = queue'[1] /\ rear' = queue'[m]
    BY <1>1 DEF Base, EndsOK
  <1> HIDE DEF n, m
  <1>6. \A i \in 1..(m - 1) : next[queue'[i]] = queue'[i + 1]
    <2>1. ASSUME NEW i \in 1..(m - 1) PROVE next[queue'[i]] = queue'[i + 1]
      <3>1. i \in 1..m /\ i + 1 \in 1..m /\ i + 1 \in 1..(n - 1)
        BY <1>3
      <3>2. QED
        BY <1>3, <1>4, <3>1
    <2>2. QED
      BY <2>1
  <1>7. ListRep'
    BY <1>2, <1>5, <1>6 DEF ListRep, m
  <1>8. LinkOK'
    BY <1>2 DEF Single, LinkOK, Base, TypeOK
  <1>9. QED
    BY <1>7, <1>8

LEMMA SingleNext == OneProducer /\ Single /\ [Next]_vars => Single'
  <1> SUFFICES ASSUME OneProducer, Single, [Next]_vars PROVE ListRep' /\ LinkOK'
    BY BaseNext, SingleFirstLink DEF Single
  <1>1. Base' /\ Base
    BY BaseNext, SingleFirstLink DEF Single
  <1>2. ASSUME NEW t \in Threads, Call(t) PROVE ListRep' /\ LinkOK'
    <2>1. CASE t \in Producers /\ \E v \in Values : CallEnqueue(t, v)
      <3>1. ListRep'
        BY <2>1 DEF CallEnqueue, Single, ListRep
      <3>2. LinkOK'
        BY <2>1 DEF CallEnqueue, Goto, Single, LinkOK, Base, TypeOK
      <3>3. QED
        BY <3>1, <3>2
    <2>2. CASE t \in Consumers /\ CallDequeue(t)
      BY <1>1, <2>2, QuietSingle DEF QuietOf
    <2>3. QED
      BY <1>2, <2>1, <2>2 DEF Call
  <1>3. ASSUME NEW t \in Threads, Continue(t) PROVE ListRep' /\ LinkOK'
    <2>1. CASE EnqCas(t) /\ rear = old[t]
      BY <1>1, <2>1, EnqCasSingle
    <2>2. CASE DeqCas(t) /\ front = old[t]
      BY <2>2, DeqCasSingle
    <2>3. CASE ~(EnqCas(t) /\ rear = old[t]) /\ ~(DeqCas(t) /\ front = old[t])
      <3>1. QuietOf(t)
        BY <1>3, <2>3 DEF Continue, QuietOf, EnqCas, DeqCas
      <3>2. QED
        BY <1>1, <3>1, QuietSingle
    <2>4. QED
      BY <2>1, <2>2, <2>3
  <1>4. CASE UNCHANGED vars
    BY <1>4 DEF vars, shared, locals, Single, ListRep, LinkOK
  <1>5. QED
    BY <1>2, <1>3, <1>4 DEF Next

LEMMA SingleAlways == ASSUME OneProducer PROVE Spec => []Single
  BY SingleInit, SingleNext, PTL DEF Spec

(* With one producer every variable keeps its type. *)
THEOREM TypeCorrect == ASSUME OneProducer PROVE Spec => []TypeOK
  BY SingleAlways, PTL DEF Single, Base

(* With one producer the list from front to rear is always the queue that the *)
(* enqueues and dequeues made: the write of a link before the compare-and-    *)
(* swap of the rear is seen by every dequeue that follows it.                 *)
THEOREM ListIsQueue == ASSUME OneProducer PROVE Spec => []ListRep
  BY SingleAlways, PTL DEF Single

(* With one producer no dequeue follows a next that was never written. *)
THEOREM NeverCrashes == ASSUME OneProducer PROVE Spec => []NoCrash
  <1>1. Single => NoCrash
    BY DEF Single, Base, RolesOK, NoCrash, Threads
  <1>2. QED
    BY <1>1, SingleAlways, PTL

-----------------------------------------------------------------------------
(***************************************************************************)
(* Linearizability with one producer: LfQueue implements AbstractQueue.    *)
(* An enqueue takes effect at its compare-and-swap, a dequeue at its own   *)
(* or, when it finds the queue empty, at its load of the rear.             *)
(***************************************************************************)
(* A call that has not taken effect, or that is an enqueue, has no answer yet. *)
RetOK == \A t \in Threads :
           pc[t] \in {"enq_load", "enq_link", "enq_cas", "inc", "inc_store", "deq_front",
                      "deq_rear", "deq_next", "deq_cas"} => ret[t] = NoValue

LEMMA RetNext == Base /\ RetOK /\ [Next]_vars => RetOK'
  <1> SUFFICES ASSUME Base, RetOK, [Next]_vars PROVE RetOK'
    OBVIOUS
  <1> USE DEF RetOK, Base, RolesOK, TypeOK, Goto, EndIteration, locals, shared
  <1>1. ASSUME NEW t \in Threads, NEW v \in Values, CallEnqueue(t, v) PROVE RetOK'
    BY <1>1 DEF CallEnqueue
  <1>2. ASSUME NEW t \in Threads, CallDequeue(t) \/ EnqLoad(t) \/ EnqLink(t) \/ EnqCas(t)
        PROVE  RetOK'
    BY <1>2 DEF CallDequeue, EnqLoad, EnqLink, EnqCas
  <1>3. ASSUME NEW t \in Threads, Goto(t, "inc", "inc_store") \/ Goto(t, "dec", "dec_store"),
               ret' = ret
        PROVE  RetOK'
    BY <1>3
  <1>4. ASSUME NEW t \in Threads, Goto(t, "inc_store", "return") \/ Goto(t, "dec_store", "return"),
               ret' = ret
        PROVE  RetOK'
    BY <1>4
  <1>5. ASSUME NEW t \in Threads, DeqFront(t) \/ DeqRear(t) \/ DeqNext(t) \/ DeqCas(t)
        PROVE  RetOK'
    BY <1>5 DEF DeqFront, DeqRear, DeqNext, DeqCas
  <1>6. ASSUME NEW t \in Threads, DeqValue(t) \/ Return(t) PROVE RetOK'
    BY <1>6 DEF DeqValue, Return
  <1>7. CASE UNCHANGED vars
    BY <1>7 DEF vars
  <1>8. QED
    BY <1>1, <1>2, <1>3, <1>4, <1>5, <1>6, <1>7
       DEF Next, Call, Continue, SizeLoad, SizeStore

LEMMA AlwaysRet == ASSUME OneProducer PROVE Spec => []RetOK
  <1>1. Init => RetOK
    BY DEF Init, RetOK
  <1>2. Single => Base
    BY DEF Single
  <1>3. QED
    BY <1>1, <1>2, RetNext, SingleAlways, PTL DEF Spec

(* What the abstract call of u is depends on u's own variables, and on the    *)
(* value of the node it holds.                                                *)
LEMMA SameOp ==
  ASSUME NEW u \in Threads, pc'[u] = pc[u], ret'[u] = ret[u],
         node'[u] = node[u], old'[u] = old[u], oldrear'[u] = oldrear[u],
         u \in Enqueuing => value'[node[u]] = value[node[u]],
         pc[u] = "value" => value'[old[u]] = value[old[u]]
  PROVE  KindOf(u)' = KindOf(u) /\ ValOf(u)' = ValOf(u)
  <1>1. KindOf(u)' = KindOf(u)
    BY DEF KindOf, FoundEmpty
  <1>2. u \in Enqueuing <=> KindOf(u) = "enqueue"
    BY DEF Enqueuing, KindOf
  <1>3. QED
    BY <1>1, <1>2 DEF ValOf

(* A step of t changes nobody else's abstract call. *)
LEMMA OthersKept ==
  ASSUME Base, NEW t \in Threads, Call(t) \/ Continue(t), NEW u \in Threads, u # t
  PROVE  KindOf(u)' = KindOf(u) /\ ValOf(u)' = ValOf(u)
  <1> USE DEF Goto, EndIteration, locals, shared
  <1>0. TypeOK
    BY DEF Base
  <1>1. CASE \E v \in Values : CallEnqueue(t, v)
    <2>1. PICK v \in Values : CallEnqueue(t, v)
      BY <1>1
    <2>2. PICK n \in Nodes \ heap : /\ node' = [node EXCEPT ![t] = n]
                                    /\ value' = [value EXCEPT ![n] = v]
      BY <2>1 DEF CallEnqueue
    <2>3. /\ pc'[u] = pc[u] /\ ret'[u] = ret[u] /\ node'[u] = node[u] /\ old'[u] = old[u]
          /\ oldrear'[u] = oldrear[u]
      BY <1>0, <2>1, <2>2 DEF CallEnqueue, TypeOK
    <2>4. u \in Enqueuing => node[u] \in Nodes /\ node[u] # n
      BY <1>0, <2>2 DEF Base, PrivateOK, TypeOK
    <2>5. pc[u] = "value" => old[u] \in Nodes /\ old[u] # n
      BY <1>0, <2>2 DEF Base, OldFrontOK, HoldingOld, TypeOK
    <2>6. QED
      BY <1>0, <2>2, <2>3, <2>4, <2>5, SameOp DEF TypeOK
  <1>2. CASE CallDequeue(t) \/ Continue(t)
    <2>1. value' = value
      BY <1>2 DEF Continue, CallDequeue, EnqLoad, EnqLink, EnqCas, SizeLoad, SizeStore,
                  DeqFront, DeqRear, DeqNext, DeqCas, DeqValue, Return
    <2>2. pc'[u] = pc[u] /\ ret'[u] = ret[u]
      BY <1>0, <1>2 DEF TypeOK, Continue, CallDequeue, EnqLoad, EnqLink, EnqCas, SizeLoad, SizeStore,
                  DeqFront, DeqRear, DeqNext, DeqCas, DeqValue, Return
    <2>3. node'[u] = node[u] /\ old'[u] = old[u] /\ oldrear'[u] = oldrear[u]
      BY <1>0, <1>2 DEF TypeOK, Continue, CallDequeue, EnqLoad, EnqLink, EnqCas, SizeLoad, SizeStore,
                  DeqFront, DeqRear, DeqNext, DeqCas, DeqValue, Return
    <2>4. QED
      BY <2>1, <2>2, <2>3, SameOp
  <1>3. QED
    BY <1>1, <1>2 DEF Call

(* The abstract calls after a step of t, and when it changes none. *)
LEMMA OpAfter ==
  ASSUME Base, NEW t \in Threads, Call(t) \/ Continue(t)
  PROVE  /\ absOp' = [absOp EXCEPT ![t] = Abs!Op(KindOf(t)', ValOf(t)')]
         /\ absOp[t] = Abs!Op(KindOf(t), ValOf(t))
         /\ KindOf(t)' = KindOf(t) /\ ValOf(t)' = ValOf(t) => absOp' = absOp
  <1>1. \A u \in Threads : u # t => KindOf(u)' = KindOf(u) /\ ValOf(u)' = ValOf(u)
    BY OthersKept
  <1>2. QED
    BY <1>1 DEF absOp, Abs!Op

(* The abstract contents change with the queue only. *)
LEMMA ContentsKept ==
  ASSUME Base, NEW t \in Threads, Call(t) \/ Continue(t), queue' = queue
  PROVE  absQueue' = absQueue
  <1>1. \A i \in 1..Len(queue) : queue[i] \in Nodes /\ queue[i] \in heap
    BY QueueFacts DEF Base, EndsOK
  <1>2. \A i \in 1..Len(queue) : value'[queue[i]] = value[queue[i]]
    <2>1. CASE \E v \in Values : CallEnqueue(t, v)
      BY <1>1, <2>1 DEF CallEnqueue, Base, TypeOK
    <2>2. CASE CallDequeue(t) \/ Continue(t)
      BY <2>2 DEF Continue, CallDequeue, EnqLoad, EnqLink, EnqCas, SizeLoad, SizeStore,
                  DeqFront, DeqRear, DeqNext, DeqCas, DeqValue, Return, shared
    <2>3. QED
      BY <2>1, <2>2 DEF Call
  <1>3. QED
    BY <1>2 DEF absQueue

(* The steps that call, that return, and those that no abstract step matches. *)
LEMMA CallRefines ==
  ASSUME Base, NEW t \in Threads, Call(t) PROVE Abs!Next
  <1>0. /\ absOp' = [absOp EXCEPT ![t] = Abs!Op(KindOf(t)', ValOf(t)')]
        /\ absOp[t] = Abs!Op(KindOf(t), ValOf(t))
    BY OpAfter
  <1>1. absQueue' = absQueue
    BY ContentsKept DEF Call, CallEnqueue, CallDequeue, shared
  <1> USE DEF Goto, Base, TypeOK
  <1>2. ASSUME NEW v \in Values, CallEnqueue(t, v) PROVE Abs!CallEnqueue(t, v)
    <2>1. KindOf(t) = "idle" /\ KindOf(t)' = "enqueue"
      BY <1>2 DEF CallEnqueue, KindOf
    <2>2. value'[node'[t]] = v
      BY <1>2 DEF CallEnqueue
    <2>3. QED
      BY <1>0, <1>1, <2>1, <2>2 DEF Abs!CallEnqueue, Abs!Op, ValOf
  <1>3. ASSUME CallDequeue(t) PROVE Abs!CallDequeue(t)
    <2>1. pc[t] = "idle" /\ pc'[t] = "deq_front" /\ ret'[t] = NoValue
      BY <1>3 DEF CallDequeue
    <2>2. KindOf(t) = "idle" /\ KindOf(t)' = "dequeue" /\ ValOf(t)' = NoValue
      BY <2>1 DEF KindOf, FoundEmpty, ValOf
    <2>3. QED
      BY <1>0, <1>1, <2>2 DEF Abs!CallDequeue, Abs!Op, Abs!NoValue, NoValue
  <1>4. QED
    BY <1>2, <1>3 DEF Call, Abs!Next

LEMMA ReturnRefines ==
  ASSUME Base, NEW t \in Threads, Return(t) PROVE Abs!Return(t)
  <1>1. /\ absOp' = [absOp EXCEPT ![t] = Abs!Op(KindOf(t)', ValOf(t)')]
        /\ absOp[t] = Abs!Op(KindOf(t), ValOf(t))
    BY OpAfter DEF Continue
  <1>2. absQueue' = absQueue
    BY ContentsKept DEF Continue, Return, shared
  <1>3. pc[t] = "return" /\ pc'[t] = "idle" /\ ret' = ret
    BY DEF Return, Goto, Base, TypeOK
  <1>4. KindOf(t) = "done" /\ KindOf(t)' = "idle" /\ ValOf(t)' = ret[t] /\ ValOf(t) = ret[t]
    BY <1>3 DEF KindOf, ValOf
  <1>5. QED
    BY <1>1, <1>2, <1>4 DEF Abs!Return, Abs!Op

LEMMA SilentRefines ==
  ASSUME Base, NEW t \in Threads,
         \/ EnqLoad(t) \/ EnqLink(t) \/ SizeLoad(t) \/ SizeStore(t) \/ DeqFront(t)
         \/ DeqNext(t) \/ DeqValue(t)
         \/ EnqCas(t) /\ rear # old[t]
         \/ DeqRear(t) /\ rear # old[t]
         \/ DeqCas(t) /\ front # old[t]
  PROVE  UNCHANGED <<absQueue, absOp>>
  <1> USE DEF Goto, EndIteration, shared, locals
  <1>1. queue' = queue /\ value' = value
    BY DEF EnqLoad, EnqLink, EnqCas, SizeLoad, SizeStore, DeqFront, DeqRear, DeqNext, DeqCas, DeqValue
  <1>2. absQueue' = absQueue
    BY <1>1, ContentsKept DEF Continue
  <1>3. TypeOK
    BY DEF Base
  <1>4. CASE EnqLoad(t) \/ EnqLink(t) \/ (EnqCas(t) /\ rear # old[t])
    <2>1. t \in Enqueuing /\ pc'[t] \in {"enq_load", "enq_link", "enq_cas"} /\ node' = node
      BY <1>3, <1>4 DEF TypeOK, EnqLoad, EnqLink, EnqCas, Enqueuing
    <2>2. KindOf(t) = "enqueue" /\ KindOf(t)' = "enqueue"
      BY <2>1 DEF KindOf, Enqueuing
    <2>3. QED
      BY <1>1, <1>2, <2>1, <2>2, OpAfter DEF Continue, ValOf
  <1>5. CASE SizeLoad(t) \/ SizeStore(t)
    <2>1. /\ pc[t] \in {"inc", "inc_store", "dec", "dec_store"}
          /\ pc'[t] \in {"inc_store", "dec_store", "return"} /\ ret' = ret
      BY <1>3, <1>5 DEF TypeOK, SizeLoad, SizeStore
    <2>2. KindOf(t) = "done" /\ KindOf(t)' = "done"
      BY <2>1 DEF KindOf, FoundEmpty
    <2>3. QED
      BY <1>2, <2>1, <2>2, OpAfter DEF Continue, ValOf
  <1>6. CASE DeqFront(t) \/ (DeqRear(t) /\ rear # old[t]) \/ (DeqCas(t) /\ front # old[t])
    <2>1. /\ pc[t] \in {"deq_front", "deq_rear", "deq_cas"} /\ ret' = ret
          /\ \/ pc'[t] \in {"deq_front", "deq_rear"}
             \/ pc'[t] = "deq_next" /\ old'[t] # oldrear'[t]
      BY <1>3, <1>6 DEF TypeOK, DeqFront, DeqRear, DeqCas
    <2>2. KindOf(t) = "dequeue" /\ KindOf(t)' = "dequeue"
      BY <2>1 DEF KindOf, FoundEmpty
    <2>3. ValOf(t) = ret[t] /\ ValOf(t)' = ret'[t]
      BY <2>1, <2>2 DEF ValOf
    <2>4. QED
      BY <1>2, <2>1, <2>2, <2>3, OpAfter DEF Continue
  <1>7. CASE DeqNext(t)
    <2>1. old[t] # NULL /\ pc[t] = "deq_next" /\ ret' = ret
      BY <1>3, <1>7, NodesAssumption DEF Base, TypeOK, OldFrontOK, HoldingOld, HoldingFront, DeqNext
    <2>2. pc'[t] = (IF old[t] = oldrear[t] THEN "return" ELSE "deq_cas")
      BY <1>3, <1>7, <2>1 DEF TypeOK, DeqNext, SeemsEmpty
    <2>3. KindOf(t)' = KindOf(t) /\ KindOf(t) \in {"done", "dequeue"}
      BY <2>1, <2>2 DEF KindOf, FoundEmpty
    <2>4. QED
      BY <1>2, <2>1, <2>2, <2>3, OpAfter DEF Continue, ValOf
  <1>8. CASE DeqValue(t)
    <2>1. pc[t] = "value" /\ pc'[t] = "dec" /\ ret'[t] = value[old[t]]
      BY <1>3, <1>8 DEF TypeOK, DeqValue, OldValue
    <2>2. KindOf(t) = "done" /\ KindOf(t)' = "done"
      BY <2>1 DEF KindOf, FoundEmpty
    <2>3. QED
      BY <1>2, <2>1, <2>2, OpAfter DEF Continue, ValOf
  <1>9. QED
    BY <1>4, <1>5, <1>6, <1>7, <1>8

(* An enqueue takes effect. *)
LEMMA EnqueueRefines ==
  ASSUME Base, RetOK, NEW t \in Threads, EnqCas(t), rear = old[t] PROVE Abs!DoEnqueue(t)
  <1>1. /\ absOp' = [absOp EXCEPT ![t] = Abs!Op(KindOf(t)', ValOf(t)')]
        /\ absOp[t] = Abs!Op(KindOf(t), ValOf(t))
    BY OpAfter DEF Continue
  <1>2. /\ pc[t] = "enq_cas" /\ pc'[t] = "inc" /\ value' = value /\ ret' = ret
        /\ queue' = Append(queue, node[t])
    BY DEF EnqCas, locals, Goto, Base, TypeOK
  <1>3. ret[t] = NoValue /\ node[t] \in Nodes
    BY <1>2 DEF RetOK, Base, PrivateOK, Enqueuing, TypeOK
  <1>4. /\ KindOf(t) = "enqueue" /\ ValOf(t) = value[node[t]]
        /\ KindOf(t)' = "done" /\ ValOf(t)' = NoValue
    BY <1>2, <1>3 DEF KindOf, ValOf, FoundEmpty
  <1>5. absQueue' = Append(absQueue, value[node[t]])
    <2>1. /\ absQueue = Images(queue, value) /\ absQueue' = Images(queue', value)
      BY <1>2 DEF absQueue, Images
    <2>2. queue \in Seq(Nodes) /\ DOMAIN value = Nodes
      BY DEF Base, TypeOK
    <2>3. QED
      BY ONLY <1>2, <1>3, <2>1, <2>2, ImagesOfAppend
  <1>6. QED
    BY <1>1, <1>4, <1>5 DEF Abs!DoEnqueue, Abs!Op, Abs!NoValue, NoValue

(* A dequeue takes effect: it moves the front. *)
LEMMA DequeueRefines ==
  ASSUME Base, NEW t \in Threads, DeqCas(t), front = old[t] PROVE Abs!DoDequeue(t)
  <1>1. /\ absOp' = [absOp EXCEPT ![t] = Abs!Op(KindOf(t)', ValOf(t)')]
        /\ absOp[t] = Abs!Op(KindOf(t), ValOf(t))
    BY OpAfter DEF Continue
  <1>2. /\ pc[t] = "deq_cas" /\ pc'[t] = "value" /\ value' = value /\ old' = old
    BY DEF DeqCas, locals, Goto, Base, TypeOK
  <1>3. queue' = Tail(queue) /\ Len(queue) > 1 /\ queue[1] = old[t] /\ queue # <<>>
    BY DeqCasBase DEF Base, EndsOK
  <1>4. KindOf(t) = "dequeue" /\ KindOf(t)' = "done" /\ ValOf(t)' = value[old[t]]
    BY <1>2 DEF KindOf, ValOf, FoundEmpty
  <1>5. absQueue = Images(queue, value) /\ absQueue' = Images(queue', value)
    BY <1>2 DEF absQueue, Images
  <1>6. queue \in Seq(Nodes) /\ DOMAIN value = Nodes /\ value \in [Nodes -> Values \cup {0}]
    BY DEF Base, TypeOK
  <1>7. /\ Len(absQueue) = Len(queue) /\ absQueue[1] = value[old[t]]
        /\ absQueue' = Tail(absQueue) /\ absQueue # <<>>
    BY ONLY <1>3, <1>5, <1>6, ImagesOfTail
  <1>8. absQueue \in Seq(Values \cup {0})
    <2>1. \A i \in 1..Len(queue) : queue[i] \in Nodes
      BY <1>6
    <2>2. Len(queue) \in Nat /\ absQueue \in [1..Len(queue) -> Values \cup {0}]
      BY <1>6, <2>1 DEF absQueue
    <2>3. QED
      BY ONLY <2>2, FunctionIsSeq
  <1>9. Head(absQueue) = value[old[t]]
    BY ONLY <1>7, <1>8, HeadTailProperties
  <1>10. absOp[t].kind = "dequeue"
    BY <1>1, <1>4 DEF Abs!Op
  <1>11. absOp' = [absOp EXCEPT ![t] = Abs!Op("done", Head(absQueue))]
    BY <1>1, <1>4, <1>9
  <1>12. Len(absQueue) > 1 /\ absQueue' = Tail(absQueue)
    BY <1>3, <1>7
  <1>13. QED
    BY <1>10, <1>11, <1>12 DEF Abs!DoDequeue

(* A dequeue that finds the first node at the rear too has found an empty queue. *)
LEMMA EmptyRefines ==
  ASSUME Base, RetOK, NEW t \in Threads, DeqRear(t), rear = old[t] PROVE Abs!DoDequeue(t)
  <1>1. /\ absOp' = [absOp EXCEPT ![t] = Abs!Op(KindOf(t)', ValOf(t)')]
        /\ absOp[t] = Abs!Op(KindOf(t), ValOf(t))
    BY OpAfter DEF Continue
  <1>2. /\ pc[t] = "deq_rear" /\ pc'[t] = "deq_next" /\ ret' = ret /\ old' = old
        /\ oldrear'[t] = old[t] /\ queue' = queue
    BY DEF DeqRear, shared, Goto, Base, TypeOK
  <1>3. absQueue' = absQueue
    BY <1>2, ContentsKept DEF Continue
  <1>4. ret[t] = NoValue
    BY <1>2 DEF RetOK
  <1>5. KindOf(t) = "dequeue" /\ KindOf(t)' = "done" /\ ValOf(t)' = NoValue
    BY <1>2, <1>4 DEF KindOf, ValOf, FoundEmpty
  <1>6. front = rear
    <2>1. old[t] = front \/ old[t] \notin InQueue
      BY <1>2 DEF Base, OldFrontOK, HoldingFront
    <2>2. QED
      BY <2>1, QueueFacts
  <1>7. Len(queue) = 1
    <2>1. Len(queue) \in Nat \ {0} /\ queue[1] = queue[Len(queue)]
      BY <1>6, QueueFacts DEF Base, EndsOK
    <2>2. Len(queue) # 1 => queue[1] # queue[Len(queue)]
      BY QueueFacts DEF Base, EndsOK
    <2>3. QED
      BY <2>1, <2>2
  <1>8. Len(absQueue) = 1
    <2>1. queue \in Seq(Nodes) /\ DOMAIN value = Nodes /\ queue # <<>>
      BY DEF Base, TypeOK, EndsOK
    <2>2. absQueue = Images(queue, value)
      BY DEF absQueue, Images
    <2>3. QED
      BY ONLY <1>7, <2>1, <2>2, ImagesOfTail
  <1>9. absOp[t].kind = "dequeue"
    BY <1>1, <1>5 DEF Abs!Op
  <1>10. absOp' = [absOp EXCEPT ![t] = Abs!Op("done", Abs!NoValue)]
    BY <1>1, <1>5 DEF Abs!NoValue, NoValue
  <1>11. QED
    BY <1>3, <1>8, <1>9, <1>10 DEF Abs!DoDequeue

LEMMA InitRefines == Init => Abs!Init
  <1> SUFFICES ASSUME Init PROVE Abs!Init
    OBVIOUS
  <1>1. queue = <<Dummy>> /\ Len(queue) = 1 /\ queue[1] = Dummy /\ value[Dummy] = 0
    BY NodesAssumption DEF Init
  <1>2. absQueue = <<0>>
    <2>1. absQueue = [i \in 1..1 |-> 0]
      BY <1>1 DEF absQueue
    <2>2. [i \in 1..1 |-> 0] \in Seq({0}) /\ Len([i \in 1..1 |-> 0]) = 1
      BY FunctionIsSeq
    <2>3. QED
      BY <2>1, <2>2, SeqEqual
  <1>3. \A t \in Threads : KindOf(t) = "idle" /\ ValOf(t) = NoValue
    BY DEF Init, KindOf, ValOf
  <1>4. QED
    BY <1>2, <1>3 DEF Abs!Init, absOp, Abs!Op, Abs!NoValue, NoValue

LEMMA NextRefines == Base /\ RetOK /\ [Next]_vars => [Abs!Next]_<<absQueue, absOp>>
  <1> SUFFICES ASSUME Base, RetOK, [Next]_vars
               PROVE  Abs!Next \/ UNCHANGED <<absQueue, absOp>>
    OBVIOUS
  <1>1. ASSUME NEW t \in Threads, Call(t) PROVE Abs!Next
    BY <1>1, CallRefines
  <1>2. ASSUME NEW t \in Threads, Continue(t)
        PROVE  Abs!Next \/ UNCHANGED <<absQueue, absOp>>
    <2>1. CASE Return(t)
      BY <2>1, ReturnRefines DEF Abs!Next
    <2>2. CASE EnqCas(t) /\ rear = old[t]
      BY <2>2, EnqueueRefines DEF Abs!Next
    <2>3. CASE DeqCas(t) /\ front = old[t]
      BY <2>3, DequeueRefines DEF Abs!Next
    <2>4. CASE DeqRear(t) /\ rear = old[t]
      BY <2>4, EmptyRefines DEF Abs!Next
    <2>5. CASE \/ EnqLoad(t) \/ EnqLink(t) \/ SizeLoad(t) \/ SizeStore(t) \/ DeqFront(t)
               \/ DeqNext(t) \/ DeqValue(t)
               \/ EnqCas(t) /\ rear # old[t]
               \/ DeqRear(t) /\ rear # old[t]
               \/ DeqCas(t) /\ front # old[t]
      BY <2>5, SilentRefines
    <2>6. QED
      BY <1>2, <2>1, <2>2, <2>3, <2>4, <2>5 DEF Continue
  <1>3. CASE UNCHANGED vars
    BY <1>3 DEF vars, shared, locals, absQueue, absOp, KindOf, ValOf, FoundEmpty
  <1>4. QED
    BY <1>1, <1>2, <1>3 DEF Next

(* With one producer the lock-free queue is linearizable: whatever the        *)
(* consumers, the values and the interleaving of the loads and compare-and-   *)
(* swaps of lf-queue.c, its calls answer as those of AbstractQueue, each of   *)
(* which is one step.                                                         *)
THEOREM Linearizable == ASSUME OneProducer PROVE Spec => ImplementsQueue
  <1>1. Single => Base
    BY DEF Single
  <1>2. QED
    BY <1>1, InitRefines, NextRefines, SingleAlways, AlwaysRet, PTL
       DEF Spec, ImplementsQueue, Abs!Spec, Abs!vars

-----------------------------------------------------------------------------
(***************************************************************************)
(* The test program.  With several producers an enqueue may overwrite      *)
(* another's link, but not among the nodes that the dequeues still to take *)
(* effect (K of them) will follow.                                         *)
(***************************************************************************)
InFlight(t) == IF pc[t] \in {"deq_front", "deq_rear", "deq_next", "deq_cas"} THEN 1 ELSE 0
Due == {d \in Consumers \X (1..TestSize) : d[2] <= left[d[1]] + InFlight(d[1])}
K == Cardinality(Due)

(* The enqueues of main that have not taken effect; while there may be some, *)
(* main runs alone.                                                           *)
MainDue == left[Main] + (IF Main \in Enqueuing THEN 1 ELSE 0)
MainAlone == left[Main] > 0 \/ pc[Main] # "idle"

LeftOK == /\ left \in [Threads -> Nat]
          /\ \A c \in Consumers : left[c] + InFlight(c) <= TestSize

(* The queue has a node more than the dequeues to come, their links are right *)
(* and no enqueue is about to overwrite one.                                  *)
EnoughOK == Len(queue) + MainDue >= 1 + K
LinksOK == \A i \in 1..(Len(queue) - 1) : i <= K => next[queue[i]] = queue[i + 1]
SafeOK == \A t \in Threads : pc[t] \in {"enq_link", "enq_cas"} =>
            \A i \in 1..(Len(queue) - 1) : i <= K => old[t] # queue[i]

AloneOK == MainAlone => /\ \A t \in Threads : t # Main => pc[t] = "idle"
                        /\ pc[Main] \in {"enq_link", "enq_cas"} => old[Main] = rear
                        /\ pc[Main] = "enq_cas" => next[rear] = node[Main]

(* No dequeue sees an empty queue, so each has a value to return. *)
ValueOK == /\ \A c \in Consumers : pc[c] = "deq_next" => old[c] # oldrear[c]
           /\ \A c \in Consumers : pc[c] \in {"dec", "dec_store", "return"} => ret[c] # NoValue

TestRest == LeftOK /\ EnoughOK /\ LinksOK /\ SafeOK /\ AloneOK /\ ValueOK
TestIInv == Base /\ TestRest

LEMMA DueFacts ==
  ASSUME LeftOK
  PROVE  /\ IsFiniteSet(Due) /\ K \in Nat
         /\ \A c \in Consumers : InFlight(c) = 1 => <<c, left[c] + 1>> \in Due /\ K >= 1
  <1>1. IsFiniteSet(Consumers \X (1..TestSize))
    <2>1. TestSize \in Int
      BY TestAssumption
    <2>2. IsFiniteSet(1..TestSize)
      BY <2>1, FS_Interval
    <2>3. QED
      BY <2>2, TestAssumption, FS_Product
  <1>2. IsFiniteSet(Due) /\ K \in Nat
    <2>1. Due \subseteq Consumers \X (1..TestSize)
      BY DEF Due
    <2>2. QED
      BY <1>1, <2>1, FS_Subset, FS_CardinalityType DEF K
  <1>3. ASSUME NEW c \in Consumers, InFlight(c) = 1 PROVE <<c, left[c] + 1>> \in Due /\ K >= 1
    <2>1. left[c] \in Nat /\ left[c] + 1 <= TestSize /\ TestSize \in Nat
      BY <1>3, TestAssumption DEF LeftOK, Threads
    <2>2. left[c] + 1 \in 1..TestSize
      BY <2>1
    <2>3. <<c, left[c] + 1>> \in Due
      BY <1>3, <2>1, <2>2 DEF Due
    <2>4. Due # {}
      BY <2>3
    <2>5. K # 0
      BY <1>2, <2>4, FS_EmptySet DEF K
    <2>6. QED
      BY <1>2, <2>3, <2>5
  <1>4. QED
    BY <1>2, <1>3

(* The dequeues to come are the same when no thread's number changes, and one *)
(* less when a dequeue takes effect.                                          *)
LEMMA SameDue ==
  ASSUME \A c \in Consumers : left'[c] + InFlight(c)' = left[c] + InFlight(c)
  PROVE  K' = K
  <1>1. \A d \in Consumers \X (1..TestSize) : d[1] \in Consumers
    OBVIOUS
  <1>2. Due' = Due
    BY <1>1 DEF Due
  <1>3. QED
    BY <1>2 DEF K

LEMMA LessDue ==
  ASSUME LeftOK, NEW t \in Consumers, InFlight(t) = 1, InFlight(t)' = 0, left' = left,
         \A c \in Consumers : c # t => InFlight(c)' = InFlight(c)
  PROVE  K' = K - 1
  <1> DEFINE e == <<t, left[t] + 1>>
  <1>1. \A c \in Consumers : left[c] \in Nat /\ InFlight(c) \in {0, 1}
    BY DEF LeftOK, Threads, InFlight
  <1>2. ASSUME NEW c \in Consumers, NEW i \in 1..TestSize
        PROVE  i <= left[c] + InFlight(c)' <=> i <= left[c] + InFlight(c) /\ <<c, i>> # e
    <2>1. CASE c = t
      BY <1>1, <2>1, TestAssumption
    <2>2. CASE c # t
      BY <1>1, <2>2
    <2>3. QED
      BY <2>1, <2>2
  <1>3. Due' = Due \ {e}
    <2>1. \A d : d \in Due' <=> d \in Consumers \X (1..TestSize) /\ d[2] <= left[d[1]] + InFlight(d[1])'
      BY DEF Due
    <2>2. \A d : d \in Due <=> d \in Consumers \X (1..TestSize) /\ d[2] <= left[d[1]] + InFlight(d[1])
      BY DEF Due
    <2>3. \A d \in Consumers \X (1..TestSize) :
            d[2] <= left[d[1]] + InFlight(d[1])' <=> d[2] <= left[d[1]] + InFlight(d[1]) /\ d # e
      <3>1. \A d \in Consumers \X (1..TestSize) :
              d[1] \in Consumers /\ d[2] \in 1..TestSize /\ d = <<d[1], d[2]>>
        OBVIOUS
      <3> HIDE DEF e
      <3>2. QED
        BY <1>2, <3>1
    <2>4. QED
      BY <2>1, <2>2, <2>3
  <1>4. e \in Due /\ IsFiniteSet(Due)
    BY DueFacts
  <1>5. QED
    BY <1>3, <1>4, FS_RemoveElement DEF K

LEMMA MainFacts ==
  ASSUME LeftOK
  PROVE  /\ left[Main] \in Nat /\ MainDue \in Nat /\ Main \in Threads /\ Main \notin Consumers
         /\ ~MainAlone => MainDue = 0 /\ left[Main] = 0 /\ pc[Main] = "idle"
  BY TestAssumption, RolesAssumption DEF LeftOK, MainDue, MainAlone, Enqueuing, Threads

LEMMA TestInitOK == TestInit => TestIInv
  <1> SUFFICES ASSUME TestInit PROVE TestIInv
    OBVIOUS
  <1>1. Base
    BY BaseInit DEF TestInit
  <1>2. \A t \in Threads : pc[t] = "idle"
    BY DEF TestInit, Init
  <1>3. queue = <<Dummy>> /\ Len(queue) = 1
    BY DEF TestInit, Init
  <1>4. IsFiniteSet(1..TestSize) /\ Cardinality(1..TestSize) = TestSize
    BY TestAssumption, FS_Interval
  <1>5. /\ Cardinality(Consumers) \in Nat
        /\ Cardinality(Consumers \X (1..TestSize)) = Prefill
    <2>1. IsFiniteSet(Consumers) /\ Cardinality(Consumers) \in Nat
      BY TestAssumption, FS_CardinalityType
    <2>2. /\ Cardinality(Consumers \X (1..TestSize))
               = Cardinality(Consumers) * Cardinality(1..TestSize)
      BY ONLY <1>4, <2>1, FS_Product
    <2>3. QED
      BY <1>4, <2>1, <2>2 DEF Prefill
  <1>6. Prefill \in Nat
    BY <1>5, TestAssumption DEF Prefill
  <1>7. \A c \in Consumers : left[c] = TestSize /\ InFlight(c) = 0
    BY <1>2, TestAssumption, RolesAssumption DEF TestInit, InFlight, Threads
  <1>8. left[Main] = Prefill /\ MainDue = Prefill
    BY <1>2, <1>6, TestAssumption DEF TestInit, MainDue, Threads, Enqueuing
  <1>9. LeftOK
    BY <1>6, <1>7, TestAssumption DEF LeftOK, TestInit
  <1>10. K = Prefill
    <2>1. \A d \in Consumers \X (1..TestSize) : d[1] \in Consumers /\ d[2] \in 1..TestSize
      OBVIOUS
    <2>2. \A d \in Consumers \X (1..TestSize) : d[2] <= left[d[1]] + InFlight(d[1])
      BY <1>7, <2>1, TestAssumption
    <2>3. Due = Consumers \X (1..TestSize)
      BY <2>2 DEF Due
    <2>4. QED
      BY <1>5, <2>3 DEF K
  <1>11. EnoughOK
    BY <1>3, <1>6, <1>8, <1>10 DEF EnoughOK
  <1>12. LinksOK /\ SafeOK
    BY <1>2, <1>3 DEF LinksOK, SafeOK
  <1>13. AloneOK /\ ValueOK
    BY <1>2, TestAssumption DEF AloneOK, ValueOK, Threads
  <1>14. QED
    BY <1>1, <1>9, <1>11, <1>12, <1>13 DEF TestIInv, TestRest

LEMMA TestFirstLink == TestIInv => FirstLink
  <1> SUFFICES ASSUME TestIInv, Len(queue) > 1, NEW t \in Threads, pc[t] = "deq_next"
               PROVE  next[queue[1]] = queue[2]
    BY DEF FirstLink
  <1>1. t \in Consumers /\ InFlight(t) = 1
    BY DEF TestIInv, Base, RolesOK, Threads, InFlight
  <1>2. K \in Nat /\ K >= 1
    BY <1>1, DueFacts DEF TestIInv, TestRest
  <1>3. 1 \in 1..(Len(queue) - 1) /\ 1 <= K /\ 1 + 1 = 2
    BY <1>2, QueueFacts DEF TestIInv
  <1>4. next[queue[1]] = queue[1 + 1]
    BY <1>3 DEF TestIInv, TestRest, LinksOK
  <1>5. QED
    BY <1>3, <1>4

(* A step of the test that is not a compare-and-swap that hits, nor a call of *)
(* enqueue.                                                                   *)
QuietTest(t) == /\ QuietOf(t)
                /\ \/ Continue(t) /\ left' = left
                   \/ /\ CallDequeue(t) /\ t \in Consumers /\ Created(t) /\ left[t] > 0
                      /\ left' = [left EXCEPT ![t] = @ - 1]

LEMMA QuietTestLeft ==
  ASSUME TestIInv, NEW t \in Threads, QuietTest(t)
  PROVE  LeftOK' /\ EnoughOK' /\ K' = K /\ (MainAlone' => MainAlone)
  <1> USE DEF Goto, EndIteration, shared, locals
  <1>1. TypeOK /\ RolesOK /\ LeftOK /\ ValueOK /\ EnoughOK /\ AloneOK
    BY DEF TestIInv, TestRest, Base
  <1>2. UNCHANGED <<front, rear, heap, queue>>
    BY DEF QuietTest, QuietOf, CallDequeue, EnqLoad, EnqLink, SizeLoad, SizeStore, DeqFront, DeqRear,
           DeqNext, DeqValue, Return, EnqCas, DeqCas
  <1>3. Main \in Threads /\ Main \notin Consumers
    BY <1>1, MainFacts
  <1>4. CASE Continue(t) /\ left' = left
    <2>1. \A u \in Threads : u # t => pc'[u] = pc[u]
      BY <1>1, <1>4 DEF TypeOK, Continue, EnqLoad, EnqLink, SizeLoad, SizeStore, DeqFront, DeqRear,
           DeqNext, DeqValue, Return, EnqCas, DeqCas
    <2>2. InFlight(t)' = InFlight(t)
      <3>1. CASE DeqNext(t)
        <4>1. t \in Consumers /\ pc[t] = "deq_next" /\ old[t] # oldrear[t]
          BY <1>1, <3>1 DEF DeqNext, RolesOK, ValueOK, Threads
        <4>2. old[t] # NULL
          BY <1>1, <4>1, NodesAssumption DEF TestIInv, Base, OldFrontOK, HoldingOld, HoldingFront, TypeOK
        <4>3. pc'[t] = "deq_cas"
          BY <1>1, <3>1, <4>1, <4>2 DEF DeqNext, SeemsEmpty, TypeOK
        <4>4. QED
          BY <4>1, <4>3 DEF InFlight
      <3>2. CASE ~DeqNext(t)
        BY <1>1, <1>4, <3>2 DEF QuietTest, QuietOf, InFlight, TypeOK, CallDequeue, EnqLoad, EnqLink, SizeLoad,
           SizeStore, DeqFront, DeqRear, DeqValue, Return, EnqCas, DeqCas, Continue
      <3>3. QED
        BY <3>1, <3>2
    <2>3. \A u \in Threads : InFlight(u)' = InFlight(u)
      BY <2>1, <2>2 DEF InFlight
    <2>4. K' = K
      BY <1>4, <2>3, SameDue DEF Threads
    <2>5. LeftOK'
      BY <1>1, <1>4, <2>3 DEF LeftOK, Threads
    <2>6. Main \in Enqueuing' <=> Main \in Enqueuing
      <3>1. t \in Enqueuing' <=> t \in Enqueuing
        BY <1>1, <1>4 DEF QuietTest, QuietOf, Enqueuing, TypeOK, CallDequeue, EnqLoad, EnqLink, SizeLoad,
           SizeStore, DeqFront, DeqRear, DeqNext, DeqValue, Return, EnqCas, DeqCas, Continue
      <3>2. QED
        BY <1>3, <2>1, <3>1 DEF Enqueuing
    <2>7. MainDue' = MainDue
      BY <1>4, <2>6 DEF MainDue
    <2>8. EnoughOK'
      BY <1>1, <1>2, <2>4, <2>7 DEF EnoughOK
    <2>9. MainAlone' => MainAlone
      <3>1. pc[t] # "idle"
        BY <1>4 DEF Continue, EnqLoad, EnqLink, SizeLoad, SizeStore, DeqFront, DeqRear, DeqNext, DeqValue,
                    Return, EnqCas, DeqCas
      <3>2. QED
        BY <1>3, <1>4, <2>1, <3>1 DEF MainAlone
    <2>10. QED
      BY <2>4, <2>5, <2>8, <2>9
  <1>5. CASE /\ CallDequeue(t) /\ t \in Consumers /\ left[t] > 0
             /\ left' = [left EXCEPT ![t] = @ - 1]
    <2>1. /\ pc[t] = "idle" /\ pc' = [pc EXCEPT ![t] = "deq_front"] /\ t # Main
      BY <1>3, <1>5 DEF CallDequeue
    <2>2. left'[t] = left[t] - 1 /\ \A u \in Threads : u # t => left'[u] = left[u] /\ pc'[u] = pc[u]
      BY <1>1, <1>5, <2>1 DEF LeftOK, TypeOK
    <2>3. InFlight(t) = 0 /\ InFlight(t)' = 1 /\ \A u \in Threads : u # t => InFlight(u)' = InFlight(u)
      BY <1>1, <2>1, <2>2 DEF InFlight, TypeOK
    <2>4. \A c \in Consumers : left[c] \in Nat /\ c \in Threads
      BY <1>1 DEF LeftOK, Threads
    <2>5. \A c \in Consumers : left'[c] + InFlight(c)' = left[c] + InFlight(c)
      BY <1>5, <2>2, <2>3, <2>4
    <2>6. K' = K
      BY <2>5, SameDue
    <2>7. LeftOK'
      <3>1. left' \in [Threads -> Nat]
        BY <1>1, <1>5 DEF LeftOK
      <3>2. QED
        BY <1>1, <2>5, <3>1 DEF LeftOK
    <2>8. MainDue' = MainDue /\ (MainAlone' => MainAlone)
      BY <1>3, <2>1, <2>2 DEF MainDue, MainAlone, Enqueuing
    <2>9. EnoughOK'
      BY <1>1, <1>2, <2>6, <2>8 DEF EnoughOK
    <2>10. QED
      BY <2>6, <2>7, <2>8, <2>9
  <1>6. QED
    BY <1>4, <1>5 DEF QuietTest

LEMMA QuietTestLinks ==
  ASSUME TestIInv, NEW t \in Threads, QuietTest(t)
  PROVE  LinksOK' /\ SafeOK'
  <1> USE DEF Goto, EndIteration, shared, locals
  <1>1. TypeOK /\ RolesOK /\ LinksOK /\ SafeOK /\ EndsOK
    BY DEF TestIInv, TestRest, Base
  <1>2. UNCHANGED <<front, rear, heap, queue>>
    BY DEF QuietTest, QuietOf, CallDequeue, EnqLoad, EnqLink, SizeLoad, SizeStore, DeqFront, DeqRear,
           DeqNext, DeqValue, Return, EnqCas, DeqCas
  <1>3. K' = K
    BY QuietTestLeft
  <1>4. LinksOK'
    <2>1. CASE EnqLink(t)
      <3>1. pc[t] = "enq_link" /\ next' = [next EXCEPT ![old[t]] = node[t]]
        BY <2>1 DEF EnqLink, LinkForwards
      <3>2. \A i \in 1..(Len(queue) - 1) : i <= K => next'[queue[i]] = next[queue[i]]
        <4>1. \A i \in 1..(Len(queue) - 1) : i \in 1..Len(queue)
          BY QueueFacts DEF TestIInv
        <4>2. \A i \in 1..(Len(queue) - 1) : queue[i] \in Nodes
          BY <4>1, QueueFacts DEF TestIInv
        <4>3. QED
          BY <1>1, <3>1, <4>2 DEF SafeOK, TypeOK
      <3>3. QED
        BY <1>1, <1>2, <1>3, <3>2 DEF LinksOK
    <2>2. CASE ~EnqLink(t)
      <3>1. next' = next
        BY <2>2 DEF QuietTest, QuietOf, CallDequeue, EnqLoad, SizeLoad, SizeStore, DeqFront, DeqRear,
           DeqNext, DeqValue, Return, EnqCas, DeqCas
      <3>2. QED
        BY <1>1, <1>2, <1>3, <3>1 DEF LinksOK
    <2>3. QED
      BY <2>1, <2>2
  <1>5. SafeOK'
    <2>1. \A u \in Threads : pc'[u] \in {"enq_link", "enq_cas"} =>
            \/ old'[u] = rear
            \/ pc[u] \in {"enq_link", "enq_cas"} /\ old'[u] = old[u]
      BY <1>1 DEF TypeOK, QuietTest, QuietOf, CallDequeue, EnqLoad, EnqLink, SizeLoad, SizeStore,
           DeqFront, DeqRear, DeqNext, DeqValue, Return, EnqCas, DeqCas
    <2>2. \A i \in 1..(Len(queue) - 1) : queue[i] # rear
      <3>1. \A i \in 1..(Len(queue) - 1) : i \in 1..Len(queue) /\ i # Len(queue)
        BY QueueFacts DEF TestIInv
      <3>2. QED
        BY <1>1, <3>1, QueueFacts DEF TestIInv, EndsOK
    <2>3. QED
      BY <1>1, <1>2, <1>3, <2>1, <2>2 DEF SafeOK
  <1>6. QED
    BY <1>4, <1>5

LEMMA QuietTestAlone ==
  ASSUME TestIInv, NEW t \in Threads, QuietTest(t)
  PROVE  AloneOK'
  <1> USE DEF Goto, EndIteration, shared, locals
  <1>1. TypeOK /\ AloneOK /\ OldRearOK
    BY DEF TestIInv, TestRest, Base
  <1> SUFFICES ASSUME MainAlone'
               PROVE  /\ \A u \in Threads : u # Main => pc'[u] = "idle"
                      /\ pc'[Main] \in {"enq_link", "enq_cas"} => old'[Main] = rear'
                      /\ pc'[Main] = "enq_cas" => next'[rear'] = node'[Main]
    BY DEF AloneOK
  <1>2. MainAlone /\ Main \in Threads /\ Main \notin Consumers
    BY QuietTestLeft, MainFacts DEF TestIInv, TestRest
  <1>3. t = Main
    <2>1. CASE Continue(t)
      <3>1. pc[t] # "idle"
        BY <2>1 DEF Continue, EnqLoad, EnqLink, SizeLoad, SizeStore, DeqFront, DeqRear, DeqNext, DeqValue,
                    Return, EnqCas, DeqCas
      <3>2. QED
        BY <1>1, <1>2, <3>1 DEF AloneOK
    <2>2. CASE Created(t)
      BY <1>2, <2>2, MainFacts DEF Created, MainAlone, TestIInv, TestRest
    <2>3. QED
      BY <2>1, <2>2 DEF QuietTest
  <1>4. rear' = rear
    BY DEF QuietTest, QuietOf, CallDequeue, EnqLoad, EnqLink, SizeLoad, SizeStore, DeqFront, DeqRear,
           DeqNext, DeqValue, Return, EnqCas, DeqCas
  <1>5. \A u \in Threads : u # Main => pc'[u] = "idle"
    BY <1>1, <1>2, <1>3 DEF AloneOK, TypeOK, QuietTest, QuietOf, CallDequeue, EnqLoad, EnqLink, SizeLoad,
           SizeStore, DeqFront, DeqRear, DeqNext, DeqValue, Return, EnqCas, DeqCas
  <1>6. CASE EnqLink(t)
    <2>1. /\ pc[Main] = "enq_link" /\ old[Main] = rear /\ old' = old /\ node' = node
          /\ next' = [next EXCEPT ![rear] = node[Main]]
      BY <1>1, <1>2, <1>3, <1>6 DEF EnqLink, LinkForwards, AloneOK
    <2>2. QED
      BY <1>1, <1>4, <1>5, <2>1 DEF TypeOK
  <1>7. CASE ~EnqLink(t)
    <2>1. pc'[Main] \in {"enq_link", "enq_cas"} => pc'[Main] = "enq_link" /\ old'[Main] = rear
      BY <1>1, <1>3, <1>7 DEF TypeOK, QuietTest, QuietOf, CallDequeue, EnqLoad, SizeLoad,
           SizeStore, DeqFront, DeqRear, DeqNext, DeqValue, Return, EnqCas, DeqCas
    <2>2. QED
      BY <1>4, <1>5, <2>1
  <1>8. QED
    BY <1>6, <1>7

LEMMA QuietTestValue ==
  ASSUME TestIInv, NEW t \in Threads, QuietTest(t)
  PROVE  ValueOK'
  <1> USE DEF Goto, EndIteration, shared, locals
  <1>1. TypeOK /\ RolesOK /\ ValueOK /\ AloneOK /\ EnoughOK /\ LeftOK
    BY DEF TestIInv, TestRest, Base
  <1>2. ASSUME DeqRear(t) PROVE old[t] # rear
    <2>1. pc[t] = "deq_rear" /\ t \in Consumers /\ InFlight(t) = 1
      BY <1>1, <1>2 DEF DeqRear, RolesOK, Threads, InFlight
    <2>2. ~MainAlone
      BY <1>1, <2>1, MainFacts DEF AloneOK
    <2>3. K \in Nat /\ K >= 1 /\ MainDue = 0
      BY <1>1, <2>1, <2>2, MainFacts, DueFacts
    <2>4. Len(queue) \in Nat /\ Len(queue) >= 2
      BY <1>1, <2>3, QueueFacts DEF EnoughOK, TestIInv
    <2>5. front # rear
      <3>1. 1 \in 1..Len(queue) /\ Len(queue) \in 1..Len(queue) /\ 1 # Len(queue)
        <4>1. \A n \in Nat : n >= 2 => 1 \in 1..n /\ n \in 1..n /\ 1 # n
          OBVIOUS
        <4>2. QED
          BY <2>4, <4>1
      <3>2. QED
        BY <3>1 DEF TestIInv, Base, EndsOK
    <2>6. old[t] = front \/ old[t] \notin InQueue
      BY <2>1 DEF TestIInv, Base, OldFrontOK, HoldingFront
    <2>7. QED
      BY <2>5, <2>6, QueueFacts DEF TestIInv
  <1>3. \A c \in Consumers : pc'[c] = "deq_next" => old'[c] # oldrear'[c]
    <2>1. ASSUME NEW c \in Consumers, pc'[c] = "deq_next" PROVE old'[c] # oldrear'[c]
      <3>1. CASE DeqRear(t) /\ c = t
        BY <1>1, <1>2, <3>1 DEF DeqRear, TypeOK
      <3>2. CASE ~(DeqRear(t) /\ c = t)
        <4>1. pc[c] = "deq_next" /\ old'[c] = old[c] /\ oldrear'[c] = oldrear[c]
          BY <1>1, <2>1, <3>2 DEF TypeOK, QuietTest, QuietOf, CallDequeue, EnqLoad, EnqLink, SizeLoad,
             SizeStore, DeqFront, DeqRear, DeqNext, DeqValue, Return, EnqCas, DeqCas, Threads
        <4>2. QED
          BY <1>1, <4>1 DEF ValueOK
      <3>3. QED
        BY <3>1, <3>2
    <2>2. QED
      BY <2>1
  <1>4. \A c \in Consumers : pc'[c] \in {"dec", "dec_store", "return"} => ret'[c] # NoValue
    <2>1. ASSUME NEW c \in Consumers, pc'[c] \in {"dec", "dec_store", "return"}
          PROVE  ret'[c] # NoValue
      <3>1. CASE c # t
        <4>1. pc'[c] = pc[c] /\ ret'[c] = ret[c]
          BY <1>1, <3>1 DEF TypeOK, QuietTest, QuietOf, CallDequeue, EnqLoad, EnqLink, SizeLoad,
             SizeStore, DeqFront, DeqRear, DeqNext, DeqValue, Return, EnqCas, DeqCas, Threads
        <4>2. QED
          BY <1>1, <2>1, <4>1 DEF ValueOK
      <3>2. CASE c = t /\ DeqValue(t)
        <4>1. pc[t] = "value" /\ old[t] \in Nodes /\ ret'[t] = value[old[t]]
          BY <1>1, <3>2 DEF DeqValue, OldValue, TypeOK, TestIInv, Base, OldFrontOK, HoldingOld
        <4>2. value[old[t]] \in Values \cup {0}
          BY <1>1, <4>1 DEF TypeOK
        <4>3. QED
          BY <3>2, <4>1, <4>2, TestAssumption DEF NoValue
      <3>3. CASE c = t /\ DeqNext(t)
        <4>1. pc[t] = "deq_next" /\ old[t] # oldrear[t]
          BY <1>1, <3>3 DEF DeqNext, ValueOK
        <4>2. pc'[t] \in {"crash", "deq_cas"}
          BY <1>1, <3>3, <4>1 DEF DeqNext, SeemsEmpty, TypeOK
        <4>3. QED
          BY <2>1, <3>3, <4>2
      <3>4. CASE c = t /\ ~DeqValue(t) /\ ~DeqNext(t)
        <4>1. pc[c] \in {"dec", "dec_store", "return"} /\ ret'[c] = ret[c]
          BY <1>1, <2>1, <3>4, RolesAssumption DEF RolesOK, TypeOK, QuietTest, QuietOf, CallDequeue, EnqLoad,
             EnqLink, SizeLoad, SizeStore, DeqFront, DeqRear, Return, EnqCas, DeqCas, Threads
        <4>2. QED
          BY <1>1, <2>1, <4>1 DEF ValueOK
      <3>5. QED
        BY <3>1, <3>2, <3>3, <3>4
    <2>2. QED
      BY <2>1
  <1>5. QED
    BY <1>3, <1>4 DEF ValueOK

(* A call of enqueue. *)
LEMMA TestEnqueueCall ==
  ASSUME TestIInv, NEW t \in Producers, NEW v \in Values, CallEnqueue(t, v),
         Created(t), left[t] > 0, left' = [left EXCEPT ![t] = @ - 1]
  PROVE  TestRest'
  <1> USE DEF Goto
  <1>1. TypeOK /\ RolesOK /\ LeftOK /\ EnoughOK /\ LinksOK /\ SafeOK /\ AloneOK /\ ValueOK
    BY DEF TestIInv, TestRest, Base
  <1>2. /\ pc[t] = "idle" /\ pc' = [pc EXCEPT ![t] = "enq_load"] /\ t \in Threads /\ t \notin Consumers
        /\ ret' = [ret EXCEPT ![t] = NoValue]
        /\ UNCHANGED <<front, rear, size, next, queue, old, oldrear, nxt, tmp>>
    BY RolesAssumption DEF CallEnqueue, Threads
  <1>3. PICK n \in Nodes : node' = [node EXCEPT ![t] = n]
    BY DEF CallEnqueue
  <1>4. Main \in Threads /\ left[Main] \in Nat
    BY <1>1, MainFacts
  <1>5. left'[t] = left[t] - 1 /\ left[t] \in Nat /\ \A u \in Threads : u # t => left'[u] = left[u]
    BY <1>1, <1>2 DEF LeftOK
  <1>6. \A c \in Consumers : left'[c] + InFlight(c)' = left[c] + InFlight(c)
    BY <1>1, <1>2, <1>5 DEF InFlight, TypeOK, Threads
  <1>7. K' = K
    BY <1>6, SameDue
  <1>8. LeftOK'
    <2>1. left' \in [Threads -> Nat]
      BY <1>1, <1>5 DEF LeftOK
    <2>2. QED
      BY <1>1, <1>6, <2>1 DEF LeftOK
  <1>9. MainDue' = MainDue
    BY <1>1, <1>2, <1>4, <1>5 DEF MainDue, Enqueuing, TypeOK
  <1>10. EnoughOK' /\ LinksOK'
    BY <1>1, <1>2, <1>7, <1>9 DEF EnoughOK, LinksOK
  <1>11. SafeOK'
    BY <1>1, <1>2, <1>7 DEF SafeOK, TypeOK
  <1>12. AloneOK'
    <2>1. CASE t = Main
      BY <1>1, <1>2, <1>4, <2>1 DEF AloneOK, MainAlone, TypeOK
    <2>2. CASE t # Main
      BY <1>1, <1>2, <1>4, <1>5, <2>2 DEF AloneOK, MainAlone, TypeOK, Created
    <2>3. QED
      BY <2>1, <2>2
  <1>13. ValueOK'
    BY <1>1, <1>2 DEF ValueOK, TypeOK, Threads
  <1>14. QED
    BY <1>8, <1>10, <1>11, <1>12, <1>13 DEF TestRest

(* The compare-and-swap of the rear that hits: main's own, whose link is      *)
(* there, or one whose node is beyond those that dequeues will follow.        *)
LEMMA TestEnqCas ==
  ASSUME TestIInv, NEW t \in Threads, EnqCas(t), rear = old[t], left' = left
  PROVE  TestRest'
  <1> USE DEF Goto
  <1>1. TypeOK /\ RolesOK /\ LeftOK /\ EnoughOK /\ LinksOK /\ SafeOK /\ AloneOK /\ ValueOK
    BY DEF TestIInv, TestRest, Base
  <1>2. /\ pc[t] = "enq_cas" /\ pc' = [pc EXCEPT ![t] = "inc"]
        /\ rear' = node[t] /\ queue' = Append(queue, node[t])
        /\ UNCHANGED <<front, size, next, value, heap, node, old, oldrear, nxt, tmp, ret>>
    BY DEF EnqCas, locals
  <1>3. t \notin Consumers
    BY <1>1, <1>2 DEF RolesOK
  <1>4. Main \in Threads /\ left[Main] \in Nat /\ MainDue \in Nat /\ (~MainAlone => MainDue = 0)
    BY <1>1, MainFacts
  <1>5. \A c \in Consumers : InFlight(c)' = InFlight(c)
    BY <1>1, <1>2, <1>3 DEF InFlight, TypeOK, Threads
  <1>6. K' = K /\ K \in Nat
    BY <1>1, <1>5, SameDue, DueFacts
  <1>7. LeftOK'
    BY <1>1, <1>5 DEF LeftOK
  <1> DEFINE n == Len(queue)
             m == Len(queue')
  <1>8. n \in Nat \ {0} /\ m = n + 1 /\ (\A i \in 1..n : queue'[i] = queue[i]) /\ queue'[n + 1] = node[t]
    <2>1. node[t] \in Nodes
      BY <1>1, <1>2 DEF TestIInv, Base, PrivateOK, Enqueuing, TypeOK
    <2>2. QED
      BY <1>1, <1>2, <2>1, AppendFacts, QueueFacts DEF TypeOK, TestIInv
  <1>9. n + MainDue >= 1 + K
    BY <1>1 DEF EnoughOK
  <1>10. rear = queue[n]
    BY DEF TestIInv, Base, EndsOK
  <1>11. MainDue' = IF t = Main THEN MainDue - 1 ELSE MainDue
    <2>1. CASE t = Main
      BY <1>1, <1>2, <1>4, <2>1 DEF MainDue, Enqueuing, TypeOK
    <2>2. CASE t # Main
      BY <1>1, <1>2, <1>4, <2>2 DEF MainDue, Enqueuing, TypeOK
    <2>3. QED
      BY <2>1, <2>2
  <1>12. MainAlone' => MainAlone
    BY <1>1, <1>2, <1>4 DEF MainAlone, TypeOK
  <1>13. AloneOK'
    BY <1>1, <1>2, <1>4, <1>12 DEF AloneOK, TypeOK, MainAlone
  <1>14. ValueOK'
    BY <1>1, <1>2, <1>3 DEF ValueOK, TypeOK, Threads
  <1> HIDE DEF n, m
  <1>15. EnoughOK'
    <2>1. m + MainDue' >= 1 + K
      BY <1>4, <1>6, <1>8, <1>9, <1>11
    <2>2. QED
      BY <1>6, <2>1 DEF EnoughOK, m
  <1>16. n <= K => t = Main
    <2>1. MainAlone => t = Main
      BY <1>1, <1>2 DEF AloneOK
    <2>2. ~MainAlone => n > K
      BY <1>4, <1>6, <1>8, <1>9
    <2>3. QED
      BY <1>6, <1>8, <2>1, <2>2
  <1>17. n <= K => next[rear] = node[t] /\ \A u \in Threads : u # t => pc[u] = "idle"
    BY <1>1, <1>2, <1>16 DEF AloneOK, MainAlone
  <1>18. LinksOK'
    <2>1. ASSUME NEW i \in 1..(m - 1), i <= K PROVE next[queue'[i]] = queue'[i + 1]
      <3>1. CASE i = n
        BY <1>8, <1>10, <1>17, <2>1, <3>1
      <3>2. CASE i # n
        <4>1. i \in 1..n /\ i + 1 \in 1..n /\ i \in 1..(n - 1)
          BY <1>8, <3>2
        <4>2. next[queue[i]] = queue[i + 1]
          BY <1>1, <2>1, <4>1 DEF LinksOK, n
        <4>3. QED
          BY <1>8, <4>1, <4>2
      <3>3. QED
        BY <3>1, <3>2
    <2>2. QED
      BY <1>2, <1>6, <2>1 DEF LinksOK, m
  <1>19. SafeOK'
    <2>1. ASSUME NEW u \in Threads, pc'[u] \in {"enq_link", "enq_cas"}, NEW i \in 1..(m - 1), i <= K
          PROVE  old[u] # queue'[i]
      <3>1. u # t /\ pc[u] \in {"enq_link", "enq_cas"}
        BY <1>1, <1>2, <2>1 DEF TypeOK
      <3>2. i # n /\ i \in 1..(n - 1) /\ i \in 1..n
        BY <1>8, <1>17, <2>1, <3>1
      <3>3. QED
        BY <1>1, <1>8, <2>1, <3>1, <3>2 DEF SafeOK, n
    <2>2. QED
      BY <1>2, <1>6, <2>1 DEF SafeOK, m
  <1>20. QED
    BY <1>7, <1>13, <1>14, <1>15, <1>18, <1>19 DEF TestRest

(* The compare-and-swap of the front that hits. *)
LEMMA TestDeqCas ==
  ASSUME TestIInv, NEW t \in Threads, DeqCas(t), front = old[t], left' = left
  PROVE  TestRest'
  <1> USE DEF Goto
  <1>1. TypeOK /\ RolesOK /\ LeftOK /\ EnoughOK /\ LinksOK /\ SafeOK /\ AloneOK /\ ValueOK
    BY DEF TestIInv, TestRest, Base
  <1>2. /\ pc[t] = "deq_cas" /\ pc' = [pc EXCEPT ![t] = "value"]
        /\ UNCHANGED <<rear, size, next, value, heap, node, old, oldrear, nxt, tmp, ret>>
    BY DEF DeqCas, locals
  <1>3. t \in Consumers
    BY <1>1, <1>2 DEF RolesOK, Threads
  <1>4. Main \in Threads /\ left[Main] \in Nat /\ MainDue \in Nat /\ Main \notin Consumers
    BY <1>1, MainFacts
  <1>5. InFlight(t) = 1 /\ InFlight(t)' = 0 /\ \A c \in Consumers : c # t => InFlight(c)' = InFlight(c)
    BY <1>1, <1>2, <1>3 DEF InFlight, TypeOK, Threads
  <1>6. K' = K - 1 /\ K \in Nat
    BY <1>1, <1>3, <1>5, LessDue, DueFacts
  <1>7. LeftOK'
    <2>1. ASSUME NEW c \in Consumers PROVE left'[c] + InFlight(c)' <= TestSize
      <3>1. left[c] \in Nat /\ left[c] + InFlight(c) <= TestSize /\ TestSize \in Nat
        BY <1>1, TestAssumption DEF LeftOK, Threads
      <3>2. CASE c = t
        BY <1>5, <3>1, <3>2
      <3>3. CASE c # t
        BY <1>5, <3>1, <3>3
      <3>4. QED
        BY <3>2, <3>3
    <2>2. QED
      BY <1>1, <2>1 DEF LeftOK
  <1> DEFINE n == Len(queue)
             m == Len(queue')
  <1>8. n \in Nat /\ m = n - 1 /\ \A i \in 1..m : i + 1 \in 1..n /\ queue'[i] = queue[i + 1]
    <2>1. Base /\ n \in Nat
      BY <1>1 DEF TestIInv, TypeOK
    <2>2. m = n - 1 /\ \A i \in 1..m : i + 1 \in 1..n /\ queue'[i] = queue[i + 1]
      BY <2>1, DeqCasBase
    <2>3. QED
      BY <2>1, <2>2
  <1>9. n + MainDue >= 1 + K
    BY <1>1 DEF EnoughOK
  <1>10. MainDue' = MainDue
    BY <1>1, <1>2, <1>3, <1>4 DEF MainDue, Enqueuing, TypeOK
  <1>11. AloneOK'
    BY <1>1, <1>2, <1>3, <1>4 DEF AloneOK, TypeOK, MainAlone
  <1>12. ValueOK'
    BY <1>1, <1>2 DEF ValueOK, TypeOK, Threads
  <1>13. \A u \in Threads : pc'[u] \in {"enq_link", "enq_cas"} => pc[u] \in {"enq_link", "enq_cas"}
    BY <1>1, <1>2 DEF TypeOK
  <1>14. \A i \in 1..(n - 1) : i <= K => next[queue[i]] = queue[i + 1]
    BY <1>1 DEF LinksOK
  <1>15. \A u \in Threads : pc[u] \in {"enq_link", "enq_cas"} => \A i \in 1..(n - 1) : i <= K => old[u] # queue[i]
    BY <1>1 DEF SafeOK
  <1> HIDE DEF n, m
  <1>16. EnoughOK'
    <2>1. m + MainDue' >= 1 + K'
      BY <1>4, <1>6, <1>8, <1>9, <1>10
    <2>2. QED
      BY <2>1 DEF EnoughOK, m
  <1>17. \A i \in 1..(m - 1) : i <= K' => /\ i \in 1..m /\ i + 1 \in 1..m
                                          /\ i + 1 \in 1..(n - 1) /\ i + 1 <= K
    BY <1>6, <1>8
  <1>18. LinksOK'
    <2>1. ASSUME NEW i \in 1..(m - 1), i <= K' PROVE next[queue'[i]] = queue'[i + 1]
      <3>1. next[queue[i + 1]] = queue[i + 1 + 1]
        BY <1>14, <1>17, <2>1
      <3>2. QED
        BY <1>8, <1>17, <2>1, <3>1
    <2>2. QED
      BY <1>2, <2>1 DEF LinksOK, m
  <1>19. SafeOK'
    <2>1. ASSUME NEW u \in Threads, pc'[u] \in {"enq_link", "enq_cas"}, NEW i \in 1..(m - 1), i <= K'
          PROVE  old[u] # queue'[i]
      <3>1. old[u] # queue[i + 1]
        BY <1>13, <1>15, <1>17, <2>1
      <3>2. QED
        BY <1>8, <1>17, <2>1, <3>1
    <2>2. QED
      BY <1>2, <2>1 DEF SafeOK, m
  <1>20. QED
    BY <1>7, <1>11, <1>12, <1>16, <1>18, <1>19 DEF TestRest

LEMMA TestInvNext == TestIInv /\ [TestNext]_testVars => TestIInv'
  <1> SUFFICES ASSUME TestIInv, [TestNext]_testVars PROVE TestRest'
    <2>1. [TestNext]_testVars => [Next]_vars
      BY DEF TestNext, TestStep, TestCall, Next, testVars
    <2>2. QED
      BY <2>1, BaseNext, TestFirstLink DEF TestIInv
  <1>1. ASSUME NEW t \in Threads, TestCall(t) PROVE TestRest'
    <2>1. Created(t) /\ left[t] > 0 /\ left' = [left EXCEPT ![t] = @ - 1] /\ Call(t)
      BY <1>1 DEF TestCall
    <2>2. CASE t \in Producers /\ \E v \in Values : CallEnqueue(t, v)
      BY <2>1, <2>2, TestEnqueueCall
    <2>3. CASE t \in Consumers /\ CallDequeue(t)
      <3>1. QuietTest(t)
        BY <2>1, <2>3 DEF QuietTest, QuietOf
      <3>2. QED
        BY <3>1, QuietTestLeft, QuietTestLinks, QuietTestAlone, QuietTestValue DEF TestRest
    <2>4. QED
      BY <2>1, <2>2, <2>3 DEF Call
  <1>2. ASSUME NEW t \in Threads, Continue(t), left' = left PROVE TestRest'
    <2>1. CASE EnqCas(t) /\ rear = old[t]
      BY <1>2, <2>1, TestEnqCas
    <2>2. CASE DeqCas(t) /\ front = old[t]
      BY <1>2, <2>2, TestDeqCas
    <2>3. CASE ~(EnqCas(t) /\ rear = old[t]) /\ ~(DeqCas(t) /\ front = old[t])
      <3>1. QuietTest(t)
        BY <1>2, <2>3 DEF QuietTest, Continue, QuietOf, EnqCas, DeqCas
      <3>2. QED
        BY <3>1, QuietTestLeft, QuietTestLinks, QuietTestAlone, QuietTestValue DEF TestRest
    <2>4. QED
      BY <2>1, <2>2, <2>3
  <1>3. CASE UNCHANGED testVars
    <2>1. K' = K /\ \A c \in Consumers : InFlight(c)' = InFlight(c)
      BY <1>3 DEF testVars, vars, K, Due, InFlight
    <2>2. MainDue' = MainDue /\ MainAlone' = MainAlone
      BY <1>3 DEF testVars, vars, MainDue, MainAlone, Enqueuing
    <2>3. QED
      BY <1>3, <2>1, <2>2 DEF testVars, vars, shared, locals, TestIInv, TestRest, LeftOK, EnoughOK, LinksOK,
         SafeOK, AloneOK, ValueOK
  <1>4. QED
    BY <1>1, <1>2, <1>3 DEF TestNext, TestStep

LEMMA TestAlways == TestSpec => []TestIInv
  BY TestInitOK, TestInvNext, PTL DEF TestSpec

(* In test-queue.c, with any number of threads on each side and any TESTSIZE, *)
(* no dequeue follows a next that was never written, although several threads *)
(* enqueue at once.                                                           *)
THEOREM TestNeverCrashes == TestSpec => []NoCrash
  <1>1. TestIInv => NoCrash
    BY DEF TestIInv, Base, RolesOK, NoCrash, Threads
  <1>2. QED
    BY <1>1, TestAlways, PTL

(* Nor does any of its dequeues find the queue empty. *)
THEOREM TestNeverEmpty == TestSpec => []NoDequeueComesBackEmpty
  <1>1. TestIInv => NoDequeueComesBackEmpty
    BY DEF TestIInv, TestRest, ValueOK, NoDequeueComesBackEmpty
  <1>2. QED
    BY <1>1, TestAlways, PTL
=============================================================================
