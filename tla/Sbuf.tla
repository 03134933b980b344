-------------------------------- MODULE Sbuf ---------------------------------
(***************************************************************************)
(* lab3/lab3-out/partA_server/sbuf.c: a bounded buffer guarded by three    *)
(* semaphores.  Threads of two kinds use it: Producers call sbuf_insert    *)
(* and Consumers call sbuf_remove, over and over.  One action is one       *)
(* sem_wait or sem_post, or the access to the ring between them.  front    *)
(* and rear are ints that only ever grow: they live in IntMin..IntMax and  *)
(* wrap as the build's increment does (signed overflow is undefined in C). *)
(* MaxInserts bounds the calls of sbuf_insert.                             *)
(***************************************************************************)
EXTENDS Integers, Sequences, FiniteSets

CONSTANTS Producers, Consumers, Items,
          n,            \* the size sbuf_init is given
          IntMax,       \* INT_MAX of the modelled int
          MaxInserts    \* how many times sbuf_insert is called

SbufAssumption == /\ IsFiniteSet(Producers) /\ IsFiniteSet(Consumers)
                  /\ Producers \cap Consumers = {}
                  /\ n \in Nat \ {0} /\ IntMax \in Nat /\ n <= IntMax
                  /\ MaxInserts \in Nat

VARIABLES buf, front, rear,     \* sbuf_t
          mutex, slots, items,  \* its semaphores
          pc,                   \* where each thread is
          item,                 \* the item a call puts in or has taken out
          inserts,              \* the calls of sbuf_insert begun
          queue                 \* history: the items in the buffer, oldest first

ring == <<buf, front, rear, queue>>
sems == <<mutex, slots, items>>
vars == <<ring, sems, pc, item, inserts>>

Threads == Producers \cup Consumers
Ints == (-IntMax - 1)..IntMax
Slots == 0..(n - 1)
Labels == {"idle", "wait_mutex", "access", "post_mutex", "announce"}

Goto(t, from, to) == pc[t] = from /\ pc' = [pc EXCEPT ![t] = to]

-----------------------------------------------------------------------------
(* sbuf_init; calloc zeroes the ring, with some item standing for 0. *)
Init == /\ front = 0 /\ rear = 0 /\ queue = <<>>
        /\ mutex = 1 /\ slots = n /\ items = 0
        /\ pc = [t \in Threads |-> "idle"]
        /\ inserts = 0
        /\ \E zero \in Items : /\ buf = [i \in Slots |-> zero]
                               /\ item = [t \in Threads |-> zero]

(* ++ on an int, and the index an int selects: C's % has the sign of its left. *)
Succ(i) == IF i = IntMax THEN -IntMax - 1 ELSE i + 1
Index(i) == IF i >= 0 THEN i % n ELSE -((-i) % n)

(* Mutants: no wait for a slot; the lock is not waited for. *)
NoSlotNeeded == TRUE
SlotFree == slots > 0
MutexIgnored == TRUE
MutexFree == mutex > 0

(* sbuf_insert(item): wait for a slot. *)
InsertCall(t, x) == /\ inserts < MaxInserts
                    /\ Goto(t, "idle", "wait_mutex")
                    /\ SlotFree /\ slots' = slots - 1
                    /\ item' = [item EXCEPT ![t] = x]
                    /\ inserts' = inserts + 1
                    /\ UNCHANGED <<ring, mutex, items>>

(* sbuf_remove(): wait for an item. *)
RemoveCall(t) == /\ Goto(t, "idle", "wait_mutex")
                 /\ items > 0 /\ items' = items - 1
                 /\ UNCHANGED <<ring, mutex, slots, item, inserts>>

WaitMutex(t) == /\ Goto(t, "wait_mutex", "access")
                /\ MutexFree /\ mutex' = mutex - 1
                /\ UNCHANGED <<ring, slots, items, item, inserts>>

(* An access outside the ring writes, or reads, memory that is not the buffer's. *)
Written(i, x) == IF i \in Slots THEN [buf EXCEPT ![i] = x] ELSE buf
Readable(i) == IF i \in Slots THEN {buf[i]} ELSE Items

(* Mutant: rear++ instead of ++rear. *)
InsertPostIncrement(t) == /\ Goto(t, "access", "post_mutex")
                          /\ rear' = Succ(rear)
                          /\ buf' = Written(Index(rear), item[t])
                          /\ queue' = Append(queue, item[t])
                          /\ UNCHANGED <<front, sems, item, inserts>>
Insert(t) == /\ Goto(t, "access", "post_mutex")
             /\ rear' = Succ(rear)
             /\ buf' = Written(Index(rear'), item[t])
             /\ queue' = Append(queue, item[t])
             /\ UNCHANGED <<front, sems, item, inserts>>

Remove(t) == /\ Goto(t, "access", "post_mutex")
             /\ front' = Succ(front)
             /\ \E x \in Readable(Index(front')) : item' = [item EXCEPT ![t] = x]
             /\ queue' = Tail(queue)
             /\ UNCHANGED <<buf, rear, sems, inserts>>

PostMutex(t) == /\ Goto(t, "post_mutex", "announce")
                /\ mutex' = mutex + 1
                /\ UNCHANGED <<ring, slots, items, item, inserts>>

(* Mutant: a remove announces another item instead of a free slot. *)
SlotsAfterRemoveLost == slots
SlotsAfterRemove == slots + 1

AnnounceItem(t) == /\ Goto(t, "announce", "idle")
                   /\ items' = items + 1
                   /\ UNCHANGED <<ring, mutex, slots, item, inserts>>

AnnounceSlot(t) == /\ Goto(t, "announce", "idle")
                   /\ slots' = SlotsAfterRemove
                   /\ UNCHANGED <<ring, mutex, items, item, inserts>>

Produce(t) == \/ \E x \in Items : InsertCall(t, x)
              \/ WaitMutex(t) \/ Insert(t) \/ PostMutex(t) \/ AnnounceItem(t)
Consume(t) == \/ RemoveCall(t) \/ WaitMutex(t) \/ Remove(t)
              \/ PostMutex(t) \/ AnnounceSlot(t)

Next == \/ \E t \in Producers : Produce(t)
        \/ \E t \in Consumers : Consume(t)

(* Every thread the scheduler runs takes its next step when it can. *)
Spec == /\ Init /\ [][Next]_vars
        /\ \A t \in Producers : WF_vars(Produce(t))
        /\ \A t \in Consumers : WF_vars(Consume(t))

-----------------------------------------------------------------------------
(* Every variable has its type. *)
TypeOK == /\ buf \in [Slots -> Items] /\ front \in Ints /\ rear \in Ints
          /\ mutex \in {0, 1} /\ slots \in 0..n /\ items \in 0..n
          /\ pc \in [Threads -> Labels]
          /\ item \in [Threads -> Items]
          /\ inserts \in 0..MaxInserts
          /\ queue \in Seq(Items)

(* At most one thread is between the wait and the post of the mutex.          *)
MutualExclusion == \A t, u \in Threads :
  pc[t] \in {"access", "post_mutex"} /\ pc[u] \in {"access", "post_mutex"} => t = u

(* A thread about to touch the ring finds what its semaphore promised: a      *)
(* producer a free slot, a consumer an item, whatever the others are doing    *)
(* between their two waits.                                                   *)
PromiseKept == \A t \in Threads : pc[t] = "access" =>
  IF t \in Producers THEN Len(queue) < n ELSE queue # <<>>

(* What the comments say of front and rear: "Empty buffer iff front == rear"  *)
(* (sbuf.c:27), "buf[(front+1)%n] is first item" and "buf[rear%n] is last     *)
(* item" (sbuf.h:14-15).                                                      *)
FrontAndRear == /\ queue = <<>> <=> front = rear
                /\ queue # <<>> => /\ buf[Index(Succ(front))] = Head(queue)
                                   /\ buf[Index(rear)] = queue[Len(queue)]

(* What has been inserted is removed in the end, as long as consumers run.    *)
Drained == <>[](inserts = MaxInserts /\ queue = <<>> /\ slots = n)

Abs == INSTANCE BoundedFifo
         WITH Capacity <- n, got <- [c \in Consumers |-> item[c]]
(* Items leave in the order they came, each once, at most n inside.           *)
ImplementsFifo == Abs!Spec
==============================================================================
