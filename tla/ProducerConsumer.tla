--------------------------- MODULE ProducerConsumer ---------------------------
(***************************************************************************)
(* lab4/lab4-out/partB/producer-consumer.c: producers and consumers loop   *)
(* for ever over a ring of N longs under one mutex, waiting on cond_full   *)
(* while it is full and on cond_empty while it is empty.                   *)
(* pthread_cond_wait gives the mutex up and sleeps in one step, wakes when *)
(* signalled or for no reason at all, and competes for the mutex again;    *)
(* pthread_cond_signal wakes one sleeper, if there is one.                 *)
(***************************************************************************)
EXTENDS Naturals, Sequences

CONSTANTS Producers, Consumers,
          N,            \* the slots of the ring
          NULL

ASSUME ThreadsAssumption == /\ Producers \cap Consumers = {}
                            /\ Producers # {} /\ Consumers # {}
                            /\ NULL \notin Producers \cup Consumers
ASSUME NAssumption == N \in Nat \ {0}

VARIABLES mutex,        \* the thread that holds it, or NULL
          data, size, write_index, read_index,   \* the rest of buffer_t
          pc,           \* where each thread is
          item          \* the local "item" of each thread

buffer == <<data, size, write_index, read_index>>
vars == <<mutex, buffer, pc, item>>

Threads == Producers \cup Consumers
Slots == 0..(N - 1)
Labels == {"lock", "test", "body", "unlock", "waiting", "woken"}

Goto(t, from, to) == pc[t] = from /\ pc' = [pc EXCEPT ![t] = to]

-----------------------------------------------------------------------------
(* The global buffer is zeroed; initialize_buffer makes mutex and conditions. *)
Init == /\ mutex = NULL
        /\ data = [i \in Slots |-> 0]
        /\ size = 0 /\ write_index = 0 /\ read_index = 0
        /\ pc = [t \in Threads |-> "lock"]
        /\ item = [t \in Threads |-> 0]

Lock(t) == /\ Goto(t, "lock", "test")
           /\ mutex = NULL
           /\ mutex' = t
           /\ UNCHANGED <<buffer, item>>

(* Mutant: "if" instead of "while" around pthread_cond_wait. *)
AfterWaitBody == "body"
AfterWait == "test"

(* The end of pthread_cond_wait: the mutex is held again, the loop tests again. *)
Relock(t) == /\ Goto(t, "woken", AfterWait)
             /\ mutex = NULL
             /\ mutex' = t
             /\ UNCHANGED <<buffer, item>>

(* The condition of each side's while loop. *)
MustWait(t) == size = IF t \in Producers THEN N ELSE 0

(* Mutant: the wait sleeps with the mutex held. *)
MutexKept == mutex
MutexGivenUp == NULL

(* Wait, giving the mutex up, or go on with it. *)
Test(t) == \/ /\ MustWait(t)
              /\ Goto(t, "test", "waiting")
              /\ mutex' = MutexGivenUp
              /\ UNCHANGED <<buffer, item>>
           \/ /\ ~MustWait(t)
              /\ Goto(t, "test", "body")
              /\ UNCHANGED <<mutex, buffer, item>>

(* A wakeup nobody asked for, which POSIX allows. *)
SpuriousWakeup(t) == /\ Goto(t, "waiting", "woken")
                     /\ UNCHANGED <<mutex, buffer, item>>

Sleepers(S) == {t \in S : pc[t] = "waiting"}

(* pthread_cond_signal to the threads of S, by a thread that goes on to unlock. *)
SignalAndGo(t, S) ==
  /\ pc[t] = "body"
  /\ IF Sleepers(S) = {} THEN pc' = [pc EXCEPT ![t] = "unlock"]
     ELSE \E w \in Sleepers(S) : pc' = [pc EXCEPT ![t] = "unlock", ![w] = "woken"]

(* Mutant: the producer wakes producers. *)
WakeProducers == Producers
WakeConsumers == Consumers
NextIndex(i) == (i + 1) % N

Produce(t) == /\ item' = [item EXCEPT ![t] = write_index]
              /\ data' = [data EXCEPT ![write_index] = write_index]
              /\ write_index' = NextIndex(write_index)
              /\ size' = size + 1
              /\ SignalAndGo(t, WakeConsumers)
              /\ UNCHANGED <<mutex, read_index>>

Consume(t) == /\ item' = [item EXCEPT ![t] = data[read_index]]
              /\ read_index' = NextIndex(read_index)
              /\ size' = size - 1
              /\ SignalAndGo(t, Producers)
              /\ UNCHANGED <<mutex, data, write_index>>

Unlock(t) == /\ Goto(t, "unlock", "lock")
             /\ mutex' = NULL
             /\ UNCHANGED <<buffer, item>>

Step(t) == \/ Lock(t) \/ Relock(t) \/ Test(t) \/ Unlock(t)
           \/ (t \in Producers /\ Produce(t))
           \/ (t \in Consumers /\ Consume(t))

Next == \E t \in Threads : Step(t) \/ SpuriousWakeup(t)

(* Every thread the scheduler runs takes its next step; wakeups without a     *)
(* signal are owed to nobody.                                                 *)
Spec == Init /\ [][Next]_vars /\ \A t \in Threads : WF_vars(Step(t))

-----------------------------------------------------------------------------
(* Every variable has its type: size and the indexes stay inside the ring. *)
TypeOK == /\ mutex \in Threads \cup {NULL}
          /\ data \in [Slots -> Slots]
          /\ size \in 0..N
          /\ write_index \in Slots
          /\ read_index \in Slots
          /\ pc \in [Threads -> Labels]
          /\ item \in [Threads -> Slots]

(* Only the holder of the mutex is between lock and unlock, though two waits  *)
(* give it up in the middle.                                                  *)
MutexDiscipline ==
  \A t \in Threads : pc[t] \in {"test", "body", "unlock"} <=> mutex = t

(* The sleepers never include everybody: no signal is lost while its only     *)
(* receiver is between the test of size and the wait (lines 32-33, 54-55).    *)
NotAllAsleep == \E t \in Threads : pc[t] # "waiting"

(* Unless threads keep waking for no reason, items go in and out for ever.    *)
ItemsFlow == <>[][\A t \in Threads : ~SpuriousWakeup(t)]_vars
               => /\ []<><<\E t \in Producers : Produce(t)>>_vars
                  /\ []<><<\E t \in Consumers : Consume(t)>>_vars

ringContents == [i \in 1..size |-> data[(read_index + i - 1) % N]]
Abs == INSTANCE BoundedFifo
         WITH Items <- Slots, Capacity <- N, queue <- ringContents,
              got <- [c \in Consumers |-> item[c]]

(* The ring is a queue: a consumer gets the oldest item, each goes to one     *)
(* consumer, and a producer never overwrites one that nobody has taken.       *)
ImplementsFifo == Abs!Spec
==============================================================================
