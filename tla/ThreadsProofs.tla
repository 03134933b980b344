---------------------------- MODULE ThreadsProofs ----------------------------
(***************************************************************************)
(* Proofs about the programs of MCThreads: ProducerConsumer first, then    *)
(* Sema, ForkJoin, Counters and Sbuf, for any threads, slots, iterations   *)
(* and permits; and what MCThreads checks of all its programs.             *)
(***************************************************************************)
EXTENDS MCThreads, ProofFacts

-----------------------------------------------------------------------------
(***************************************************************************)
(* The inductive invariant.  NotAllAsleep is not one: it follows from what *)
(* the size of the ring says of each kind of thread.                       *)
(***************************************************************************)
(* What a thread found when it left its while loop is still so in the body. *)
BodyOK == \A t \in Threads : pc[t] = "body" => ~MustWait(t)
(* A consumer is awake when there is an item, a producer when there is a slot. *)
SomeAwake == /\ size > 0 => \E c \in Consumers : pc[c] # "waiting"
             /\ size < N => \E u \in Producers : pc[u] # "waiting"

IInv == TypeOK /\ MutexDiscipline /\ BodyOK /\ SomeAwake

LEMMA NextIndexInSlots == \A i \in Slots : NextIndex(i) \in Slots
  BY NAssumption DEF Slots, NextIndex

LEMMA IInvInit == Init => IInv
  <1> SUFFICES ASSUME Init PROVE IInv
    OBVIOUS
  <1>1. TypeOK
    BY NAssumption DEF Init, TypeOK, Slots, Labels
  <1>2. MutexDiscipline
    BY ThreadsAssumption DEF Init, MutexDiscipline, Threads
  <1>3. BodyOK
    BY DEF Init, BodyOK
  <1>4. SomeAwake
    BY ThreadsAssumption DEF Init, SomeAwake, Threads
  <1>5. QED
    BY <1>1, <1>2, <1>3, <1>4 DEF IInv

(* The steps that touch neither the ring nor its size, and send nobody to sleep. *)
LEMMA WakefulStep ==
  ASSUME IInv, NEW t \in Threads, Lock(t) \/ Relock(t) \/ Unlock(t) \/ SpuriousWakeup(t)
  PROVE  IInv'
  <1> USE DEF Goto, TypeOK, buffer, AfterWait
  <1>1. UNCHANGED <<data, size, write_index, read_index, item>>
    BY DEF Lock, Relock, Unlock, SpuriousWakeup
  <1>2. TypeOK'
    BY <1>1 DEF IInv, Labels, Lock, Relock, Unlock, SpuriousWakeup
  <1>3. MutexDiscipline'
    BY ThreadsAssumption DEF IInv, MutexDiscipline, Threads, Lock, Relock, Unlock, SpuriousWakeup
  <1>4. BodyOK'
    BY <1>1 DEF IInv, BodyOK, MustWait, Lock, Relock, Unlock, SpuriousWakeup
  <1>5. \A u \in Threads : pc[u] # "waiting" => pc'[u] # "waiting"
    BY DEF IInv, Lock, Relock, Unlock, SpuriousWakeup
  <1>6. SomeAwake'
    BY <1>1, <1>5 DEF IInv, SomeAwake, Threads
  <1>7. QED
    BY <1>2, <1>3, <1>4, <1>6 DEF IInv

(* A thread goes to sleep only when its side has nothing to do. *)
LEMMA TestStep ==
  ASSUME IInv, NEW t \in Threads, Test(t)
  PROVE  IInv'
  <1> USE DEF Goto, TypeOK, buffer, MutexGivenUp
  <1>1. /\ UNCHANGED <<data, size, write_index, read_index, item>>
        /\ \A u \in Threads : u # t => pc'[u] = pc[u]
    BY DEF IInv, Test
  <1>2. TypeOK'
    BY <1>1 DEF IInv, Labels, Test
  <1>3. MutexDiscipline'
    BY ThreadsAssumption DEF IInv, MutexDiscipline, Threads, Test
  <1>4. BodyOK'
    BY <1>1 DEF IInv, BodyOK, MustWait, Test
  <1>5. SomeAwake'
    <2>1. CASE ~MustWait(t)
      <3>1. pc'[t] = "body"
        BY <2>1 DEF IInv, Test
      <3>2. QED
        BY <1>1, <3>1 DEF IInv, SomeAwake, Threads
    <2>2. CASE MustWait(t) /\ t \in Producers
      BY <1>1, <2>2, ThreadsAssumption DEF IInv, SomeAwake, MustWait, Threads
    <2>3. CASE MustWait(t) /\ t \in Consumers
      BY <1>1, <2>3, ThreadsAssumption DEF IInv, SomeAwake, MustWait, Threads
    <2>4. QED
      BY <2>1, <2>2, <2>3 DEF Threads
  <1>6. QED
    BY <1>2, <1>3, <1>4, <1>5 DEF IInv

(* pthread_cond_signal leaves no side of S asleep, and wakes whom it wakes. *)
LEMMA SignalFacts ==
  ASSUME TypeOK, MutexDiscipline, NEW t \in Threads, NEW S \in SUBSET Threads, S # {}, SignalAndGo(t, S)
  PROVE  /\ pc' \in [Threads -> Labels] /\ pc'[t] = "unlock"
         /\ \A u \in Threads : u # t => pc'[u] \notin {"test", "body", "unlock"}
         /\ \A u \in Threads : pc[u] # "waiting" => pc'[u] # "waiting"
         /\ \E u \in S : pc'[u] # "waiting"
  <1>1. pc[t] = "body" /\ \A u \in Threads : u # t => pc[u] \notin {"test", "body", "unlock"}
    BY DEF SignalAndGo, MutexDiscipline
  <1>2. CASE Sleepers(S) = {}
    BY <1>1, <1>2 DEF SignalAndGo, TypeOK, Labels, Sleepers
  <1>3. CASE Sleepers(S) # {}
    <2>1. PICK w \in Sleepers(S) : pc' = [pc EXCEPT ![t] = "unlock", ![w] = "woken"]
      BY <1>3 DEF SignalAndGo
    <2>2. w \in S /\ w \in Threads /\ w # t
      BY <1>1 DEF Sleepers
    <2>3. QED
      BY <1>1, <2>1, <2>2 DEF TypeOK, Labels
  <1>4. QED
    BY <1>2, <1>3

LEMMA ProduceStep ==
  ASSUME IInv, NEW t \in Producers, Produce(t)
  PROVE  IInv'
  <1>1. /\ t \in Threads /\ Consumers \in SUBSET Threads /\ Consumers # {}
        /\ SignalAndGo(t, Consumers)
    BY ThreadsAssumption DEF Threads, Produce, WakeConsumers
  <1>2. /\ pc' \in [Threads -> Labels] /\ pc'[t] = "unlock"
        /\ \A u \in Threads : u # t => pc'[u] \notin {"test", "body", "unlock"}
        /\ \A u \in Threads : pc[u] # "waiting" => pc'[u] # "waiting"
        /\ \E u \in Consumers : pc'[u] # "waiting"
    BY <1>1, SignalFacts DEF IInv
  <1>3. pc[t] = "body" /\ mutex = t /\ mutex' = mutex
    BY <1>1 DEF IInv, MutexDiscipline, SignalAndGo, Produce
  <1>4. size \in 0..N /\ size # N /\ size' = size + 1
    BY <1>1, <1>3 DEF IInv, TypeOK, BodyOK, MustWait, Produce
  <1>5. TypeOK'
    <2>1. size' \in 0..N
      BY <1>4, NAssumption
    <2>2. write_index' \in Slots /\ data' \in [Slots -> Slots]
      BY NextIndexInSlots DEF IInv, TypeOK, Produce
    <2>3. item' \in [Threads -> Slots] /\ read_index' = read_index
      BY DEF IInv, TypeOK, Produce
    <2>4. QED
      BY <1>2, <1>3, <2>1, <2>2, <2>3 DEF IInv, TypeOK
  <1>6. MutexDiscipline'
    BY <1>2, <1>3 DEF MutexDiscipline
  <1>7. BodyOK'
    BY <1>2 DEF BodyOK
  <1>8. SomeAwake'
    BY <1>2 DEF SomeAwake
  <1>9. QED
    BY <1>5, <1>6, <1>7, <1>8 DEF IInv

LEMMA ConsumeStep ==
  ASSUME IInv, NEW t \in Consumers, Consume(t)
  PROVE  IInv'
  <1>1. /\ t \in Threads /\ t \notin Producers
        /\ Producers \in SUBSET Threads /\ Producers # {}
        /\ SignalAndGo(t, Producers)
    BY ThreadsAssumption DEF Threads, Consume
  <1>2. /\ pc' \in [Threads -> Labels] /\ pc'[t] = "unlock"
        /\ \A u \in Threads : u # t => pc'[u] \notin {"test", "body", "unlock"}
        /\ \A u \in Threads : pc[u] # "waiting" => pc'[u] # "waiting"
        /\ \E u \in Producers : pc'[u] # "waiting"
    BY <1>1, SignalFacts DEF IInv
  <1>3. pc[t] = "body" /\ mutex = t /\ mutex' = mutex
    BY <1>1 DEF IInv, MutexDiscipline, SignalAndGo, Consume
  <1>4. size \in 0..N /\ size # 0 /\ size' = size - 1
    BY <1>1, <1>3 DEF IInv, TypeOK, BodyOK, MustWait, Consume
  <1>5. TypeOK'
    <2>1. size' \in 0..N
      BY <1>4, NAssumption
    <2>2. read_index' \in Slots /\ data' = data
      BY NextIndexInSlots DEF IInv, TypeOK, Consume
    <2>3. item' \in [Threads -> Slots] /\ write_index' = write_index
      BY DEF IInv, TypeOK, Consume
    <2>4. QED
      BY <1>2, <1>3, <2>1, <2>2, <2>3 DEF IInv, TypeOK
  <1>6. MutexDiscipline'
    BY <1>2, <1>3 DEF MutexDiscipline
  <1>7. BodyOK'
    BY <1>2 DEF BodyOK
  <1>8. SomeAwake'
    BY <1>2 DEF SomeAwake
  <1>9. QED
    BY <1>5, <1>6, <1>7, <1>8 DEF IInv

LEMMA IInvNext == IInv /\ [Next]_vars => IInv'
  <1> SUFFICES ASSUME IInv, [Next]_vars PROVE IInv'
    OBVIOUS
  <1>1. ASSUME NEW t \in Threads, Step(t) \/ SpuriousWakeup(t) PROVE IInv'
    <2>1. CASE Lock(t) \/ Relock(t) \/ Unlock(t) \/ SpuriousWakeup(t)
      BY <2>1, WakefulStep
    <2>2. CASE Test(t)
      BY <2>2, TestStep
    <2>3. CASE t \in Producers /\ Produce(t)
      BY <2>3, ProduceStep
    <2>4. CASE t \in Consumers /\ Consume(t)
      BY <2>4, ConsumeStep
    <2>5. QED
      BY <1>1, <2>1, <2>2, <2>3, <2>4 DEF Step
  <1>2. CASE UNCHANGED vars
    BY <1>2 DEF vars, buffer, IInv, TypeOK, MutexDiscipline, BodyOK, MustWait, SomeAwake
  <1>3. QED
    BY <1>1, <1>2 DEF Next

LEMMA Invariant == Init /\ [][Next]_vars => []IInv
  BY IInvInit, IInvNext, PTL

(* The ring never holds fewer than 0 nor more than N items, and its indexes   *)
(* stay inside it, though several threads move them.                          *)
THEOREM TypeCorrect == Spec => []TypeOK
  BY Invariant, PTL DEF Spec, IInv

(* Only the holder of the mutex is between lock and unlock.                   *)
THEOREM OneInside == Spec => []MutexDiscipline
  BY Invariant, PTL DEF Spec, IInv

(* However many producers, consumers and slots there are, the one signal per  *)
(* item (lines 43 and 64 of producer-consumer.c) never leaves everybody       *)
(* asleep.                                                                    *)
THEOREM NobodyLeftAsleep == Spec => []NotAllAsleep
  <1>1. IInv => NotAllAsleep
    <2> SUFFICES ASSUME IInv PROVE NotAllAsleep
      OBVIOUS
    <2>1. size > 0 \/ size < N
      BY NAssumption DEF IInv, TypeOK
    <2>2. QED
      BY <2>1 DEF IInv, SomeAwake, NotAllAsleep, Threads
  <1>2. QED
    BY <1>1, Invariant, PTL DEF Spec

-----------------------------------------------------------------------------
(***************************************************************************)
(* The ring is a queue: ProducerConsumer implements BoundedFifo.  An item  *)
(* goes in and out in the bodies of the loops.                             *)
(***************************************************************************)
(* i % N, for the i that an index and a size add up to. *)
Wrap(i) == IF i < N THEN i ELSE i - N

LEMMA WrapFacts ==
  ASSUME NEW i \in 0..(N + N - 1)
  PROVE  i % N = Wrap(i) /\ Wrap(i) \in Slots
  <1>1. N \in Nat \ {0} /\ i \in Nat
    BY NAssumption
  <1>2. CASE i < N
    BY <1>1, <1>2 DEF Wrap, Slots
  <1>3. CASE i >= N
    <2>1. i - N \in 0..(N - 1) /\ i = N * 1 + (i - N)
      BY <1>1, <1>3
    <2>2. i % N = i - N
      BY <1>1, <2>1
    <2>3. QED
      BY <1>1, <1>3, <2>1, <2>2 DEF Wrap, Slots
  <1>4. QED
    BY <1>1, <1>2, <1>3

(* The free slots, too, are where the indexes say they are. *)
RingOK == write_index = Wrap(read_index + size)

(* The contents, item by item. *)
Spelled == /\ ringContents \in Seq(Slots) /\ Len(ringContents) = size
           /\ \A i \in 1..size : ringContents[i] = data[Wrap(read_index + i - 1)]

LEMMA RingContents == IInv => Spelled
  <1> SUFFICES ASSUME IInv PROVE Spelled
    OBVIOUS
  <1>1. /\ N \in Nat \ {0} /\ size \in 0..N /\ read_index \in 0..(N - 1)
        /\ data \in [Slots -> Slots]
    BY NAssumption DEF IInv, TypeOK, Slots
  <1>2. ASSUME NEW i \in 1..size
        PROVE  /\ data[(read_index + i - 1) % N] = data[Wrap(read_index + i - 1)]
               /\ data[(read_index + i - 1) % N] \in Slots
    <2>1. read_index + i - 1 \in 0..(N + N - 1)
      BY <1>1
    <2>2. QED
      BY <1>1, <2>1, WrapFacts
  <1>3. ringContents \in [1..size -> Slots]
    BY <1>2 DEF ringContents
  <1>4. ringContents \in Seq(Slots) /\ Len(ringContents) = size
    BY ONLY <1>1, <1>3, FunctionIsSeq
  <1>5. QED
    BY <1>2, <1>4 DEF ringContents, Spelled

LEMMA RingContentsNext == IInv' => Spelled'
  BY RingContents, PTL

LEMMA RingNext == IInv /\ IInv' /\ RingOK /\ [Next]_vars => RingOK'
  <1> SUFFICES ASSUME IInv, IInv', RingOK, [Next]_vars PROVE RingOK'
    OBVIOUS
  <1>1. /\ N \in Nat \ {0} /\ size \in 0..N /\ read_index \in 0..(N - 1)
        /\ write_index \in 0..(N - 1) /\ size' \in 0..N
    BY NAssumption DEF IInv, TypeOK, Slots
  <1>2. \A i \in 0..(N - 1) : NextIndex(i) = Wrap(i + 1)
    BY <1>1, WrapFacts DEF NextIndex
  <1>3. ASSUME NEW t \in Producers, Produce(t) PROVE RingOK'
    <2>1. /\ write_index' = Wrap(write_index + 1) /\ size' = size + 1
          /\ read_index' = read_index
      BY <1>1, <1>2, <1>3 DEF Produce
    <2>2. QED
      BY <1>1, <2>1 DEF RingOK, Wrap
  <1>4. ASSUME NEW t \in Consumers, Consume(t) PROVE RingOK'
    <2>1. /\ read_index' = Wrap(read_index + 1) /\ size' = size - 1
          /\ write_index' = write_index
      BY <1>1, <1>2, <1>4 DEF Consume
    <2>2. QED
      BY <1>1, <2>1 DEF RingOK, Wrap
  <1>5. CASE UNCHANGED buffer
    BY <1>5 DEF buffer, RingOK, Wrap
  <1>6. QED
    BY <1>3, <1>4, <1>5
       DEF Next, Step, Lock, Relock, Test, Unlock, SpuriousWakeup, vars, buffer

LEMMA AlwaysRing == Init /\ [][Next]_vars => []RingOK
  <1>1. Init => RingOK
    BY NAssumption DEF Init, RingOK, Wrap
  <1>2. QED
    BY <1>1, RingNext, Invariant, PTL

absGot == [c \in Consumers |-> item[c]]

(* What goes in goes to the end. *)
LEMMA ProducePuts ==
  ASSUME IInv, IInv', RingOK, NEW t \in Producers, Produce(t)
  PROVE  Abs!Put(write_index)
  <1>1. /\ N \in Nat \ {0} /\ size \in 0..N /\ size' \in 0..N
        /\ read_index \in 0..(N - 1) /\ write_index \in Slots
        /\ size' = size + 1 /\ read_index' = read_index
        /\ data' = [data EXCEPT ![write_index] = write_index]
        /\ data \in [Slots -> Slots]
    BY NAssumption DEF IInv, TypeOK, Slots, Produce
  <1>2. /\ ringContents \in Seq(Slots) /\ Len(ringContents) = size
        /\ \A i \in 1..size : ringContents[i] = data[Wrap(read_index + i - 1)]
    BY RingContents DEF Spelled
  <1>3. /\ ringContents' \in Seq(Slots) /\ Len(ringContents') = size + 1
        /\ \A i \in 1..(size + 1) : ringContents'[i] = data'[Wrap(read_index + i - 1)]
    BY <1>1, RingContentsNext DEF Spelled, Wrap
  <1>4. \A i \in 1..size : ringContents'[i] = ringContents[i]
    <2> TAKE i \in 1..size
    <2>1. Wrap(read_index + i - 1) \in Slots /\ Wrap(read_index + i - 1) # write_index
      BY <1>1 DEF RingOK, Wrap, Slots
    <2>2. i \in 1..(size + 1)
      BY <1>1
    <2>3. QED
      BY <1>1, <1>2, <1>3, <2>1, <2>2
  <1>5. ringContents'[size + 1] = write_index
    <2>1. size + 1 \in 1..(size + 1) /\ Wrap(read_index + (size + 1) - 1) = write_index
      BY <1>1 DEF RingOK, Wrap
    <2>2. QED
      BY <1>1, <1>3, <2>1
  <1>6. ringContents' = Append(ringContents, write_index)
    <2> DEFINE b == Append(ringContents, write_index)
    <2>1. /\ b \in Seq(Slots) /\ Len(b) = size + 1
          /\ \A i \in 1..size : b[i] = ringContents[i]
          /\ b[size + 1] = write_index
      BY <1>1, <1>2, AppendProperties
    <2> HIDE DEF b
    <2>2. \A i \in 1..Len(b) : ringContents'[i] = b[i]
      BY <1>1, <1>4, <1>5, <2>1
    <2>3. ringContents' = b
      BY ONLY <1>3, <2>1, <2>2, SeqEqual
    <2>4. QED
      BY <2>3 DEF b
  <1>7. absGot' = absGot
    BY ThreadsAssumption DEF IInv, TypeOK, Produce, absGot
  <1>8. QED
    BY <1>1, <1>2, <1>6, <1>7 DEF Abs!Put, absGot

(* What comes out is the oldest. *)
LEMMA ConsumeGets ==
  ASSUME IInv, IInv', NEW t \in Consumers, Consume(t)
  PROVE  Abs!Get(t)
  <1>1. /\ N \in Nat \ {0} /\ size \in 0..N /\ size' \in 0..N
        /\ read_index \in 0..(N - 1) /\ size' = size - 1
        /\ read_index' = NextIndex(read_index) /\ data' = data
    BY NAssumption DEF IInv, TypeOK, Slots, Consume
  <1>2. /\ ringContents \in Seq(Slots) /\ Len(ringContents) = size
        /\ \A i \in 1..size : ringContents[i] = data[Wrap(read_index + i - 1)]
    BY RingContents DEF Spelled
  <1>3. /\ ringContents' \in Seq(Slots) /\ Len(ringContents') = size'
        /\ \A i \in 1..size' : ringContents'[i] = data[Wrap(read_index' + i - 1)]
    BY <1>1, RingContentsNext DEF Spelled, Wrap
  <1>4. ringContents # <<>> /\ size # 0
    BY <1>1, <1>2, EmptySeq
  <1>5. \A i \in 1..(size - 1) : ringContents'[i] = ringContents[i + 1]
    <2> TAKE i \in 1..(size - 1)
    <2>1. read_index' = Wrap(read_index + 1)
      BY <1>1, WrapFacts DEF NextIndex
    <2>2. Wrap(read_index' + i - 1) = Wrap(read_index + (i + 1) - 1)
      BY <1>1, <2>1 DEF Wrap
    <2>3. i \in 1..size' /\ i + 1 \in 1..size
      BY <1>1
    <2>4. QED
      BY <1>2, <1>3, <2>2, <2>3
  <1>6. ringContents' = Tail(ringContents)
    <2> DEFINE b == Tail(ringContents)
    <2>1. /\ b \in Seq(Slots) /\ Len(b) = size - 1
          /\ \A i \in 1..(size - 1) : b[i] = ringContents[i + 1]
      BY <1>1, <1>2, <1>4, HeadTailProperties
    <2> HIDE DEF b
    <2>2. \A i \in 1..Len(b) : ringContents'[i] = b[i]
      BY <1>1, <1>5, <2>1
    <2>3. Len(ringContents') = Len(b)
      BY <1>1, <1>3, <2>1
    <2>4. ringContents' = b
      BY ONLY <1>3, <2>1, <2>2, <2>3, SeqEqual
    <2>5. QED
      BY <2>4 DEF b
  <1>7. absGot' = [absGot EXCEPT ![t] = Head(ringContents)]
    <2>1. item' = [item EXCEPT ![t] = data[read_index]]
      BY DEF Consume
    <2>2. Head(ringContents) = data[read_index]
      <3>1. 1 \in 1..size /\ Wrap(read_index + 1 - 1) = read_index
        BY <1>1, <1>4 DEF Wrap
      <3>2. Head(ringContents) = ringContents[1]
        BY <1>2, <1>4
      <3>3. QED
        BY <1>2, <3>1, <3>2
    <2>3. QED
      BY <2>1, <2>2 DEF IInv, TypeOK, Threads, absGot
  <1>8. QED
    BY <1>4, <1>6, <1>7 DEF Abs!Get, absGot

LEMMA NextRefines ==
  IInv /\ IInv' /\ RingOK /\ [Next]_vars => [Abs!Next]_<<ringContents, absGot>>
  <1> SUFFICES ASSUME IInv, IInv', RingOK, [Next]_vars
               PROVE  Abs!Next \/ UNCHANGED <<ringContents, absGot>>
    OBVIOUS
  <1>1. ASSUME NEW t \in Producers, Produce(t) PROVE Abs!Next
    <2>1. write_index \in Slots
      BY DEF IInv, TypeOK
    <2>2. QED
      BY <1>1, <2>1, ProducePuts DEF Abs!Next
  <1>2. ASSUME NEW t \in Consumers, Consume(t) PROVE Abs!Next
    BY <1>2, ConsumeGets DEF Abs!Next
  <1>3. CASE UNCHANGED <<buffer, item>>
    BY <1>3 DEF buffer, ringContents, absGot
  <1>4. QED
    BY <1>1, <1>2, <1>3
       DEF Next, Step, Lock, Relock, Test, Unlock, SpuriousWakeup, vars

LEMMA InitRefines == Init => Abs!Init
  <1> SUFFICES ASSUME Init PROVE Abs!Init
    OBVIOUS
  <1>1. ringContents = <<>>
    BY DEF Init, ringContents
  <1>2. absGot = [c \in Consumers |-> 0] /\ 0 \in Slots
    BY NAssumption DEF Init, absGot, Threads, Slots
  <1>3. QED
    BY <1>1, <1>2 DEF Abs!Init, absGot

LEMMA RingImplements == Init /\ [][Next]_vars => ImplementsFifo
  BY InitRefines, NextRefines, Invariant, AlwaysRing, PTL
     DEF ImplementsFifo, Abs!Spec, Abs!vars, absGot

(* The ring of producer-consumer.c is a queue for every number of producers,  *)
(* consumers and slots: items leave in the order they came, each to one       *)
(* consumer, and none is overwritten before it is taken.                      *)
THEOREM RingIsQueue == Spec => ImplementsFifo
  BY RingImplements, PTL DEF Spec

-----------------------------------------------------------------------------
(***************************************************************************)
(* sema.c.  The sets that Sema counts are sets of FiniteSets.              *)
(***************************************************************************)
LEMMA SameCounting ==
  /\ \A S : Se!IsFiniteSet(S) <=> IsFiniteSet(S)
  /\ \A S : Se!Cardinality(S) = Cardinality(S)
  <1>1. ASSUME NEW S PROVE Se!IsFiniteSet(S) <=> IsFiniteSet(S)
    BY Zenon DEF Se!IsFiniteSet, IsFiniteSet
  <1>2. ASSUME NEW S PROVE Se!Cardinality(S) = Cardinality(S)
    BY Zenon DEF Se!Cardinality, Cardinality
  <1>3. QED
    BY <1>1, <1>2

PermitsOK == value >= 0 /\ value + Cardinality(Se!Holders) = Permits

(***************************************************************************)
(* The inductive invariant: a thread about to swap has seen a permit.      *)
(***************************************************************************)
SawPermit == \A t \in Countings : spc[t] = "wait_cas" => val[t] > 0

SemaIInv == Se!TypeOK /\ PermitsOK /\ SawPermit

LEMMA HoldersFinite ==
  ASSUME Se!SemaAssumption
  PROVE  IsFiniteSet(Se!Holders) /\ Cardinality(Se!Holders) \in Nat
  BY SameCounting, FS_Subset, FS_CardinalityType DEF Se!Holders, Se!SemaAssumption

LEMMA SemaInit == ASSUME Se!SemaAssumption, Se!Init PROVE SemaIInv
  <1>1. Se!TypeOK
    BY DEF Se!Init, Se!TypeOK, Se!Labels, Se!SemaAssumption
  <1>2. Se!Holders = {}
    BY DEF Se!Init, Se!Holders
  <1>3. Cardinality(Se!Holders) = 0
    BY <1>2, FS_EmptySet
  <1>4. PermitsOK /\ SawPermit
    BY <1>3 DEF Se!Init, PermitsOK, SawPermit, Se!SemaAssumption
  <1>5. QED
    BY <1>1, <1>4 DEF SemaIInv

(* The steps that neither take a permit nor give one back. *)
LEMMA QuietStep ==
  ASSUME SemaIInv, NEW t \in Countings,
         \/ Se!WaitLoad(t) \/ Se!NumLoad(t) \/ Se!NumStore(t)
         \/ Se!WaitCas(t) /\ ~Se!SameVal(t)
  PROVE  SemaIInv'
  <1> USE DEF Se!Goto, Se!TypeOK, Se!Positive, Se!SameVal
  <1>1. value' = value
    BY DEF Se!WaitLoad, Se!NumLoad, Se!NumStore, Se!WaitCas
  <1>2. Se!Holders' = Se!Holders
    BY DEF SemaIInv, Se!Holders, Se!WaitLoad, Se!NumLoad, Se!NumStore, Se!WaitCas
  <1>3. Se!TypeOK'
    BY <1>1 DEF SemaIInv, Se!Labels, Se!WaitLoad, Se!NumLoad, Se!NumStore, Se!WaitCas
  <1>4. SawPermit'
    BY DEF SemaIInv, SawPermit, Se!WaitLoad, Se!NumLoad, Se!NumStore, Se!WaitCas
  <1>5. QED
    BY <1>1, <1>2, <1>3, <1>4 DEF SemaIInv, PermitsOK

(* A permit is taken: the swap found the value that the load found. *)
LEMMA TakeStep ==
  ASSUME Se!SemaAssumption, SemaIInv, NEW t \in Countings, Se!WaitCas(t), Se!SameVal(t)
  PROVE  SemaIInv'
  <1> USE DEF Se!Goto, Se!TypeOK, Se!SameVal
  <1>1. /\ spc[t] = "wait_cas" /\ spc' = [spc EXCEPT ![t] = "num_load"]
        /\ value = val[t] /\ value' = value - 1 /\ UNCHANGED <<num, val, tmp, left>>
    BY DEF Se!WaitCas
  <1>2. value \in Nat /\ value > 0
    BY <1>1 DEF SemaIInv, SawPermit
  <1>3. Se!Holders' = Se!Holders \cup {t} /\ t \notin Se!Holders
    BY <1>1 DEF SemaIInv, Se!Holders
  <1>4. Cardinality(Se!Holders') = Cardinality(Se!Holders) + 1
    BY <1>3, HoldersFinite, FS_AddElement
  <1>5. Se!TypeOK' /\ SawPermit'
    BY <1>1, <1>2 DEF SemaIInv, SawPermit, Se!Labels
  <1>6. PermitsOK'
    BY <1>1, <1>2, <1>4, HoldersFinite DEF SemaIInv, PermitsOK
  <1>7. QED
    BY <1>5, <1>6 DEF SemaIInv

(* A permit is given back. *)
LEMMA PostStep ==
  ASSUME Se!SemaAssumption, SemaIInv, NEW t \in Countings, Se!Post(t)
  PROVE  SemaIInv'
  <1> USE DEF Se!Goto, Se!TypeOK, Se!OneMore
  <1>1. /\ spc[t] = "post" /\ spc' = [spc EXCEPT ![t] = "wait_load"]
        /\ value' = value + 1 /\ UNCHANGED <<num, val, tmp, left>>
    BY DEF Se!Post
  <1>2. Se!Holders' = Se!Holders \ {t} /\ t \in Se!Holders
    BY <1>1 DEF SemaIInv, Se!Holders
  <1>3. Cardinality(Se!Holders') = Cardinality(Se!Holders) - 1
    BY <1>2, HoldersFinite, FS_RemoveElement
  <1>4. Se!TypeOK' /\ SawPermit'
    BY <1>1 DEF SemaIInv, SawPermit, Se!Labels
  <1>5. PermitsOK'
    BY <1>1, <1>3, HoldersFinite DEF SemaIInv, PermitsOK
  <1>6. QED
    BY <1>4, <1>5 DEF SemaIInv

LEMMA SemaNext == ASSUME Se!SemaAssumption, SemaIInv, [Se!Next]_(Se!vars) PROVE SemaIInv'
  <1>1. ASSUME NEW t \in Countings, Se!Step(t) PROVE SemaIInv'
    BY <1>1, QuietStep, TakeStep, PostStep DEF Se!Step
  <1>2. CASE UNCHANGED Se!vars
    BY <1>2 DEF Se!vars, SemaIInv, Se!TypeOK, PermitsOK, Se!Holders, SawPermit
  <1>3. QED
    BY <1>1, <1>2 DEF Se!Next

LEMMA SemaInvariant == ASSUME Se!SemaAssumption PROVE Se!Init /\ [][Se!Next]_(Se!vars) => []SemaIInv
  <1>1. Se!Init => SemaIInv
    BY SemaInit
  <1>2. SemaIInv /\ [Se!Next]_(Se!vars) => SemaIInv'
    BY SemaNext
  <1>3. QED
    BY <1>1, <1>2, PTL

(* No interleaving of loads, compare-and-swaps and posts creates or loses a   *)
(* permit, whatever number the semaphore starts with.                         *)
THEOREM PermitsKept ==
  ASSUME Se!SemaAssumption
  PROVE  Se!Init /\ [][Se!Next]_(Se!vars) => []Se!PermitsConserved
  <1>1. SemaIInv => Se!PermitsConserved
    BY SameCounting DEF SemaIInv, PermitsOK, Se!PermitsConserved
  <1>2. QED
    BY <1>1, SemaInvariant, PTL

-----------------------------------------------------------------------------
(* With one permit: the holder is alone, so what it has loaded of num is      *)
(* still num when it stores, and it has an iteration to end.                  *)
LoadedOK == \A t \in Countings :
  /\ spc[t] = "num_store" => tmp[t] = num
  /\ spc[t] \in {"wait_cas", "num_load", "num_store"} => left[t] > 0

LEMMA OneHolder ==
  ASSUME Se!SemaAssumption, SemaIInv, Permits = 1, NEW t \in Se!Holders, NEW u \in Se!Holders
  PROVE  t = u
  <1>1. Cardinality(Se!Holders) <= 1
    BY HoldersFinite DEF SemaIInv, Se!TypeOK, PermitsOK
  <1>2. Cardinality(Se!Holders \ {t}) = Cardinality(Se!Holders) - 1
    BY HoldersFinite, FS_RemoveElement
  <1>3. IsFiniteSet(Se!Holders \ {t})
    BY HoldersFinite, FS_RemoveElement
  <1>4. Cardinality(Se!Holders \ {t}) = 0
    BY <1>1, <1>2, <1>3, HoldersFinite, FS_CardinalityType
  <1>5. Se!Holders \ {t} = {}
    BY <1>3, <1>4, FS_EmptySet
  <1>6. QED
    BY <1>5

LEMMA LoadedNext ==
  ASSUME Se!SemaAssumption, Permits = 1
  PROVE  SemaIInv /\ LoadedOK /\ [Se!Next]_(Se!vars) => LoadedOK'
  <1> SUFFICES ASSUME SemaIInv, LoadedOK, [Se!Next]_(Se!vars) PROVE LoadedOK'
    OBVIOUS
  <1> USE DEF SemaIInv, Se!TypeOK, LoadedOK, Se!Goto
  <1>1. ASSUME NEW t \in Countings, Se!WaitLoad(t) \/ Se!WaitCas(t) \/ Se!Post(t) PROVE LoadedOK'
    BY <1>1 DEF Se!WaitLoad, Se!WaitCas, Se!Post
  <1>2. ASSUME NEW t \in Countings, Se!NumLoad(t) PROVE LoadedOK'
    BY <1>2 DEF Se!NumLoad
  <1>3. ASSUME NEW t \in Countings, Se!NumStore(t) PROVE LoadedOK'
    <2>1. \A u \in Countings : u # t => spc[u] \notin {"num_load", "num_store", "post"}
      BY <1>3, OneHolder DEF Se!NumStore, Se!Holders
    <2>2. QED
      BY <1>3, <2>1 DEF Se!NumStore
  <1>4. CASE UNCHANGED Se!vars
    BY <1>4 DEF Se!vars
  <1>5. QED
    BY <1>1, <1>2, <1>3, <1>4 DEF Se!Next, Se!Step

(* With its one permit, sema.c's plain num++ is as good as one atomic step.   *)
THEOREM CountedAtomically ==
  ASSUME Se!SemaAssumption, Permits = 1
  PROVE  Se!Init /\ [][Se!Next]_(Se!vars) => Se!ImplementsCounter
  <1>1. Se!Init => Se!Abs!Init /\ LoadedOK
    BY DEF Se!Init, Se!Abs!Init, LoadedOK
  <1>2. SemaIInv /\ LoadedOK /\ [Se!Next]_(Se!vars) => [Se!Abs!Next]_<<num, left>>
    <2> SUFFICES ASSUME SemaIInv, LoadedOK, [Se!Next]_(Se!vars)
                 PROVE  Se!Abs!Next \/ UNCHANGED <<num, left>>
      OBVIOUS
    <2>1. ASSUME NEW t \in Countings, Se!NumStore(t) PROVE Se!Abs!Next
      <3>1. num' = num + Se!delta[t] /\ left[t] > 0 /\ left' = [left EXCEPT ![t] = @ - 1]
        BY <2>1 DEF Se!NumStore, Se!Goto, LoadedOK, Se!delta
      <3>2. QED
        BY <3>1 DEF Se!Abs!Next, Se!Abs!Change
    <2>2. QED
      BY <2>1 DEF Se!Next, Se!Step, Se!WaitLoad, Se!WaitCas, Se!NumLoad, Se!Post, Se!vars
  <1>3. QED
    BY <1>1, <1>2, LoadedNext, SemaInvariant, PTL
       DEF Se!ImplementsCounter, Se!Abs!Spec, Se!Abs!vars

-----------------------------------------------------------------------------
(***************************************************************************)
(* square.c and pi.c.  The sum of the first i results exists: the provers  *)
(* do not take the recursive definition of SumTo at its word.              *)
(***************************************************************************)
Square(i) == [j \in 1..Jobs |-> (j - 1) * (j - 1)][i]
SumsTo(n, f) == f = [i \in 0..n |-> IF i = 0 THEN 0 ELSE f[i - 1] + Square(i)]

LEMMA SumsExist == \A n \in Nat : \E f : SumsTo(n, f)
  <1> DEFINE S == {n \in Nat : \E f : SumsTo(n, f)}
  <1>1. 0 \in S
    <2> DEFINE f == [i \in 0..0 |-> 0]
    <2>1. SumsTo(0, f)
      BY DEF SumsTo
    <2>2. QED
      BY <2>1
  <1>2. ASSUME NEW n \in Nat, n \in S PROVE n + 1 \in S
    <2>1. PICK f : SumsTo(n, f)
      BY <1>2
    <2> DEFINE g == [i \in 0..(n + 1) |-> IF i <= n THEN f[i] ELSE f[n] + Square(n + 1)]
    <2>2. \A i \in 0..n : f[i] = IF i = 0 THEN 0 ELSE f[i - 1] + Square(i)
      BY <2>1 DEF SumsTo
    <2>3. ASSUME NEW i \in 0..(n + 1)
          PROVE  g[i] = IF i = 0 THEN 0 ELSE g[i - 1] + Square(i)
      <3>1. CASE i = 0
        BY <2>2, <3>1
      <3>2. CASE i \in 1..n
        <4>1. i \in 0..n /\ i - 1 \in 0..(n + 1) /\ i - 1 <= n /\ i # 0
          BY <3>2
        <4>2. g[i] = f[i] /\ g[i - 1] = f[i - 1]
          BY <4>1
        <4>3. QED
          BY <2>2, <4>1, <4>2
      <3>3. CASE i = n + 1
        <4>1. i - 1 = n /\ n \in 0..(n + 1) /\ ~(i <= n) /\ i # 0
          BY <3>3
        <4>2. g[i] = f[n] + Square(n + 1) /\ g[i - 1] = f[n]
          BY <4>1
        <4>3. QED
          BY <3>3, <4>1, <4>2
      <3>4. QED
        BY <3>1, <3>2, <3>3
    <2>4. g = [i \in 0..(n + 1) |-> g[i]]
      OBVIOUS
    <2> HIDE DEF g
    <2>5. SumsTo(n + 1, g)
      BY <2>3, <2>4 DEF SumsTo
    <2>6. QED
      BY <2>5
  <1>3. Nat \subseteq S
    <2> HIDE DEF S
    <2>1. QED
      BY <1>1, <1>2, NatInductionOnSet
  <1>4. QED
    BY <1>3

LEMMA SumFacts ==
  ASSUME F!ForkJoinAssumption
  PROVE  \A i \in 0..Jobs : F!SumTo[i] = IF i = 0 THEN 0 ELSE F!SumTo[i - 1] + Square(i)
  <1>1. \E f : SumsTo(Jobs, f)
    BY SumsExist DEF F!ForkJoinAssumption
  <1>2. F!SumTo = CHOOSE f : SumsTo(Jobs, f)
    BY Zenon DEF F!SumTo, SumsTo, Square
  <1>3. SumsTo(Jobs, F!SumTo)
    BY <1>1, <1>2, Zenon
  <1>4. QED
    BY <1>3 DEF SumsTo

(* The inductive invariant: while threads are created none has been joined,   *)
(* and the sum is that of the threads joined, if all of those were created.   *)
ForkOK == /\ created \in 0..Jobs /\ joined \in 0..Jobs /\ (joined > 0 => created = Jobs)
          /\ tids \in [1..Jobs -> 0..Jobs]
          /\ \A i \in 1..Jobs : tids[i] \in {F!Unset, i}
          /\ finished \subseteq 1..Jobs /\ running \subseteq 1..Jobs
          /\ (\A i \in 1..joined : tids[i] # F!Unset) => sum = F!SumTo[joined]

LEMMA ForkInit == ASSUME F!ForkJoinAssumption, F!Init PROVE ForkOK
  <1>1. Jobs \in Nat /\ F!SumTo[0] = 0
    BY SumFacts DEF F!ForkJoinAssumption
  <1>2. QED
    BY <1>1 DEF F!Init, ForkOK, F!Unset

LEMMA ForkNext == ASSUME F!ForkJoinAssumption, ForkOK, [F!Next]_(F!vars) PROVE ForkOK'
  <1>1. Jobs \in Nat
    BY DEF F!ForkJoinAssumption
  <1> USE DEF F!Unset
  <1>2. CASE F!Create
    <2>1. /\ created < Jobs /\ created' = created + 1 /\ joined = 0 /\ created' \in 1..Jobs
          /\ joined' = joined /\ sum' = sum /\ finished' = finished
      BY <1>1, <1>2 DEF F!Create, ForkOK
    <2>2. \/ tids' = [tids EXCEPT ![created'] = created'] /\ running' = running \cup {created'}
          \/ tids' = tids /\ running' = running
      BY <1>2 DEF F!Create
    <2>3. \A i \in 1..Jobs : tids'[i] \in {F!Unset, i}
      BY <2>1, <2>2 DEF ForkOK
    <2>4. tids' \in [1..Jobs -> 0..Jobs] /\ running' \subseteq 1..Jobs
      <3>1. 1..Jobs \subseteq 0..Jobs
        BY <1>1
      <3>2. QED
        BY <2>1, <2>2, <3>1 DEF ForkOK
    <2>5. sum = F!SumTo[0]
      BY <2>1 DEF ForkOK
    <2>6. F!SumTo' = F!SumTo
      BY DEF F!SumTo
    <2>7. QED
      BY <1>1, <2>1, <2>3, <2>4, <2>5, <2>6 DEF ForkOK
  <1>3. CASE F!Run
    <2>1. F!SumTo' = F!SumTo
      BY DEF F!SumTo
    <2>2. QED
      BY <1>3, <2>1 DEF F!Run, ForkOK
  <1>4. CASE F!Join
    <2> DEFINE i == joined + 1
    <2>1. /\ created = Jobs /\ joined < Jobs /\ joined' = i /\ i \in 1..Jobs
          /\ created' = created /\ tids' = tids /\ running' = running
          /\ sum' = sum + res'
      BY <1>1, <1>4 DEF F!Join, F!Summed, ForkOK
    <2>2. \/ tids[i] \in finished /\ finished' = finished \ {tids[i]} /\ res' = Square(tids[i])
          \/ tids[i] = F!Unset /\ finished' = finished
      BY <1>4 DEF F!Join, Square
    <2>3. ASSUME \A k \in 1..i : tids[k] # F!Unset PROVE sum' = F!SumTo[i]
      <3>1. joined \in Nat /\ 1..joined \subseteq 1..i /\ i \in 1..i /\ i \in 0..Jobs /\ i # 0
        BY <2>1 DEF ForkOK
      <3>2. sum = F!SumTo[joined]
        BY <2>3, <3>1 DEF ForkOK
      <3>3. tids[i] = i /\ tids[i] # F!Unset
        BY <2>1, <2>3, <3>1 DEF ForkOK
      <3>4. sum' = sum + Square(i)
        BY <2>1, <2>2, <3>3
      <3>5. F!SumTo[i] = F!SumTo[i - 1] + Square(i) /\ i - 1 = joined
        BY <3>1, SumFacts
      <3>6. QED
        BY <3>2, <3>4, <3>5
    <2>4. F!SumTo' = F!SumTo
      BY DEF F!SumTo
    <2>5. joined' \in 0..Jobs /\ finished' \subseteq 1..Jobs
      <3>1. joined' \in 0..Jobs
        BY <1>1, <2>1
      <3>2. finished' \subseteq finished
        BY <2>2
      <3>3. QED
        BY <3>1, <3>2 DEF ForkOK
    <2> HIDE DEF i
    <2>6. QED
      BY <2>1, <2>3, <2>4, <2>5 DEF ForkOK
  <1>5. CASE UNCHANGED F!vars
    <2>1. F!SumTo' = F!SumTo
      BY DEF F!SumTo
    <2>2. QED
      BY <1>5, <2>1 DEF F!vars, ForkOK
  <1>6. QED
    BY <1>2, <1>3, <1>4, <1>5 DEF F!Next

LEMMA ForkSum ==
  ASSUME F!ForkJoinAssumption PROVE F!Init /\ [][F!Next]_(F!vars) => []F!SumAtJoin
  <1>1. F!Init => ForkOK
    BY ForkInit
  <1>2. ForkOK /\ [F!Next]_(F!vars) => ForkOK'
    BY ForkNext
  <1>3. ForkOK => F!SumAtJoin
    BY DEF ForkOK, F!SumAtJoin
  <1>4. QED
    BY <1>1, <1>2, <1>3, PTL

-----------------------------------------------------------------------------
(***************************************************************************)
(* Counters, for any number of threads and any number of iterations from   *)
(* 2.  The sets that it counts are sets of FiniteSets.                     *)
(***************************************************************************)
LEMMA SameSets ==
  /\ \A S : C!IsFiniteSet(S) <=> IsFiniteSet(S)
  /\ \A S : C!Cardinality(S) = Cardinality(S)
  <1>1. ASSUME NEW S PROVE C!IsFiniteSet(S) <=> IsFiniteSet(S)
    BY Zenon DEF C!IsFiniteSet, IsFiniteSet
  <1>2. ASSUME NEW S PROVE C!Cardinality(S) = Cardinality(S)
    BY Zenon DEF C!Cardinality, Cardinality
  <1>3. QED
    BY <1>1, <1>2

(***************************************************************************)
(* The iterations that the threads of S have behind them when l says what  *)
(* each has still to do.                                                   *)
(***************************************************************************)
DoneIn(S, l) == {d \in S \X (1..Iterations) : d[2] > l[d[1]]}

LEMMA DoneFinite ==
  ASSUME C!CountersAssumption, NEW S \in SUBSET Countings, NEW l
  PROVE  IsFiniteSet(DoneIn(S, l)) /\ Cardinality(DoneIn(S, l)) \in Nat
  <1>1. IsFiniteSet(S)
    BY SameSets, FS_Subset DEF C!CountersAssumption
  <1>2. IsFiniteSet(1..Iterations)
    BY FS_Interval DEF C!CountersAssumption
  <1>3. IsFiniteSet(S \X (1..Iterations))
    BY <1>1, <1>2, FS_Product
  <1>4. DoneIn(S, l) \in SUBSET (S \X (1..Iterations))
    BY DEF DoneIn
  <1>5. IsFiniteSet(DoneIn(S, l))
    BY <1>3, <1>4, FS_Subset
  <1>6. QED
    BY <1>5, FS_CardinalityType

(* None at first, all of them in the end. *)
LEMMA NoneDone ==
  ASSUME C!CountersAssumption, NEW S \in SUBSET Countings,
         NEW l, \A t \in Countings : l[t] = Iterations
  PROVE  Cardinality(DoneIn(S, l)) = 0
  <1>1. \A d \in S \X (1..Iterations) : d[1] \in Countings /\ d[2] \in 1..Iterations
    OBVIOUS
  <1>2. \A d \in S \X (1..Iterations) : ~(d[2] > l[d[1]])
    BY <1>1 DEF C!CountersAssumption
  <1>3. DoneIn(S, l) = {}
    BY <1>2 DEF DoneIn
  <1>4. QED
    BY <1>3, FS_EmptySet

LEMMA AllDone ==
  ASSUME C!CountersAssumption, NEW S \in SUBSET Countings,
         NEW l, \A t \in Countings : l[t] = 0
  PROVE  /\ Cardinality(S) \in Nat
         /\ Cardinality(DoneIn(S, l)) = Cardinality(S) * Iterations
  <1>1. \A d \in S \X (1..Iterations) : d[1] \in Countings /\ d[2] \in 1..Iterations
    OBVIOUS
  <1>2. \A d \in S \X (1..Iterations) : d[2] > l[d[1]]
    BY <1>1 DEF C!CountersAssumption
  <1>3. DoneIn(S, l) = S \X (1..Iterations)
    BY <1>2 DEF DoneIn
  <1>4. IsFiniteSet(S)
    BY SameSets, FS_Subset DEF C!CountersAssumption
  <1>5. IsFiniteSet(1..Iterations) /\ Cardinality(1..Iterations) = Iterations
    BY FS_Interval DEF C!CountersAssumption
  <1>6. QED
    BY <1>3, <1>4, <1>5, FS_Product, FS_CardinalityType

(* An iteration more of one thread. *)
Groups == SUBSET Countings
LEMMA OneMoreDone ==
  ASSUME C!CountersAssumption, NEW S \in Groups, NEW t \in Countings,
         NEW l \in [Countings -> 0..Iterations], l[t] > 0,
         NEW m, m = [l EXCEPT ![t] = l[t] - 1]
  PROVE  /\ t \in S => Cardinality(DoneIn(S, m)) = Cardinality(DoneIn(S, l)) + 1
         /\ t \notin S => Cardinality(DoneIn(S, m)) = Cardinality(DoneIn(S, l))
  <1> DEFINE e == <<t, l[t]>>
  <1> USE DEF Groups
  <1>1. \A u \in Countings : l[u] \in Int /\ m[u] = IF u = t THEN l[t] - 1 ELSE l[u]
    BY DEF C!CountersAssumption
  <1>2. ASSUME NEW u \in S, NEW i \in 1..Iterations
        PROVE  i > m[u] <=> i > l[u] \/ <<u, i>> = e
    <2>1. CASE u = t
      BY <1>1, <2>1 DEF C!CountersAssumption
    <2>2. CASE u # t
      BY <1>1, <2>2
    <2>3. QED
      BY <2>1, <2>2
  <1>3. \A d \in S \X (1..Iterations) : d[2] > m[d[1]] <=> d[2] > l[d[1]] \/ d = e
    <2>1. \A d \in S \X (1..Iterations) :
            d[1] \in S /\ d[2] \in 1..Iterations /\ d = <<d[1], d[2]>>
      OBVIOUS
    <2> HIDE DEF e
    <2>2. QED
      BY <1>2, <2>1
  <1>4. CASE t \in S
    <2>1. e \in S \X (1..Iterations) /\ e \notin DoneIn(S, l)
      BY <1>1, <1>4 DEF DoneIn, C!CountersAssumption
    <2>2. DoneIn(S, m) = DoneIn(S, l) \cup {e}
      <3> HIDE DEF e
      <3>1. QED
        BY <1>3, <2>1 DEF DoneIn
    <2>3. QED
      BY <1>4, <2>1, <2>2, DoneFinite, CardFacts
  <1>5. CASE t \notin S
    <2>1. e \notin S \X (1..Iterations)
      BY <1>5
    <2>2. DoneIn(S, m) = DoneIn(S, l)
      <3> HIDE DEF e
      <3>1. QED
        BY <1>3, <2>1 DEF DoneIn
    <2>3. QED
      BY <1>5, <2>2, DoneFinite
  <1>6. QED
    BY <1>4, <1>5

-----------------------------------------------------------------------------
(***************************************************************************)
(* The inductive invariant.                                                *)
(***************************************************************************)
CountersTyped == /\ program \in {"race_condition", "atomic"} \cup C!Locking
                 /\ holder \in Countings \cup {C!Free}
                 /\ count \in Int /\ acnt \in Int
                 /\ cpc \in [Countings -> {"loop", "load", "store", "unlock"}]
                 /\ reg \in [Countings -> Int]
                 /\ togo \in [Countings -> 0..Iterations]
                 /\ \A t \in Countings : cpc[t] \in {"load", "store"} => togo[t] > 0

(* Under a lock nobody changes the counter between the load and the store.    *)
LockOK == program \in C!Locking =>
            \A t \in Countings : /\ cpc[t] # "loop" => holder = t
                                 /\ cpc[t] = "store" => reg[t] = count

(* The increments and the decrements that have been stored.                   *)
UpThreads == {t \in Countings : C!Delta[t] = 1}
DownThreads == {t \in Countings : C!Delta[t] = -1}
UpsDone == Cardinality(DoneIn(UpThreads, togo))
DownsDone == Cardinality(DoneIn(DownThreads, togo))

(* Without a lock updates are lost, but none counts twice.                    *)
Between(v) == -DownsDone <= v /\ v <= UpsDone
CountOK == IF program \in C!Locking
           THEN count = UpsDone - DownsDone
           ELSE Between(count) /\ \A t \in Countings : cpc[t] = "store" => Between(reg[t])

(* atomic.c: the increments of the atomic counter are those begun.            *)
Begun == [t \in Countings |-> togo[t] - (IF cpc[t] \in {"load", "store"} THEN 1 ELSE 0)]
AtomicOK == program = "atomic" => acnt = Cardinality(DoneIn(Countings, Begun))

(* A thread that has stored once finds at least 1 when it loads again, so the *)
(* last store, which is some thread's last, makes the plain counter 2 or more. *)
TwoOK == program = "atomic" =>
           /\ \A t \in Countings : togo[t] < Iterations => count >= 1
           /\ \A t \in Countings : cpc[t] = "store" /\ togo[t] < Iterations => reg[t] >= 1
           /\ count >= 2 \/ \E t \in Countings : togo[t] > 0

CountersIInv == CountersTyped /\ LockOK /\ CountOK /\ AtomicOK /\ TwoOK

LEMMA DeltaFacts ==
  /\ UpThreads \in SUBSET Countings /\ DownThreads \in SUBSET Countings
  /\ UpThreads \cup DownThreads = Countings /\ UpThreads \cap DownThreads = {}
  /\ program = "atomic" => UpThreads = Countings /\ DownThreads = {}
  /\ \A t \in Countings : C!Delta[t] = IF t \in UpThreads THEN 1 ELSE -1
  BY DEF UpThreads, DownThreads, C!Delta, C!UpOrDown

LEMMA NumbersOfDone ==
  ASSUME C!CountersAssumption
  PROVE  UpsDone \in Nat /\ DownsDone \in Nat /\ (program = "atomic" => DownsDone = 0)
  <1>1. UpsDone \in Nat /\ DownsDone \in Nat
    BY DeltaFacts, DoneFinite DEF UpsDone, DownsDone
  <1>2. DoneIn({}, togo) = {}
    BY DEF DoneIn
  <1>3. program = "atomic" => DownsDone = 0
    BY <1>2, DeltaFacts, FS_EmptySet DEF DownsDone
  <1>4. QED
    BY <1>1, <1>3

LEMMA CountersInit == ASSUME C!CountersAssumption, C!Init PROVE CountersIInv
  <1>1. CountersTyped /\ LockOK
    BY DEF C!Init, CountersTyped, LockOK, C!Free, C!CountersAssumption
  <1>2. \A t \in Countings : togo[t] = Iterations /\ Begun[t] = Iterations /\ cpc[t] = "loop"
    BY DEF C!Init, Begun, C!CountersAssumption
  <1>3. UpsDone = 0 /\ DownsDone = 0 /\ Cardinality(DoneIn(Countings, Begun)) = 0
    BY <1>2, NoneDone, DeltaFacts DEF UpsDone, DownsDone
  <1>4. CountOK /\ AtomicOK
    BY <1>2, <1>3 DEF C!Init, CountOK, Between, AtomicOK
  <1>5. TwoOK
    <2>1. PICK t \in Countings : TRUE
      BY DEF C!CountersAssumption
    <2>2. togo[t] > 0
      BY <1>2 DEF C!CountersAssumption
    <2>3. QED
      BY <1>2, <2>2 DEF TwoOK, C!CountersAssumption
  <1>6. QED
    BY <1>1, <1>4, <1>5 DEF CountersIInv
-----------------------------------------------------------------------------
(***************************************************************************)
(* Every step keeps the invariant.                                         *)
(***************************************************************************)
(* What UpsDone and DownsDone depend on. *)
LEMMA SameNumbers ==
  ASSUME program' = program, togo' = togo
  PROVE  UpsDone' = UpsDone /\ DownsDone' = DownsDone
  BY DEF UpsDone, DownsDone, UpThreads, DownThreads, C!Delta, C!UpOrDown

LEMMA LockStep ==
  ASSUME C!CountersAssumption, CountersIInv, NEW t \in Countings, C!Lock(t)
  PROVE  CountersIInv'
  <1> USE DEF CountersIInv
  <1>1. program' = program /\ togo' = togo /\ count' = count /\ acnt' = acnt /\ reg' = reg
    BY DEF C!Lock
  <1>2. program \in C!Locking /\ program # "atomic"
    BY DEF C!Lock, C!Locking
  <1>3. CountersTyped'
    BY <1>1 DEF CountersTyped, C!Lock, C!Goto
  <1>4. LockOK'
    BY <1>1 DEF LockOK, CountersTyped, C!Lock, C!Goto, C!LockFree, C!Free, C!CountersAssumption
  <1>5. CountOK'
    BY <1>1, <1>2, SameNumbers DEF CountOK
  <1>6. QED
    BY <1>1, <1>2, <1>3, <1>4, <1>5 DEF AtomicOK, TwoOK

LEMMA FetchAddStep ==
  ASSUME C!CountersAssumption, CountersIInv, NEW t \in Countings, C!FetchAdd(t)
  PROVE  CountersIInv'
  <1> USE DEF CountersIInv
  <1>1. /\ program' = program /\ togo' = togo /\ count' = count /\ acnt' = acnt + 1
        /\ reg' = reg /\ holder' = holder
    BY DEF C!FetchAdd
  <1>2. program = "atomic" /\ program \notin C!Locking
    BY DEF C!FetchAdd, C!Locking
  <1>3. CountersTyped'
    BY <1>1 DEF CountersTyped, C!FetchAdd, C!Goto
  <1>4. LockOK'
    BY <1>1, <1>2 DEF LockOK
  <1>5. \A u \in Countings : cpc'[u] = "store" => cpc[u] = "store"
    BY DEF C!FetchAdd, C!Goto, CountersTyped
  <1>6. CountOK'
    BY <1>1, <1>2, <1>5, SameNumbers DEF CountOK, Between
  <1>7. AtomicOK'
    <2>1. Begun \in [Countings -> 0..Iterations]
      BY DEF Begun, CountersTyped, C!CountersAssumption
    <2>2. Begun[t] = togo[t] /\ togo[t] > 0
      BY DEF Begun, C!FetchAdd, C!Goto, CountersTyped
    <2>3. Begun' = [Begun EXCEPT ![t] = Begun[t] - 1]
      BY <1>1, <2>2 DEF Begun, C!FetchAdd, C!Goto, CountersTyped
    <2>4. Cardinality(DoneIn(Countings, Begun')) = Cardinality(DoneIn(Countings, Begun)) + 1
      BY <2>1, <2>2, <2>3, OneMoreDone DEF Groups
    <2>5. Cardinality(DoneIn(Countings, Begun))' = Cardinality(DoneIn(Countings, Begun'))
      BY DEF DoneIn
    <2>6. QED
      BY <1>1, <1>2, <2>4, <2>5 DEF AtomicOK
  <1>8. TwoOK'
    BY <1>1, <1>2, <1>5 DEF TwoOK
  <1>9. QED
    BY <1>3, <1>4, <1>6, <1>7, <1>8

LEMMA LoadStep ==
  ASSUME C!CountersAssumption, CountersIInv, NEW t \in Countings, C!Load(t)
  PROVE  CountersIInv'
  <1> USE DEF CountersIInv
  <1>1. /\ program' = program /\ togo' = togo /\ count' = count /\ acnt' = acnt
        /\ holder' = holder /\ reg' = [reg EXCEPT ![t] = count]
    BY DEF C!Load
  <1>2. /\ cpc[t] \in {"loop", "load"} /\ cpc' = [cpc EXCEPT ![t] = "store"]
        /\ togo[t] > 0
        /\ cpc[t] = "loop" => program = "race_condition"
    BY DEF C!Load, C!Goto, CountersTyped
  <1>3. CountersTyped'
    BY <1>1, <1>2 DEF CountersTyped
  <1>4. \A u \in Countings : /\ reg'[u] = IF u = t THEN count ELSE reg[u]
                             /\ cpc'[u] = IF u = t THEN "store" ELSE cpc[u]
    BY <1>1, <1>2 DEF CountersTyped
  <1>5. LockOK'
    BY <1>1, <1>2, <1>4 DEF LockOK, C!Locking
  <1>6. CountOK'
    BY <1>1, <1>4, SameNumbers DEF CountOK, Between
  <1>7. AtomicOK'
    <2>1. program = "atomic" => cpc[t] = "load"
      BY <1>2
    <2>2. program = "atomic" => Begun' = Begun
      BY <1>1, <1>4, <2>1 DEF Begun
    <2>3. QED
      BY <1>1, <2>2 DEF AtomicOK, DoneIn
  <1>8. TwoOK'
    BY <1>1, <1>4 DEF TwoOK
  <1>9. QED
    BY <1>3, <1>5, <1>6, <1>7, <1>8

LEMMA StoreStep ==
  ASSUME C!CountersAssumption, CountersIInv, NEW t \in Countings, C!Store(t)
  PROVE  CountersIInv'
  <1> USE DEF CountersIInv
  <1>1. /\ program' = program /\ acnt' = acnt /\ holder' = holder /\ reg' = reg
        /\ count' = reg[t] + C!Delta[t]
        /\ togo' = [togo EXCEPT ![t] = togo[t] - 1]
    BY DEF C!Store
  <1>2. /\ cpc[t] = "store" /\ togo[t] > 0
        /\ cpc' = [cpc EXCEPT ![t] = IF program \in C!Locking THEN "unlock" ELSE "loop"]
    BY DEF C!Store, C!Goto, CountersTyped
  <1>3. togo[t] \in 1..Iterations /\ reg[t] \in Int /\ Iterations \in Nat
    BY <1>2 DEF CountersTyped, C!CountersAssumption
  <1>4. \A u \in Countings : /\ togo'[u] = IF u = t THEN togo[t] - 1 ELSE togo[u]
                             /\ cpc'[u] # "loop" => IF u = t THEN program \in C!Locking
                                                             ELSE cpc[u] # "loop"
                             /\ cpc'[u] \in {"load", "store"} <=> cpc[u] \in {"load", "store"} /\ u # t
                             /\ cpc'[u] = "store" => cpc[u] = "store" /\ u # t
    BY <1>1, <1>2 DEF CountersTyped
  <1>5. C!Delta[t] = (IF t \in UpThreads THEN 1 ELSE -1) /\ (t \in DownThreads <=> t \notin UpThreads)
    BY DeltaFacts
  <1>6. CountersTyped'
    <2>1. count' \in Int
      BY <1>1, <1>3, <1>5
    <2>2. togo' \in [Countings -> 0..Iterations]
      BY <1>1, <1>3 DEF CountersTyped
    <2>3. cpc' \in [Countings -> {"loop", "load", "store", "unlock"}]
      BY <1>2 DEF CountersTyped
    <2>4. \A u \in Countings : cpc'[u] \in {"load", "store"} => togo'[u] > 0
      BY <1>4 DEF CountersTyped
    <2>5. QED
      BY <1>1, <2>1, <2>2, <2>3, <2>4 DEF CountersTyped
  <1>7. LockOK'
    <2>1. ASSUME program \in C!Locking, NEW u \in Countings, cpc'[u] # "loop" PROVE holder = u
      BY <1>2, <1>4, <2>1 DEF LockOK
    <2>2. ASSUME program \in C!Locking, NEW u \in Countings, cpc'[u] = "store" PROVE FALSE
      BY <1>2, <1>4, <2>2 DEF LockOK
    <2>3. QED
      BY <1>1, <2>1, <2>2 DEF LockOK
  <1>8. /\ UpsDone' = UpsDone + (IF t \in UpThreads THEN 1 ELSE 0)
        /\ DownsDone' = DownsDone + (IF t \in DownThreads THEN 1 ELSE 0)
        /\ UpsDone \in Nat /\ DownsDone \in Nat
    <2>1. togo \in [Countings -> 0..Iterations]
      BY DEF CountersTyped
    <2>2. UpThreads' = UpThreads /\ DownThreads' = DownThreads
      BY <1>1 DEF UpThreads, DownThreads, C!Delta, C!UpOrDown
    <2>3. UpsDone' = Cardinality(DoneIn(UpThreads, togo')) /\ DownsDone' = Cardinality(DoneIn(DownThreads, togo'))
      BY <2>2 DEF UpsDone, DownsDone, DoneIn
    <2>4. /\ UpThreads \in Groups /\ DownThreads \in Groups
          /\ togo[t] > 0 /\ togo' = [togo EXCEPT ![t] = togo[t] - 1]
      BY <1>1, <1>2, DeltaFacts DEF Groups
    <2>5. ASSUME NEW S \in Groups
          PROVE  /\ t \in S => Cardinality(DoneIn(S, togo')) = Cardinality(DoneIn(S, togo)) + 1
                 /\ t \notin S => Cardinality(DoneIn(S, togo')) = Cardinality(DoneIn(S, togo))
      <3>1. PICK l : l = togo
        OBVIOUS
      <3>2. PICK m : m = togo'
        OBVIOUS
      <3>3. l \in [Countings -> 0..Iterations] /\ l[t] > 0 /\ m = [l EXCEPT ![t] = l[t] - 1]
        BY <2>1, <2>4, <3>1, <3>2
      <3>4. /\ t \in S => Cardinality(DoneIn(S, m)) = Cardinality(DoneIn(S, l)) + 1
            /\ t \notin S => Cardinality(DoneIn(S, m)) = Cardinality(DoneIn(S, l))
        BY ONLY C!CountersAssumption, <3>3, OneMoreDone, t \in Countings, S \in Groups
      <3>5. QED
        BY <3>1, <3>2, <3>4
    <2>6. UpsDone' = UpsDone + (IF t \in UpThreads THEN 1 ELSE 0)
      <3>1. /\ t \in UpThreads => Cardinality(DoneIn(UpThreads, togo')) = Cardinality(DoneIn(UpThreads, togo)) + 1
            /\ t \notin UpThreads => Cardinality(DoneIn(UpThreads, togo')) = Cardinality(DoneIn(UpThreads, togo))
        BY <2>4, <2>5, Zenon
      <3>2. /\ t \in UpThreads => UpsDone' = UpsDone + 1
            /\ t \notin UpThreads => UpsDone' = UpsDone
        BY <2>3, <3>1, Zenon DEF UpsDone
      <3>3. QED
        BY <3>2, NumbersOfDone
    <2>7. DownsDone' = DownsDone + (IF t \in DownThreads THEN 1 ELSE 0)
      <3>1. /\ t \in DownThreads => Cardinality(DoneIn(DownThreads, togo')) = Cardinality(DoneIn(DownThreads, togo)) + 1
            /\ t \notin DownThreads => Cardinality(DoneIn(DownThreads, togo')) = Cardinality(DoneIn(DownThreads, togo))
        BY <2>4, <2>5, Zenon
      <3>2. /\ t \in DownThreads => DownsDone' = DownsDone + 1
            /\ t \notin DownThreads => DownsDone' = DownsDone
        BY <2>3, <3>1, Zenon DEF DownsDone
      <3>3. QED
        BY <3>2, NumbersOfDone
    <2>8. QED
      BY <2>6, <2>7, NumbersOfDone
  <1>9. CountOK'
    <2>1. CASE program \in C!Locking
      <3>1. reg[t] = count /\ count = UpsDone - DownsDone
        BY <1>2, <2>1 DEF LockOK, CountOK
      <3>2. count' = UpsDone' - DownsDone'
        BY <1>1, <1>3, <1>5, <1>8, <3>1
      <3>3. QED
        BY <1>1, <2>1, <3>2 DEF CountOK
    <2>2. CASE program \notin C!Locking
      <3>1. -DownsDone <= reg[t] /\ reg[t] <= UpsDone
        BY <1>2, <2>2 DEF CountOK, Between
      <3>2. -DownsDone' <= count' /\ count' <= UpsDone'
        BY <1>1, <1>3, <1>5, <1>8, <3>1
      <3>3. ASSUME NEW u \in Countings, cpc'[u] = "store"
            PROVE  -DownsDone' <= reg'[u] /\ reg'[u] <= UpsDone'
        <4>1. -DownsDone <= reg[u] /\ reg[u] <= UpsDone /\ reg[u] \in Int
          BY <1>4, <2>2, <3>3 DEF CountOK, Between, CountersTyped
        <4>2. QED
          BY <1>1, <1>8, <4>1
      <3>4. QED
        BY <1>1, <2>2, <3>2, <3>3 DEF CountOK, Between
    <2>3. QED
      BY <2>1, <2>2
  <1>10. AtomicOK'
    <2>1. ASSUME program = "atomic" PROVE Begun' = Begun
      <3>1. \A u \in Countings : togo[u] \in Int
        BY DEF CountersTyped
      <3>2. ASSUME NEW u \in Countings
            PROVE  togo'[u] - (IF cpc'[u] \in {"load", "store"} THEN 1 ELSE 0)
                     = togo[u] - (IF cpc[u] \in {"load", "store"} THEN 1 ELSE 0)
        BY <1>2, <1>4, <3>1
      <3>3. QED
        BY <3>2 DEF Begun
    <2>2. QED
      BY <1>1, <2>1 DEF AtomicOK, DoneIn
  <1>11. TwoOK'
    <2> SUFFICES ASSUME program = "atomic" PROVE TwoOK'
      BY <1>1 DEF TwoOK
    <2>1. reg[t] >= 0
      <3>1. -DownsDone <= reg[t] /\ DownsDone = 0
        BY <1>2, NumbersOfDone DEF CountOK, Between, C!Locking
      <3>2. QED
        BY <1>3, <3>1
    <2>2. count' = reg[t] + 1
      BY <1>1, <1>5, DeltaFacts
    <2>3. count' >= 1
      BY <1>3, <2>1, <2>2
    <2>4. \A u \in Countings : cpc'[u] = "store" /\ togo'[u] < Iterations => reg'[u] >= 1
      BY <1>1, <1>4 DEF TwoOK
    <2>5. count' >= 2 \/ \E u \in Countings : togo'[u] > 0
      <3>1. CASE togo[t] > 1
        BY <1>3, <1>4, <3>1
      <3>2. CASE togo[t] = 1
        <4>1. togo[t] < Iterations
          BY <3>2 DEF C!CountersAssumption
        <4>2. reg[t] >= 1
          BY <1>2, <4>1 DEF TwoOK
        <4>3. QED
          BY <1>3, <2>2, <4>2
      <3>3. QED
        BY <1>3, <3>1, <3>2
    <2>6. QED
      BY <2>3, <2>4, <2>5 DEF TwoOK
  <1>12. QED
    BY <1>6, <1>7, <1>9, <1>10, <1>11

LEMMA UnlockStep ==
  ASSUME C!CountersAssumption, CountersIInv, NEW t \in Countings, C!Unlock(t)
  PROVE  CountersIInv'
  <1> USE DEF CountersIInv
  <1>1. /\ program' = program /\ togo' = togo /\ count' = count /\ acnt' = acnt
        /\ reg' = reg /\ holder' = C!Free
    BY DEF C!Unlock
  <1>2. cpc[t] = "unlock" /\ cpc' = [cpc EXCEPT ![t] = "loop"]
    BY DEF C!Unlock, C!Goto
  <1>3. CountersTyped'
    BY <1>1, <1>2 DEF CountersTyped
  <1>4. \A u \in Countings : cpc'[u] = IF u = t THEN "loop" ELSE cpc[u]
    BY <1>2 DEF CountersTyped
  <1>5. LockOK'
    <2>1. ASSUME program \in C!Locking, NEW u \in Countings, cpc'[u] # "loop" PROVE FALSE
      BY <1>2, <1>4, <2>1 DEF LockOK
    <2>2. QED
      BY <1>1, <2>1 DEF LockOK
  <1>6. CountOK'
    BY <1>1, <1>4, SameNumbers DEF CountOK, Between
  <1>7. AtomicOK'
    <2>1. Begun' = Begun
      BY <1>1, <1>2, <1>4 DEF Begun
    <2>2. QED
      BY <1>1, <2>1 DEF AtomicOK, DoneIn
  <1>8. TwoOK'
    BY <1>1, <1>4 DEF TwoOK
  <1>9. QED
    BY <1>3, <1>5, <1>6, <1>7, <1>8

LEMMA CountersNext ==
  ASSUME C!CountersAssumption, CountersIInv, [C!Next]_(C!vars)
  PROVE  CountersIInv'
  <1>1. CASE UNCHANGED C!vars
    BY <1>1 DEF C!vars, CountersIInv, CountersTyped, LockOK, CountOK, Between,
                UpsDone, DownsDone, UpThreads, DownThreads,
                DoneIn, C!Delta, C!UpOrDown, AtomicOK, Begun, TwoOK
  <1>2. ASSUME NEW t \in Countings, C!Step(t) PROVE CountersIInv'
    BY <1>2, LockStep, FetchAddStep, LoadStep, StoreStep, UnlockStep DEF C!Step
  <1>3. QED
    BY <1>1, <1>2 DEF C!Next

LEMMA CountersInvariant ==
  ASSUME C!CountersAssumption
  PROVE  C!Init /\ [][C!Next]_(C!vars) => []CountersIInv
  <1>1. C!Init => CountersIInv
    BY CountersInit
  <1>2. CountersIInv /\ [C!Next]_(C!vars) => CountersIInv'
    BY CountersNext
  <1>3. QED
    BY <1>1, <1>2, PTL

-----------------------------------------------------------------------------
(***************************************************************************)
(* The assertions after the joins.  All the iterations of the threads that *)
(* count up are C!Ups, those of the others C!Downs.                            *)
(***************************************************************************)
LEMMA NumbersAtJoin ==
  ASSUME C!CountersAssumption, \A t \in Countings : togo[t] = 0
  PROVE  UpsDone = C!Ups /\ DownsDone = C!Downs
  <1>1. /\ Cardinality(UpThreads) \in Nat /\ UpsDone = Cardinality(UpThreads) * Iterations
        /\ Cardinality(DownThreads) \in Nat /\ DownsDone = Cardinality(DownThreads) * Iterations
    BY AllDone, DeltaFacts DEF UpsDone, DownsDone
  <1>2. Cardinality(Countings) = Cardinality(UpThreads) + Cardinality(DownThreads)
    <2>1. IsFiniteSet(UpThreads) /\ IsFiniteSet(DownThreads)
      BY SameSets, DeltaFacts, FS_Subset DEF C!CountersAssumption
    <2>2. Cardinality(UpThreads \cap DownThreads) = 0
      BY DeltaFacts, FS_EmptySet
    <2>3. Cardinality(UpThreads \cup DownThreads)
            = Cardinality(UpThreads) + Cardinality(DownThreads) - Cardinality(UpThreads \cap DownThreads)
      BY <2>1, FS_Union
    <2>4. Cardinality(UpThreads \cup DownThreads) = Cardinality(Countings)
      BY DeltaFacts, Zenon
    <2>5. Cardinality(UpThreads) \in Nat /\ Cardinality(DownThreads) \in Nat
      BY <1>1
    <2>6. QED
      BY ONLY <2>2, <2>3, <2>4, <2>5
  <1> DEFINE u == Cardinality(UpThreads)
             d == Cardinality(DownThreads)
  <1>3. C!Ups = u * Iterations /\ C!Downs = (u + d) * Iterations - u * Iterations
    BY <1>2, SameSets DEF C!Ups, C!Downs, UpThreads
  <1>4. u \in Nat /\ d \in Nat /\ Iterations \in Nat
    BY <1>1 DEF C!CountersAssumption
  <1> HIDE DEF u, d
  <1>5. (u + d) * Iterations - u * Iterations = d * Iterations
    BY <1>4
  <1>6. QED
    BY <1>1, <1>3, <1>5 DEF u, d

(* C!AtJoin: what mutex.c, spinlock.c and atomic.c assert, and how far the      *)
(* counters without a lock can be off.                                        *)
THEOREM JoinedRight ==
  ASSUME C!CountersAssumption
  PROVE  C!Init /\ [][C!Next]_(C!vars) => []C!AtJoin
  <1>1. ASSUME CountersIInv, C!Joined PROVE /\ program \in C!Locking => count = C!Ups - C!Downs
                                            /\ program = "race_condition" => -C!Downs <= count /\ count <= C!Ups
                                            /\ program = "atomic" => acnt = C!Ups /\ 2 <= count /\ count <= C!Ups
    <2>1. \A t \in Countings : togo[t] = 0 /\ cpc[t] = "loop"
      BY <1>1 DEF C!Joined
    <2>2. UpsDone = C!Ups /\ DownsDone = C!Downs
      BY <2>1, NumbersAtJoin
    <2>3. program \in C!Locking => count = C!Ups - C!Downs
      BY <1>1, <2>2 DEF CountersIInv, CountOK
    <2>4. program \notin C!Locking => -C!Downs <= count /\ count <= C!Ups
      BY <1>1, <2>2 DEF CountersIInv, CountOK, Between
    <2>5. ASSUME program = "atomic" PROVE acnt = C!Ups
      <3>1. \A t \in Countings : Begun[t] = 0
        BY <2>1 DEF Begun
      <3>2. Cardinality(DoneIn(Countings, Begun)) = Cardinality(Countings) * Iterations
        BY <3>1, AllDone
      <3>3. C!Ups = Cardinality(Countings) * Iterations
        BY <2>5, DeltaFacts, SameSets DEF C!Ups, UpThreads
      <3>4. QED
        BY <1>1, <2>5, <3>2, <3>3 DEF CountersIInv, AtomicOK
    <2>6. program = "atomic" => 2 <= count
      BY <1>1, <2>1 DEF CountersIInv, TwoOK, CountersTyped
    <2>7. QED
      BY <2>3, <2>4, <2>5, <2>6 DEF C!Locking
  <1>2. CountersIInv => C!AtJoin
    BY <1>1 DEF C!AtJoin
  <1>3. QED
    BY <1>2, CountersInvariant, PTL

(* C!ImplementsAtomic: with a lock, each count++ and count-- is as good as one  *)
(* step.                                                                      *)
THEOREM CountsAtOnce ==
  ASSUME C!CountersAssumption
  PROVE  C!Init /\ [][C!Next]_(C!vars) => C!ImplementsAtomic
  <1>1. ASSUME CountersIInv, [C!Next]_(C!vars), program \in C!Locking PROVE [C!Atomic!Next]_<<count, togo>>
    <2>1. CASE UNCHANGED C!vars
      BY <2>1 DEF C!vars
    <2>2. ASSUME NEW t \in Countings, C!Step(t) PROVE [C!Atomic!Next]_<<count, togo>>
      <3>1. CASE C!Store(t)
        <4>1. count' = reg[t] + C!Delta[t] /\ togo' = [togo EXCEPT ![t] = @ - 1]
          BY <3>1 DEF C!Store
        <4>2. reg[t] = count /\ C!Delta[t] = C!UpOrDown[t] /\ togo[t] > 0
          BY <1>1, <3>1 DEF CountersIInv, LockOK, CountersTyped, C!Store, C!Goto, C!Delta, C!Locking
        <4>3. C!Atomic!Change(t)
          BY <4>1, <4>2 DEF C!Atomic!Change
        <4>4. QED
          BY <4>3 DEF C!Atomic!Next
      <3>2. CASE ~C!Store(t)
        BY <2>2, <3>2 DEF C!Step, C!Lock, C!FetchAdd, C!Load, C!Unlock
      <3>3. QED
        BY <3>1, <3>2
    <2>3. QED
      BY <1>1, <2>1, <2>2 DEF C!Next
  <1>2. CountersIInv /\ [C!Next]_(C!vars) => [(program \in C!Locking) => [C!Atomic!Next]_<<count, togo>>]_(C!vars)
    BY <1>1
  <1>3. QED
    BY <1>2, CountersInvariant, PTL DEF C!ImplementsAtomic

-----------------------------------------------------------------------------
(***************************************************************************)
(* sbuf.c, for any threads and any size of the ring, as long as no more    *)
(* items are inserted than an int can count (FewInserts): front and rear   *)
(* do not wrap.                                                            *)
(***************************************************************************)
FewInserts == MaxInserts <= IntMax

-----------------------------------------------------------------------------
(***************************************************************************)
(* The inductive invariant: every slot is free, promised to a producer,    *)
(* holds an item, or was just emptied; every item in the queue is          *)
(* announced, not yet announced, or promised to a consumer.                *)
(***************************************************************************)
Inserting == {t \in Producers : at[t] \in {"wait_mutex", "access"}}
Inserted == {t \in Producers : at[t] \in {"post_mutex", "announce"}}
Removing == {t \in Workers : at[t] \in {"wait_mutex", "access"}}
Removed == {t \in Workers : at[t] \in {"post_mutex", "announce"}}
Inside == {t \in Sb!Threads : at[t] \in {"access", "post_mutex"}}

SbufTyped == /\ buf \in [Sb!Slots -> Items] /\ front \in Nat /\ rear \in Nat
             /\ slots \in Nat /\ items \in Nat
             /\ at \in [Sb!Threads -> Sb!Labels]
             /\ held \in [Sb!Threads -> Items]
             /\ inserts \in 0..MaxInserts
             /\ queue \in Seq(Items)

SbufMutexOK == \/ lock = 1 /\ Inside = {}
               \/ lock = 0 /\ \E t \in Sb!Threads : Inside = {t}

ItemsOK == items + Cardinality(Inserted) + Cardinality(Removing) = Len(queue)
SlotsOK == slots + Cardinality(Removed) + Cardinality(Inserting) = Length - Len(queue)

(* rear counts the inserts that reached the ring, and the items are those in  *)
(* the slots after front.                                                     *)
SbufCountOK == rear + Cardinality(Inserting) = inserts /\ front + Len(queue) = rear
SbufRingOK == \A i \in 1..Len(queue) : buf[(front + i) % Length] = queue[i]

SbufIInv == SbufTyped /\ SbufMutexOK /\ ItemsOK /\ SlotsOK /\ SbufCountOK /\ SbufRingOK

LEMMA SetsFinite ==
  ASSUME Sb!SbufAssumption
  PROVE  /\ IsFiniteSet(Inserting) /\ IsFiniteSet(Inserted)
         /\ IsFiniteSet(Removing) /\ IsFiniteSet(Removed)
         /\ Cardinality(Inserting) \in Nat /\ Cardinality(Inserted) \in Nat
         /\ Cardinality(Removing) \in Nat /\ Cardinality(Removed) \in Nat
  <1>1. /\ Inserting \in SUBSET Producers /\ Inserted \in SUBSET Producers
        /\ Removing \in SUBSET Workers /\ Removed \in SUBSET Workers
    BY DEF Inserting, Inserted, Removing, Removed
  <1>2. /\ IsFiniteSet(Inserting) /\ IsFiniteSet(Inserted)
        /\ IsFiniteSet(Removing) /\ IsFiniteSet(Removed)
    <2>1. IsFiniteSet(Producers) /\ IsFiniteSet(Workers)
      <3>1. \A S : Sb!IsFiniteSet(S) <=> IsFiniteSet(S)
        BY Zenon DEF Sb!IsFiniteSet, IsFiniteSet
      <3>2. QED
        BY <3>1 DEF Sb!SbufAssumption
    <2>2. QED
      BY <1>1, <2>1, FS_Subset
  <1>3. QED
    BY <1>2, FS_CardinalityType

LEMMA SbufInit == ASSUME Sb!SbufAssumption, Sb!Init PROVE SbufIInv
  <1>1. SbufTyped
    BY DEF Sb!Init, SbufTyped, Sb!Labels, Sb!SbufAssumption, Sb!Threads
  <1>2. Inserting = {} /\ Inserted = {} /\ Removing = {} /\ Removed = {} /\ Inside = {}
    BY DEF Sb!Init, Inserting, Inserted, Removing, Removed, Inside, Sb!Threads
  <1>3. Cardinality({}) = 0 /\ Len(queue) = 0
    BY FS_EmptySet DEF Sb!Init
  <1>4. SbufMutexOK
    BY <1>2 DEF Sb!Init, SbufMutexOK
  <1>5. ItemsOK /\ SlotsOK /\ SbufCountOK
    BY <1>2, <1>3 DEF Sb!Init, ItemsOK, SlotsOK, SbufCountOK, Sb!SbufAssumption
  <1>6. SbufRingOK
    BY <1>3 DEF SbufRingOK
  <1>7. QED
    BY <1>1, <1>4, <1>5, <1>6 DEF SbufIInv

(* What a thread at the ring finds there. *)
LEMMA AtRing ==
  ASSUME Sb!SbufAssumption, SbufIInv, NEW t \in Sb!Threads, at[t] = "access"
  PROVE  /\ Len(queue) \in 0..Length
         /\ t \in Producers => t \in Inserting /\ Len(queue) < Length
         /\ t \in Workers => t \in Removing /\ Len(queue) > 0
  <1>1. Len(queue) \in Nat /\ slots \in Nat /\ items \in Nat /\ Length \in Nat
    BY DEF SbufIInv, SbufTyped, Sb!SbufAssumption
  <1>2. t \in Producers => t \in Inserting /\ Cardinality(Inserting) >= 1
    <2>1. t \in Producers => t \in Inserting
      BY DEF Inserting
    <2>2. t \in Inserting => Cardinality(Inserting) >= 1
      BY SetsFinite, CardFacts
    <2>3. QED
      BY <2>1, <2>2
  <1>3. t \in Workers => t \in Removing /\ Cardinality(Removing) >= 1
    <2>1. t \in Workers => t \in Removing
      BY DEF Removing
    <2>2. t \in Removing => Cardinality(Removing) >= 1
      BY SetsFinite, CardFacts
    <2>3. QED
      BY <2>1, <2>2
  <1>4. QED
    BY <1>1, <1>2, <1>3, SetsFinite DEF SbufIInv, ItemsOK, SlotsOK

(* The mutex is taken and given back by the one thread that has it. *)
LEMMA SbufMutexKept ==
  ASSUME SbufTyped, SbufMutexOK, NEW t \in Sb!Threads, NEW to \in Sb!Labels, at' = [at EXCEPT ![t] = to],
         \/ at[t] \in {"idle", "announce"} /\ to \in {"wait_mutex", "idle"} /\ lock' = lock
         \/ at[t] = "wait_mutex" /\ to = "access" /\ lock > 0 /\ lock' = lock - 1
         \/ at[t] = "access" /\ to = "post_mutex" /\ lock' = lock
         \/ at[t] = "post_mutex" /\ to = "announce" /\ lock' = lock + 1
  PROVE  SbufMutexOK'
  <1>1. CASE at[t] \in {"idle", "announce"} /\ to \in {"wait_mutex", "idle"} /\ lock' = lock
    <2>1. Inside' = Inside
      BY <1>1 DEF SbufTyped, Inside
    <2>2. QED
      BY <1>1, <2>1 DEF SbufMutexOK
  <1>2. CASE at[t] = "wait_mutex" /\ to = "access" /\ lock > 0 /\ lock' = lock - 1
    <2>1. Inside = {} /\ lock = 1
      BY <1>2 DEF SbufMutexOK
    <2>2. Inside' = {t}
      BY <1>2, <2>1 DEF SbufTyped, Inside
    <2>3. QED
      BY <1>2, <2>1, <2>2 DEF SbufMutexOK
  <1>3. CASE at[t] = "access" /\ to = "post_mutex" /\ lock' = lock
    <2>1. Inside' = Inside
      BY <1>3 DEF SbufTyped, Inside
    <2>2. QED
      BY <1>3, <2>1 DEF SbufMutexOK
  <1>4. CASE at[t] = "post_mutex" /\ to = "announce" /\ lock' = lock + 1
    <2>1. t \in Inside
      BY <1>4 DEF Inside
    <2>2. lock = 0 /\ Inside = {t}
      BY <2>1 DEF SbufMutexOK
    <2>3. Inside' = {}
      BY <1>4, <2>2 DEF SbufTyped, Inside
    <2>4. QED
      BY <1>4, <2>2, <2>3 DEF SbufMutexOK
  <1>5. QED
    BY <1>1, <1>2, <1>3, <1>4

LEMMA InsertCallStep ==
  ASSUME Sb!SbufAssumption, SbufIInv, NEW t \in Producers, NEW x \in Items, Sb!InsertCall(t, x)
  PROVE  SbufIInv'
  <1>1. /\ at[t] = "idle" /\ at' = [at EXCEPT ![t] = "wait_mutex"] /\ t \in Sb!Threads /\ t \notin Workers
        /\ slots > 0 /\ slots' = slots - 1 /\ held' = [held EXCEPT ![t] = x]
        /\ inserts < MaxInserts /\ inserts' = inserts + 1
        /\ UNCHANGED <<Sb!ring, lock, items>>
    BY DEF Sb!InsertCall, Sb!Goto, Sb!SlotFree, Sb!Threads, Sb!SbufAssumption
  <1>2. SbufTyped /\ SbufMutexOK /\ ItemsOK /\ SlotsOK /\ SbufCountOK /\ SbufRingOK
    BY DEF SbufIInv
  <1>3. SbufTyped'
    BY <1>1, <1>2 DEF SbufTyped, Sb!ring, Sb!Labels, Sb!SbufAssumption
  <1>4. SbufMutexOK'
    BY <1>1, <1>2, SbufMutexKept DEF Sb!Labels
  <1>5. /\ Inserting' = Inserting \cup {t} /\ t \notin Inserting
        /\ Inserted' = Inserted /\ Removing' = Removing /\ Removed' = Removed
    BY <1>1, <1>2 DEF SbufTyped, Inserting, Inserted, Removing, Removed, Sb!Threads
  <1>6. Cardinality(Inserting') = Cardinality(Inserting) + 1
    BY <1>5, SetsFinite, CardFacts
  <1>7. queue' = queue /\ rear' = rear /\ front' = front /\ buf' = buf /\ items' = items
    BY <1>1 DEF Sb!ring
  <1>8. ItemsOK' /\ SbufRingOK'
    BY <1>1, <1>2, <1>5, <1>7 DEF ItemsOK, SbufRingOK
  <1>9. SlotsOK'
    BY <1>1, <1>2, <1>5, <1>6, <1>7, SetsFinite DEF SlotsOK, SbufTyped, Sb!SbufAssumption
  <1>10. SbufCountOK'
    BY <1>1, <1>2, <1>6, <1>7, SetsFinite DEF SbufCountOK, SbufTyped
  <1>11. QED
    BY <1>3, <1>4, <1>8, <1>9, <1>10 DEF SbufIInv

LEMMA RemoveCallStep ==
  ASSUME Sb!SbufAssumption, SbufIInv, NEW t \in Workers, Sb!RemoveCall(t)
  PROVE  SbufIInv'
  <1>1. /\ at[t] = "idle" /\ at' = [at EXCEPT ![t] = "wait_mutex"] /\ t \in Sb!Threads /\ t \notin Producers
        /\ items > 0 /\ items' = items - 1
        /\ UNCHANGED <<Sb!ring, lock, slots, held, inserts>>
    BY DEF Sb!RemoveCall, Sb!Goto, Sb!Threads, Sb!SbufAssumption
  <1>2. SbufTyped /\ SbufMutexOK /\ ItemsOK /\ SlotsOK /\ SbufCountOK /\ SbufRingOK
    BY DEF SbufIInv
  <1>3. SbufTyped'
    BY <1>1, <1>2 DEF SbufTyped, Sb!ring, Sb!Labels, Sb!SbufAssumption
  <1>4. SbufMutexOK'
    BY <1>1, <1>2, SbufMutexKept DEF Sb!Labels
  <1>5. /\ Removing' = Removing \cup {t} /\ t \notin Removing
        /\ Inserted' = Inserted /\ Inserting' = Inserting /\ Removed' = Removed
    BY <1>1, <1>2 DEF SbufTyped, Inserting, Inserted, Removing, Removed, Sb!Threads
  <1>6. Cardinality(Removing') = Cardinality(Removing) + 1
    BY <1>5, SetsFinite, CardFacts
  <1>7. queue' = queue /\ rear' = rear /\ front' = front /\ buf' = buf
    BY <1>1 DEF Sb!ring
  <1>8. ItemsOK'
    <2>1. /\ items + Cardinality(Inserted) + Cardinality(Removing) = Len(queue)
          /\ items \in Nat /\ Cardinality(Inserted) \in Nat /\ Cardinality(Removing) \in Nat
      BY <1>2, SetsFinite DEF ItemsOK, SbufTyped
    <2>2. items' + Cardinality(Inserted') + Cardinality(Removing') = Len(queue')
      BY ONLY <1>1, <1>5, <1>6, <1>7, <2>1
    <2>3. QED
      BY <2>2 DEF ItemsOK
  <1>9. SlotsOK' /\ SbufCountOK' /\ SbufRingOK'
    BY <1>1, <1>2, <1>5, <1>7 DEF SlotsOK, SbufCountOK, SbufRingOK
  <1>10. QED
    BY <1>3, <1>4, <1>8, <1>9 DEF SbufIInv

(* Taking and giving back the mutex. *)
LEMMA MutexStep ==
  ASSUME Sb!SbufAssumption, SbufIInv, NEW t \in Sb!Threads, Sb!WaitMutex(t) \/ Sb!PostMutex(t)
  PROVE  SbufIInv'
  <1>1. /\ \/ /\ at[t] = "wait_mutex" /\ at' = [at EXCEPT ![t] = "access"]
              /\ lock > 0 /\ lock' = lock - 1
           \/ /\ at[t] = "post_mutex" /\ at' = [at EXCEPT ![t] = "announce"]
              /\ lock' = lock + 1
        /\ UNCHANGED <<buf, front, rear, queue, slots, items, held, inserts>>
    BY DEF Sb!WaitMutex, Sb!PostMutex, Sb!Goto, Sb!MutexFree, Sb!ring
  <1>2. SbufTyped /\ SbufMutexOK /\ ItemsOK /\ SlotsOK /\ SbufCountOK /\ SbufRingOK
    BY DEF SbufIInv
  <1>3. SbufTyped'
    BY <1>1, <1>2 DEF SbufTyped, Sb!Labels
  <1>4. SbufMutexOK'
    <2>1. CASE Sb!WaitMutex(t)
      <3>1. /\ at[t] = "wait_mutex" /\ at' = [at EXCEPT ![t] = "access"]
            /\ lock > 0 /\ lock' = lock - 1 /\ "access" \in Sb!Labels
        BY <2>1 DEF Sb!WaitMutex, Sb!Goto, Sb!MutexFree, Sb!Labels
      <3>2. QED
        BY <1>2, <3>1, SbufMutexKept
    <2>2. CASE Sb!PostMutex(t)
      <3>1. /\ at[t] = "post_mutex" /\ at' = [at EXCEPT ![t] = "announce"]
            /\ lock' = lock + 1 /\ "announce" \in Sb!Labels
        BY <2>2 DEF Sb!PostMutex, Sb!Goto, Sb!Labels
      <3>2. QED
        BY <1>2, <3>1, SbufMutexKept
    <2>3. QED
      BY <2>1, <2>2
  <1>5. Inserting' = Inserting /\ Inserted' = Inserted /\ Removing' = Removing /\ Removed' = Removed
    <2>1. \A u \in Sb!Threads :
            /\ at'[u] \in {"wait_mutex", "access"} <=> at[u] \in {"wait_mutex", "access"}
            /\ at'[u] \in {"post_mutex", "announce"} <=> at[u] \in {"post_mutex", "announce"}
      BY <1>1, <1>2 DEF SbufTyped
    <2>2. QED
      BY ONLY <2>1 DEF Inserting, Inserted, Removing, Removed, Sb!Threads
  <1>6. ItemsOK' /\ SlotsOK' /\ SbufCountOK' /\ SbufRingOK'
    BY <1>1, <1>2, <1>5 DEF ItemsOK, SlotsOK, SbufCountOK, SbufRingOK
  <1>7. QED
    BY <1>3, <1>4, <1>6 DEF SbufIInv

(* Announcing an item or a slot. *)
LEMMA AnnounceItemStep ==
  ASSUME Sb!SbufAssumption, SbufIInv, NEW t \in Producers, Sb!AnnounceItem(t)
  PROVE  SbufIInv'
  <1>1. /\ at[t] = "announce" /\ at' = [at EXCEPT ![t] = "idle"] /\ t \in Sb!Threads /\ t \notin Workers
        /\ items' = items + 1
        /\ UNCHANGED <<buf, front, rear, queue, lock, slots, held, inserts>>
    BY DEF Sb!AnnounceItem, Sb!Goto, Sb!Threads, Sb!SbufAssumption, Sb!ring
  <1>2. SbufTyped /\ SbufMutexOK /\ ItemsOK /\ SlotsOK /\ SbufCountOK /\ SbufRingOK
    BY DEF SbufIInv
  <1>3. SbufTyped'
    BY <1>1, <1>2 DEF SbufTyped, Sb!Labels
  <1>4. SbufMutexOK'
    BY <1>1, <1>2, SbufMutexKept DEF Sb!Labels
  <1>5. /\ Inserted' = Inserted \ {t} /\ t \in Inserted
        /\ Removing' = Removing /\ Inserting' = Inserting /\ Removed' = Removed
    BY <1>1, <1>2 DEF SbufTyped, Inserting, Inserted, Removing, Removed, Sb!Threads
  <1>6. Cardinality(Inserted') = Cardinality(Inserted) - 1
    BY <1>5, SetsFinite, CardFacts
  <1>7. ItemsOK'
    <2>1. /\ items + Cardinality(Inserted) + Cardinality(Removing) = Len(queue)
          /\ items \in Nat /\ Cardinality(Inserted) \in Nat /\ Cardinality(Removing) \in Nat
      BY <1>2, SetsFinite DEF ItemsOK, SbufTyped
    <2>2. items' + Cardinality(Inserted') + Cardinality(Removing') = Len(queue')
      BY ONLY <1>1, <1>5, <1>6, <2>1
    <2>3. QED
      BY <2>2 DEF ItemsOK
  <1>8. SlotsOK' /\ SbufCountOK' /\ SbufRingOK'
    BY <1>1, <1>2, <1>5 DEF SlotsOK, SbufCountOK, SbufRingOK
  <1>9. QED
    BY <1>3, <1>4, <1>7, <1>8 DEF SbufIInv

LEMMA AnnounceSlotStep ==
  ASSUME Sb!SbufAssumption, SbufIInv, NEW t \in Workers, Sb!AnnounceSlot(t)
  PROVE  SbufIInv'
  <1>1. /\ at[t] = "announce" /\ at' = [at EXCEPT ![t] = "idle"] /\ t \in Sb!Threads /\ t \notin Producers
        /\ slots' = slots + 1
        /\ UNCHANGED <<buf, front, rear, queue, lock, items, held, inserts>>
    BY DEF Sb!AnnounceSlot, Sb!SlotsAfterRemove, Sb!Goto, Sb!Threads, Sb!SbufAssumption, Sb!ring
  <1>2. SbufTyped /\ SbufMutexOK /\ ItemsOK /\ SlotsOK /\ SbufCountOK /\ SbufRingOK
    BY DEF SbufIInv
  <1>3. SbufTyped'
    BY <1>1, <1>2 DEF SbufTyped, Sb!Labels
  <1>4. SbufMutexOK'
    BY <1>1, <1>2, SbufMutexKept DEF Sb!Labels
  <1>5. /\ Removed' = Removed \ {t} /\ t \in Removed
        /\ Removing' = Removing /\ Inserting' = Inserting /\ Inserted' = Inserted
    BY <1>1, <1>2 DEF SbufTyped, Inserting, Inserted, Removing, Removed, Sb!Threads
  <1>6. Cardinality(Removed') = Cardinality(Removed) - 1
    BY <1>5, SetsFinite, CardFacts
  <1>7. SlotsOK'
    <2>1. /\ slots + Cardinality(Removed) + Cardinality(Inserting) = Length - Len(queue)
          /\ slots \in Nat /\ Cardinality(Removed) \in Nat /\ Cardinality(Inserting) \in Nat
      BY <1>2, SetsFinite DEF SlotsOK, SbufTyped
    <2>2. slots' + Cardinality(Removed') + Cardinality(Inserting') = Length - Len(queue')
      BY ONLY <1>1, <1>5, <1>6, <2>1
    <2>3. QED
      BY <2>2 DEF SlotsOK
  <1>8. ItemsOK' /\ SbufCountOK' /\ SbufRingOK'
    BY <1>1, <1>2, <1>5 DEF ItemsOK, SbufCountOK, SbufRingOK
  <1>9. QED
    BY <1>3, <1>4, <1>7, <1>8 DEF SbufIInv

(* An item goes into a slot that none of the queue's items is in. *)
LEMMA InsertStep ==
  ASSUME Sb!SbufAssumption, FewInserts, SbufIInv, NEW t \in Producers, Sb!Insert(t)
  PROVE  SbufIInv' /\ Len(queue) < Length /\ queue' = Append(queue, held[t]) /\ held' = held
  <1>1. /\ at[t] = "access" /\ at' = [at EXCEPT ![t] = "post_mutex"] /\ t \in Sb!Threads /\ t \notin Workers
        /\ rear' = Sb!Succ(rear) /\ buf' = Sb!Written(Sb!Index(rear'), held[t])
        /\ queue' = Append(queue, held[t])
        /\ UNCHANGED <<front, lock, slots, items, held, inserts>>
    BY DEF Sb!Insert, Sb!Goto, Sb!Threads, Sb!SbufAssumption, Sb!sems
  <1>2. SbufTyped /\ SbufMutexOK /\ ItemsOK /\ SlotsOK /\ SbufCountOK /\ SbufRingOK
    BY DEF SbufIInv
  <1>3. t \in Inserting /\ Len(queue) < Length
    BY <1>1, AtRing
  <1>4. Cardinality(Inserting) >= 1
    BY <1>3, SetsFinite, CardFacts
  <1>5. rear \in Nat /\ rear + 1 <= IntMax /\ rear' = rear + 1 /\ front + Len(queue) = rear
    BY <1>1, <1>2, <1>4, SetsFinite DEF SbufCountOK, SbufTyped, Sb!Succ, FewInserts, Sb!SbufAssumption
  <1> DEFINE k == (rear + 1) % Length
             m == Len(queue)
  <1>6. Length \in Nat \ {0} /\ m \in Nat /\ front \in Nat /\ held[t] \in Items /\ queue \in Seq(Items)
    BY <1>1, <1>2 DEF Sb!SbufAssumption, SbufTyped
  <1>7. k \in Sb!Slots /\ buf' = [buf EXCEPT ![k] = held[t]]
    <2>1. k \in 0..(Length - 1)
      <3>1. rear + 1 \in Nat
        BY <1>5
      <3>2. QED
        BY <1>6, <3>1, DivFacts
    <2>2. Sb!Index(rear') = k
      <3>1. rear' >= 0 /\ rear' = rear + 1
        BY ONLY <1>5
      <3>2. QED
        BY ONLY <3>1 DEF Sb!Index
    <2>3. QED
      BY <1>1, <2>1, <2>2 DEF Sb!Written, Sb!Slots
  <1>8. /\ queue' \in Seq(Items) /\ Len(queue') = m + 1
        /\ \A i \in 1..m : queue'[i] = queue[i]
        /\ queue'[m + 1] = held[t]
    BY <1>1, <1>6, AppendProperties
  <1>9. SbufTyped'
    BY <1>1, <1>2, <1>5, <1>6, <1>7, <1>8 DEF SbufTyped, Sb!Labels
  <1>10. SbufMutexOK'
    BY <1>1, <1>2, SbufMutexKept DEF Sb!Labels
  <1>11. /\ Inserting' = Inserting \ {t} /\ Inserted' = Inserted \cup {t} /\ t \notin Inserted
         /\ Removing' = Removing /\ Removed' = Removed
    BY <1>1, <1>2 DEF SbufTyped, Inserting, Inserted, Removing, Removed, Sb!Threads
  <1>12. /\ Cardinality(Inserting') = Cardinality(Inserting) - 1
         /\ Cardinality(Inserted') = Cardinality(Inserted) + 1
    BY <1>3, <1>11, SetsFinite, CardFacts
  <1>13. ItemsOK' /\ SlotsOK' /\ SbufCountOK'
    <2>1. /\ Cardinality(Removing') = Cardinality(Removing) /\ Cardinality(Removed') = Cardinality(Removed)
          /\ slots' = slots /\ items' = items /\ front' = front /\ inserts' = inserts
      BY <1>1, <1>11
    <2>2. m \in Nat /\ slots \in Nat /\ items \in Nat /\ Length \in Nat /\ Len(queue') = m + 1 /\ inserts \in Nat
      BY <1>2, <1>6, <1>8 DEF SbufTyped
    <2>3. /\ Cardinality(Inserting) \in Nat /\ Cardinality(Inserted) \in Nat
          /\ Cardinality(Removing) \in Nat /\ Cardinality(Removed) \in Nat
      BY SetsFinite
    <2>4. ItemsOK'
      <3>1. items + Cardinality(Inserted) + Cardinality(Removing) = m
        BY <1>2 DEF ItemsOK
      <3>2. items' + Cardinality(Inserted') + Cardinality(Removing') = Len(queue')
        BY ONLY <1>12, <2>1, <2>2, <2>3, <3>1, SMTT(30)
      <3>3. QED
        BY <3>2 DEF ItemsOK
    <2>5. SlotsOK'
      <3>1. slots + Cardinality(Removed) + Cardinality(Inserting) = Length - m
        BY <1>2 DEF SlotsOK
      <3>2. slots' + Cardinality(Removed') + Cardinality(Inserting') = Length - Len(queue')
        BY ONLY <1>12, <2>1, <2>2, <2>3, <3>1, SMTT(30)
      <3>3. QED
        BY <3>2 DEF SlotsOK
    <2>6. SbufCountOK'
      <3>1. rear + Cardinality(Inserting) = inserts /\ front + m = rear /\ front \in Nat /\ rear \in Nat
        BY <1>2, <1>5, <1>6 DEF SbufCountOK
      <3>2. rear' + Cardinality(Inserting') = inserts' /\ front' + Len(queue') = rear'
        BY ONLY <1>5, <1>12, <2>1, <2>2, <2>3, <3>1
      <3>3. QED
        BY <3>2 DEF SbufCountOK
    <2>7. QED
      BY <2>4, <2>5, <2>6
  <1>14. SbufRingOK'
    <2>1. ASSUME NEW i \in 1..(m + 1) PROVE buf'[(front + i) % Length] = queue'[i]
      <3>1. CASE i = m + 1
        <4>1. front + i = rear + 1
          BY <1>5, <1>6, <3>1
        <4>2. QED
          BY <1>2, <1>7, <1>8, <3>1, <4>1 DEF SbufTyped
      <3>2. CASE i \in 1..m
        <4>1. front + i \in Nat /\ rear + 1 \in Nat /\ front + i < rear + 1 /\ (rear + 1) - (front + i) < Length
          BY <1>3, <1>5, <1>6, <3>2
        <4>2. (front + i) % Length # k
          BY <1>6, <4>1, ModDistinct
        <4>3. (front + i) % Length \in Sb!Slots
          BY <1>6, <4>1, DivFacts DEF Sb!Slots
        <4>4. buf'[(front + i) % Length] = buf[(front + i) % Length]
          BY <1>2, <1>7, <4>2, <4>3 DEF SbufTyped
        <4>5. QED
          BY <1>2, <1>8, <3>2, <4>4 DEF SbufRingOK
      <3>3. QED
        BY <1>6, <3>1, <3>2
    <2>2. QED
      BY <1>1, <1>8, <2>1 DEF SbufRingOK
  <1>15. QED
    BY <1>1, <1>3, <1>9, <1>10, <1>13, <1>14 DEF SbufIInv

(* The oldest item comes out of the slot after front. *)
LEMMA RemoveStep ==
  ASSUME Sb!SbufAssumption, FewInserts, SbufIInv, NEW t \in Workers, Sb!Remove(t)
  PROVE  /\ SbufIInv' /\ queue # <<>> /\ queue' = Tail(queue)
         /\ held' = [held EXCEPT ![t] = Head(queue)]
  <1>1. /\ at[t] = "access" /\ at' = [at EXCEPT ![t] = "post_mutex"] /\ t \in Sb!Threads /\ t \notin Producers
        /\ front' = Sb!Succ(front) /\ queue' = Tail(queue)
        /\ \E x \in Sb!Readable(Sb!Index(front')) : held' = [held EXCEPT ![t] = x]
        /\ UNCHANGED <<buf, rear, lock, slots, items, inserts>>
    BY DEF Sb!Remove, Sb!Goto, Sb!Threads, Sb!SbufAssumption, Sb!sems
  <1>2. SbufTyped /\ SbufMutexOK /\ ItemsOK /\ SlotsOK /\ SbufCountOK /\ SbufRingOK
    BY DEF SbufIInv
  <1>3. t \in Removing /\ Len(queue) > 0
    BY <1>1, AtRing
  <1> DEFINE m == Len(queue)
             k == (front + 1) % Length
  <1>4. /\ Length \in Nat \ {0} /\ m \in Nat \ {0} /\ front \in Nat /\ queue \in Seq(Items) /\ queue # <<>>
    BY <1>2, <1>3 DEF Sb!SbufAssumption, SbufTyped
  <1>5. front' = front + 1 /\ front + m = rear
    BY <1>1, <1>2, <1>4, SetsFinite DEF SbufCountOK, SbufTyped, Sb!Succ, FewInserts, Sb!SbufAssumption
  <1>6. /\ queue' \in Seq(Items) /\ Len(queue') = m - 1
        /\ \A i \in 1..(m - 1) : queue'[i] = queue[i + 1]
        /\ Head(queue) = queue[1] /\ queue[1] \in Items
    BY <1>1, <1>4, HeadTailProperties
  <1>7. k \in Sb!Slots /\ Sb!Index(front') = k /\ buf[k] = queue[1]
    <2>1. k \in 0..(Length - 1)
      <3>1. front + 1 \in Nat
        BY <1>4
      <3>2. QED
        BY <1>4, <3>1, DivFacts
    <2>2. Sb!Index(front') = k
      <3>1. front' >= 0 /\ front' = front + 1
        BY ONLY <1>4, <1>5
      <3>2. QED
        BY ONLY <3>1 DEF Sb!Index
    <2>3. 1 \in 1..Len(queue)
      BY <1>4
    <2>4. QED
      BY <1>2, <2>1, <2>2, <2>3 DEF SbufRingOK, Sb!Slots
  <1>8. held' = [held EXCEPT ![t] = queue[1]]
    BY <1>1, <1>7 DEF Sb!Readable
  <1>9. SbufTyped'
    BY <1>1, <1>2, <1>4, <1>5, <1>6, <1>8 DEF SbufTyped, Sb!Labels
  <1>10. SbufMutexOK'
    BY <1>1, <1>2, SbufMutexKept DEF Sb!Labels
  <1>11. /\ Removing' = Removing \ {t} /\ Removed' = Removed \cup {t} /\ t \notin Removed
         /\ Inserting' = Inserting /\ Inserted' = Inserted
    BY <1>1, <1>2 DEF SbufTyped, Inserting, Inserted, Removing, Removed, Sb!Threads
  <1>12. /\ Cardinality(Removing') = Cardinality(Removing) - 1
         /\ Cardinality(Removed') = Cardinality(Removed) + 1
    BY <1>3, <1>11, SetsFinite, CardFacts
  <1>13. ItemsOK' /\ SlotsOK' /\ SbufCountOK'
    <2>1. /\ Cardinality(Inserting') = Cardinality(Inserting) /\ Cardinality(Inserted') = Cardinality(Inserted)
          /\ slots' = slots /\ items' = items /\ rear' = rear /\ inserts' = inserts
      BY <1>1, <1>11
    <2>2. m \in Nat /\ slots \in Nat /\ items \in Nat /\ Length \in Nat /\ Len(queue') = m - 1 /\ inserts \in Nat
      BY <1>2, <1>4, <1>6 DEF SbufTyped
    <2>3. /\ Cardinality(Inserting) \in Nat /\ Cardinality(Inserted) \in Nat
          /\ Cardinality(Removing) \in Nat /\ Cardinality(Removed) \in Nat
      BY SetsFinite
    <2>4. ItemsOK'
      <3>1. items + Cardinality(Inserted) + Cardinality(Removing) = m
        BY <1>2 DEF ItemsOK
      <3>2. items' + Cardinality(Inserted') + Cardinality(Removing') = Len(queue')
        BY ONLY <1>12, <2>1, <2>2, <2>3, <3>1, SMTT(30)
      <3>3. QED
        BY <3>2 DEF ItemsOK
    <2>5. SlotsOK'
      <3>1. slots + Cardinality(Removed) + Cardinality(Inserting) = Length - m
        BY <1>2 DEF SlotsOK
      <3>2. /\ slots' = slots /\ Cardinality(Removed') = Cardinality(Removed) + 1
            /\ Cardinality(Inserting') = Cardinality(Inserting) /\ Len(queue') = m - 1
            /\ slots \in Nat /\ Cardinality(Removed) \in Nat /\ Cardinality(Inserting) \in Nat
            /\ m \in Nat /\ Length \in Nat
        BY ONLY <1>12, <2>1, <2>2, <2>3
      <3> HIDE DEF m
      <3>3. slots' + Cardinality(Removed') + Cardinality(Inserting') = Length - Len(queue')
        BY ONLY <3>1, <3>2
      <3>4. QED
        BY <3>3 DEF SlotsOK
    <2>6. SbufCountOK'
      <3>1. rear + Cardinality(Inserting) = inserts /\ front + m = rear /\ front \in Nat
        BY <1>2, <1>4 DEF SbufCountOK
      <3>2. rear' + Cardinality(Inserting') = inserts' /\ front' + Len(queue') = rear'
        BY ONLY <1>5, <2>1, <2>2, <2>3, <3>1
      <3>3. QED
        BY <3>2 DEF SbufCountOK
    <2>7. QED
      BY <2>4, <2>5, <2>6
  <1>14. SbufRingOK'
    <2>1. ASSUME NEW i \in 1..(m - 1) PROVE buf[(front + 1 + i) % Length] = queue'[i]
      <3>1. i + 1 \in 1..m /\ front + 1 + i = front + (i + 1)
        BY <1>4
      <3>2. QED
        BY <1>2, <1>6, <3>1 DEF SbufRingOK
    <2>2. QED
      BY <1>1, <1>5, <1>6, <2>1 DEF SbufRingOK
  <1>15. QED
    BY <1>1, <1>4, <1>6, <1>8, <1>9, <1>10, <1>13, <1>14 DEF SbufIInv

LEMMA SbufNext == Sb!SbufAssumption /\ FewInserts /\ SbufIInv /\ [Sb!Next]_(Sb!vars) => SbufIInv'
  <1> SUFFICES ASSUME Sb!SbufAssumption, FewInserts, SbufIInv, [Sb!Next]_(Sb!vars) PROVE SbufIInv'
    OBVIOUS
  <1>1. ASSUME NEW t \in Producers, Sb!Produce(t) PROVE SbufIInv'
    <2>1. CASE \E x \in Items : Sb!InsertCall(t, x)
      BY <2>1, InsertCallStep
    <2>2. CASE Sb!WaitMutex(t) \/ Sb!PostMutex(t)
      BY <2>2, MutexStep DEF Sb!Threads
    <2>3. CASE Sb!Insert(t)
      BY <2>3, InsertStep
    <2>4. CASE Sb!AnnounceItem(t)
      BY <2>4, AnnounceItemStep
    <2>5. QED
      BY <1>1, <2>1, <2>2, <2>3, <2>4 DEF Sb!Produce
  <1>2. ASSUME NEW t \in Workers, Sb!Consume(t) PROVE SbufIInv'
    <2>1. CASE Sb!RemoveCall(t)
      BY <2>1, RemoveCallStep
    <2>2. CASE Sb!WaitMutex(t) \/ Sb!PostMutex(t)
      BY <2>2, MutexStep DEF Sb!Threads
    <2>3. CASE Sb!Remove(t)
      BY <2>3, RemoveStep
    <2>4. CASE Sb!AnnounceSlot(t)
      BY <2>4, AnnounceSlotStep
    <2>5. QED
      BY <1>2, <2>1, <2>2, <2>3, <2>4 DEF Sb!Consume
  <1>3. CASE UNCHANGED Sb!vars
    BY <1>3 DEF Sb!vars, Sb!ring, Sb!sems, SbufIInv, SbufTyped, SbufMutexOK, ItemsOK, SlotsOK, SbufCountOK, SbufRingOK,
                Inside, Inserting, Inserted, Removing, Removed
  <1>4. QED
    BY <1>1, <1>2, <1>3 DEF Sb!Next

LEMMA SbufInvariant == ASSUME Sb!SbufAssumption, FewInserts PROVE Sb!Init /\ [][Sb!Next]_(Sb!vars) => []SbufIInv
  <1>1. Sb!Init => SbufIInv
    BY SbufInit
  <1>2. QED
    BY <1>1, SbufNext, PTL

-----------------------------------------------------------------------------
(* Every variable keeps its type: front and rear are ints, and no semaphore   *)
(* ever holds more than it should.                                            *)
THEOREM SbufTypeCorrect ==
  ASSUME Sb!SbufAssumption, FewInserts PROVE Sb!Init /\ [][Sb!Next]_(Sb!vars) => []Sb!TypeOK
  <1>1. SbufIInv => Sb!TypeOK
    <2> SUFFICES ASSUME SbufIInv PROVE Sb!TypeOK
      OBVIOUS
    <2>1. SbufTyped /\ Len(queue) \in Nat /\ Length \in Nat /\ IntMax \in Nat /\ MaxInserts \in Nat
      BY DEF SbufIInv, SbufTyped, Sb!SbufAssumption
    <2>2. slots \in 0..Length /\ items \in 0..Length
      <3>1. slots + Cardinality(Removed) + Cardinality(Inserting) = Length - Len(queue)
        BY DEF SbufIInv, SlotsOK
      <3>2. items + Cardinality(Inserted) + Cardinality(Removing) = Len(queue)
        BY DEF SbufIInv, ItemsOK
      <3>3. slots \in Nat /\ items \in Nat
        BY <2>1 DEF SbufTyped
      <3>4. QED
        BY <2>1, <3>1, <3>2, <3>3, SetsFinite
    <2>3. rear <= IntMax /\ front <= IntMax
      <3>1. rear + Cardinality(Inserting) = inserts /\ front + Len(queue) = rear
        BY DEF SbufIInv, SbufCountOK
      <3>2. rear \in Nat /\ front \in Nat /\ inserts \in 0..MaxInserts
        BY <2>1 DEF SbufTyped
      <3>3. QED
        BY <2>1, <3>1, <3>2, SetsFinite DEF FewInserts
    <2>4. front \in Sb!Ints /\ rear \in Sb!Ints
      BY <2>1, <2>3 DEF SbufTyped, Sb!Ints
    <2>5. lock \in {0, 1}
      BY DEF SbufIInv, SbufMutexOK
    <2>6. QED
      BY <2>1, <2>2, <2>4, <2>5 DEF SbufTyped, Sb!TypeOK
  <1>2. QED
    BY <1>1, SbufInvariant, PTL

(* No two threads are at the ring at once.                                    *)
THEOREM Exclusion ==
  ASSUME Sb!SbufAssumption, FewInserts PROVE Sb!Init /\ [][Sb!Next]_(Sb!vars) => []Sb!MutualExclusion
  <1>1. SbufIInv => Sb!MutualExclusion
    BY DEF SbufIInv, SbufMutexOK, Inside, Sb!MutualExclusion
  <1>2. QED
    BY <1>1, SbufInvariant, PTL

(* A producer at the ring finds a free slot, a consumer an item, however many *)
(* threads were between their two waits.                                      *)
THEOREM PromisesKept ==
  ASSUME Sb!SbufAssumption, FewInserts PROVE Sb!Init /\ [][Sb!Next]_(Sb!vars) => []Sb!PromiseKept
  <1>1. SbufIInv => Sb!PromiseKept
    <2> SUFFICES ASSUME SbufIInv, NEW t \in Sb!Threads, at[t] = "access"
                 PROVE  IF t \in Producers THEN Len(queue) < Length ELSE queue # <<>>
      BY DEF Sb!PromiseKept
    <2>1. queue = <<>> => Len(queue) = 0
      OBVIOUS
    <2>2. QED
      BY <2>1, AtRing DEF Sb!Threads
  <1>2. QED
    BY <1>1, SbufInvariant, PTL

(* What the comments of sbuf.c:27 and sbuf.h:14-15 say of front and rear is   *)
(* true at every step.                                                        *)
THEOREM CommentsHold ==
  ASSUME Sb!SbufAssumption, FewInserts PROVE Sb!Init /\ [][Sb!Next]_(Sb!vars) => []Sb!FrontAndRear
  <1>1. SbufIInv => Sb!FrontAndRear
    <2> SUFFICES ASSUME SbufIInv PROVE Sb!FrontAndRear
      OBVIOUS
    <2>1. /\ front \in Nat /\ rear \in Nat /\ Len(queue) \in Nat /\ queue \in Seq(Items)
          /\ inserts \in 0..MaxInserts
      BY DEF SbufIInv, SbufTyped
    <2>2. front + Len(queue) = rear /\ rear + Cardinality(Inserting) = inserts
      BY DEF SbufIInv, SbufCountOK
    <2>3. queue = <<>> <=> Len(queue) = 0
      BY <2>1, EmptySeq
    <2>4. queue = <<>> <=> front = rear
      BY <2>1, <2>2, <2>3
    <2>5. ASSUME queue # <<>>
          PROVE  /\ buf[Sb!Index(Sb!Succ(front))] = Head(queue)
                 /\ buf[Sb!Index(rear)] = queue[Len(queue)]
      <3>1. Len(queue) >= 1 /\ 1 \in 1..Len(queue) /\ Len(queue) \in 1..Len(queue)
        BY <2>1, <2>3, <2>5
      <3>2. front < IntMax /\ IntMax \in Nat
        BY <2>1, <2>2, <3>1, SetsFinite DEF FewInserts, Sb!SbufAssumption
      <3>3. Sb!Index(Sb!Succ(front)) = (front + 1) % Length /\ Sb!Index(rear) = (front + Len(queue)) % Length
        BY <2>1, <2>2, <3>2 DEF Sb!Index, Sb!Succ
      <3>4. Head(queue) = queue[1]
        BY <2>1, <2>5, HeadTailProperties
      <3>5. QED
        BY <3>1, <3>3, <3>4 DEF SbufIInv, SbufRingOK
    <2>6. QED
      BY <2>4, <2>5 DEF Sb!FrontAndRear
  <1>2. QED
    BY <1>1, SbufInvariant, PTL

-----------------------------------------------------------------------------
(* The buffer implements BoundedFifo: an insert puts its item in when it      *)
(* writes the ring, a remove gets the oldest one when it reads it.            *)
sbufGot == [c \in Workers |-> held[c]]

LEMMA SbufInitRefines == ASSUME Sb!SbufAssumption, Sb!Init PROVE Sb!Abs!Init
  <1>1. PICK zero \in Items : held = [t \in Sb!Threads |-> zero]
    BY DEF Sb!Init
  <1>2. sbufGot = [c \in Workers |-> zero]
    BY <1>1 DEF sbufGot, Sb!Threads
  <1>3. QED
    BY <1>2 DEF Sb!Init, Sb!Abs!Init, sbufGot

LEMMA SbufNextRefines ==
  Sb!SbufAssumption /\ FewInserts /\ SbufIInv /\ [Sb!Next]_(Sb!vars) => [Sb!Abs!Next]_<<queue, sbufGot>>
  <1> SUFFICES ASSUME Sb!SbufAssumption, FewInserts, SbufIInv, [Sb!Next]_(Sb!vars)
               PROVE  Sb!Abs!Next \/ UNCHANGED <<queue, sbufGot>>
    OBVIOUS
  <1>1. held \in [Sb!Threads -> Items] /\ Workers \subseteq Sb!Threads /\ Producers \subseteq Sb!Threads
    BY DEF SbufIInv, SbufTyped, Sb!Threads
  <1>2. ASSUME NEW t \in Producers, Sb!Insert(t) PROVE Sb!Abs!Next
    <2>1. Len(queue) < Length /\ queue' = Append(queue, held[t]) /\ held' = held /\ held[t] \in Items
      BY <1>1, <1>2, InsertStep
    <2>2. sbufGot' = sbufGot
      BY <2>1 DEF sbufGot
    <2>3. Sb!Abs!Put(held[t])
      BY <2>1, <2>2 DEF Sb!Abs!Put, sbufGot
    <2>4. QED
      BY <2>1, <2>3 DEF Sb!Abs!Next
  <1>3. ASSUME NEW t \in Workers, Sb!Remove(t) PROVE Sb!Abs!Next
    <2>1. /\ queue # <<>> /\ queue' = Tail(queue)
          /\ held' = [held EXCEPT ![t] = Head(queue)]
      BY <1>3, RemoveStep
    <2>2. sbufGot' = [sbufGot EXCEPT ![t] = Head(queue)]
      BY <1>1, <2>1 DEF sbufGot
    <2>3. Sb!Abs!Get(t)
      BY <2>1, <2>2 DEF Sb!Abs!Get, sbufGot
    <2>4. QED
      BY <2>3 DEF Sb!Abs!Next
  <1>4. ASSUME NEW t \in Producers, NEW x \in Items, Sb!InsertCall(t, x)
        PROVE  UNCHANGED <<queue, sbufGot>>
    <2>1. queue' = queue /\ held' = [held EXCEPT ![t] = x] /\ t \notin Workers
      BY <1>4 DEF Sb!InsertCall, Sb!ring, Sb!SbufAssumption
    <2>2. sbufGot' = sbufGot
      BY <1>1, <2>1 DEF sbufGot
    <2>3. QED
      BY <2>1, <2>2
  <1>5. ASSUME UNCHANGED <<queue, held>> PROVE UNCHANGED <<queue, sbufGot>>
    BY <1>5 DEF sbufGot
  <1>6. ASSUME NEW t \in Sb!Threads, \/ Sb!RemoveCall(t) \/ Sb!WaitMutex(t) \/ Sb!PostMutex(t)
                                     \/ Sb!AnnounceItem(t) \/ Sb!AnnounceSlot(t)
        PROVE  UNCHANGED <<queue, held>>
    BY <1>6 DEF Sb!RemoveCall, Sb!WaitMutex, Sb!PostMutex, Sb!AnnounceItem, Sb!AnnounceSlot, Sb!ring
  <1>7. CASE UNCHANGED Sb!vars
    BY <1>5, <1>7 DEF Sb!vars, Sb!ring
  <1>8. QED
    BY <1>1, <1>2, <1>3, <1>4, <1>5, <1>6, <1>7 DEF Sb!Next, Sb!Produce, Sb!Consume

(* Whatever the threads and the size of the ring, items leave the buffer in   *)
(* the order they came, each once, and at most n are inside.                  *)
THEOREM BufferIsFifo ==
  ASSUME Sb!SbufAssumption, FewInserts PROVE Sb!Init /\ [][Sb!Next]_(Sb!vars) => Sb!ImplementsFifo
  <1>1. Sb!Init => Sb!Abs!Init
    BY SbufInitRefines
  <1>2. QED
    BY <1>1, SbufNextRefines, SbufInvariant, PTL DEF Sb!ImplementsFifo, Sb!Abs!Spec, Sb!Abs!vars, sbufGot

-----------------------------------------------------------------------------
(***************************************************************************)
(* What MCThreads checks of all its programs.                              *)
(***************************************************************************)
LEMMA EveryProgram ==
  MCSpec => /\ Init /\ [][Next]_vars
            /\ Sb!Init /\ [][Sb!Next]_(Sb!vars)
            /\ Se!Init /\ [][Se!Next]_(Se!vars)
            /\ C!Init /\ [][C!Next]_(C!vars)
            /\ F!Init /\ [][F!Next]_(F!vars)
  <1>1. [MCNext]_allVars => /\ [Next]_vars /\ [Sb!Next]_(Sb!vars) /\ [Se!Next]_(Se!vars)
                            /\ [C!Next]_(C!vars) /\ [F!Next]_(F!vars)
    BY DEF MCNext, allVars, sbufVars, semaVars, counterVars, forkVars, vars,
           Sb!vars, Sb!ring, Sb!sems, Se!vars, C!vars, F!vars
  <1>2. QED
    BY <1>1, PTL DEF MCSpec, MCInit

(* SbufPromises: whatever the threads and the size of the ring, threads       *)
(* exclude each other at the connection buffer and find there what their      *)
(* semaphore promised, and front and rear are what the comments say, until    *)
(* an int has counted to its end.                                             *)
THEOREM SbufKeepsPromises == ASSUME MaxInserts <= IntMax PROVE MCSpec => []SbufPromises
  <1>1. Sb!SbufAssumption /\ FewInserts
    BY Assumptions DEF FewInserts
  <1>2. Sb!Init /\ [][Sb!Next]_(Sb!vars)
          => /\ []Sb!TypeOK /\ []Sb!MutualExclusion /\ []Sb!PromiseKept /\ []Sb!FrontAndRear
    BY <1>1, SbufTypeCorrect, Exclusion, PromisesKept, CommentsHold
  <1>3. Sb!TypeOK /\ Sb!MutualExclusion /\ Sb!PromiseKept /\ Sb!FrontAndRear => SbufPromises
    BY DEF SbufPromises
  <1>4. QED
    BY <1>2, <1>3, EveryProgram, PTL

(* BuffersAreFifo: both buffers are queues.                                   *)
THEOREM TwoQueues == ASSUME MaxInserts <= IntMax PROVE MCSpec => BuffersAreFifo
  <1>1. Sb!SbufAssumption /\ FewInserts
    BY Assumptions DEF FewInserts
  <1>2. Sb!Init /\ [][Sb!Next]_(Sb!vars) => Sb!ImplementsFifo
    BY <1>1, BufferIsFifo
  <1>3. QED
    BY <1>2, RingImplements, EveryProgram, PTL DEF BuffersAreFifo

(* PermitsConserved: no interleaving of loads, compare-and-swaps and posts    *)
(* creates or loses a permit, whatever number the semaphore starts with.      *)
THEOREM NoPermitLost == MCSpec => []PermitsConserved
  <1>1. Se!PermitsConserved <=> PermitsConserved
    BY DEF PermitsConserved
  <1>2. QED
    BY <1>1, PermitsKept, EveryProgram, Assumptions, PTL

(* JoinedWithTheSum: what the counter programs and square.c assert when main  *)
(* has joined its threads is so, for any number of them and of iterations.    *)
THEOREM AssertionsHold == MCSpec => []JoinedWithTheSum
  <1>1. C!Init /\ [][C!Next]_(C!vars) => []C!AtJoin
    BY Assumptions, JoinedRight
  <1>2. F!Init /\ [][F!Next]_(F!vars) => []F!SumAtJoin
    BY Assumptions, ForkSum
  <1>3. C!AtJoin /\ F!SumAtJoin => JoinedWithTheSum
    BY DEF JoinedWithTheSum
  <1>4. QED
    BY <1>1, <1>2, <1>3, EveryProgram, PTL

(* CountsAtomically: a plain num++ under the semaphore's one permit, and a    *)
(* count++ or count-- under a lock, is as good as one step.                   *)
THEOREM PlainCountsAtomically == ASSUME Permits = 1 PROVE MCSpec => CountsAtomically
  <1>1. C!Init /\ [][C!Next]_(C!vars) => C!ImplementsAtomic
    BY Assumptions, CountsAtOnce
  <1>2. Se!Init /\ [][Se!Next]_(Se!vars) => Se!ImplementsCounter
    BY Assumptions, CountedAtomically
  <1>3. QED
    BY <1>1, <1>2, EveryProgram, PTL DEF CountsAtomically
=============================================================================
