------------------------------ MODULE Counters -------------------------------
(* The counter programs of lab4: partB race_condition.c, mutex.c and spinlock.c, in
   which half of the threads count up and half count down, and partC atomic.c, in
   which all count up, in an atomic and in a plain int.  A plain ++ or -- is a load
   and a store.  pthread's mutex and spinlock are external: lock and unlock. *)
EXTENDS Integers, FiniteSets

CONSTANTS Threads, Decrementers,
          Iterations            \* the 10000 of the loops

CountersAssumption == /\ IsFiniteSet(Threads) /\ Threads # {} /\ "free" \notin Threads
                      /\ Iterations \in Nat /\ Iterations >= 2

VARIABLES program, holder,      \* who holds counter_mutex or spinlock
          count, acnt,          \* the plain counter; atomic.c's atomic one
          pc, tmp, left         \* tmp: the register of a ++ or -- in flight
vars == <<program, holder, count, acnt, pc, tmp, left>>

Locking == {"mutex", "spinlock"}
Free == "free"
UpOrDown == [t \in Threads |-> IF t \in Decrementers THEN -1 ELSE 1]
Delta == IF program = "atomic" THEN [t \in Threads |-> 1] ELSE UpOrDown
Goto(t, from, to) == pc[t] = from /\ pc' = [pc EXCEPT ![t] = to]

Init == /\ program \in {"race_condition", "atomic"} \cup Locking
        /\ holder = Free /\ count = 0 /\ acnt = 0
        /\ pc = [t \in Threads |-> "loop"] /\ tmp = [t \in Threads |-> 0]
        /\ left = [t \in Threads |-> Iterations]

(* Mutant: the lock is taken whoever holds it. *)
LockIgnored == TRUE
LockFree == holder = Free
Lock(t) == /\ program \in Locking /\ left[t] > 0 /\ LockFree
           /\ Goto(t, "loop", "load")
           /\ holder' = t
           /\ UNCHANGED <<program, count, acnt, tmp, left>>
FetchAdd(t) == /\ program = "atomic" /\ left[t] > 0
               /\ Goto(t, "loop", "load")
               /\ acnt' = acnt + 1
               /\ UNCHANGED <<program, holder, count, tmp, left>>
Load(t) == /\ \/ Goto(t, "load", "store")
              \/ program = "race_condition" /\ left[t] > 0 /\ Goto(t, "loop", "store")
           /\ tmp' = [tmp EXCEPT ![t] = count]
           /\ UNCHANGED <<program, holder, count, acnt, left>>
Store(t) == /\ Goto(t, "store", IF program \in Locking THEN "unlock" ELSE "loop")
            /\ count' = tmp[t] + Delta[t]
            /\ left' = [left EXCEPT ![t] = @ - 1]
            /\ UNCHANGED <<program, holder, acnt, tmp>>
Unlock(t) == /\ Goto(t, "unlock", "loop")
             /\ holder' = Free
             /\ UNCHANGED <<program, count, acnt, tmp, left>>

Step(t) == Lock(t) \/ FetchAdd(t) \/ Load(t) \/ Store(t) \/ Unlock(t)
Next == \E t \in Threads : Step(t)
(* The scheduler runs every thread; a lock may pass one by as long as others want it. *)
Spec == Init /\ [][Next]_vars /\ \A t \in Threads : WF_vars(Step(t))

------------------------------------------------------------------------------
Joined == \A t \in Threads : left[t] = 0 /\ pc[t] = "loop"
Ups == Cardinality({t \in Threads : Delta[t] = 1}) * Iterations
Downs == Cardinality(Threads) * Iterations - Ups

Atomic == INSTANCE AtomicCounter WITH Delta <- UpOrDown

(* After the joins: the locked counter has come back to 0 (the assertions of mutex.c
   and spinlock.c), and the atomic one holds every increment (atomic.c's).  The plain
   counters have lost updates: a racing one ends between all the decrements and all
   the increments; atomic.c's, of 2 iterations or more, never below 2. *)
AtJoin ==
    Joined => /\ program \in Locking => count = Ups - Downs
              /\ program = "race_condition" => -Downs <= count /\ count <= Ups
              /\ program = "atomic" => acnt = Ups /\ 2 <= count /\ count <= Ups

(* Step by step the locking programs implement a counter that changes at once. *)
ImplementsAtomic == [][(program \in Locking) => [Atomic!Next]_<<count, left>>]_vars

(* All of the programs reach the end of their joins. *)
AllJoin == <>Joined
==============================================================================
