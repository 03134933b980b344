------------------------------ MODULE Spinlock -------------------------------
(***************************************************************************)
(* lab4/lab4-out/partC/spinlock.c: a spinlock made of one _Atomic int, and *)
(* the test program in which threads count under it.  The local "locked"   *)
(* that spinlock_lock offers as the expected value is set to 0 once, and   *)
(* atomic_compare_exchange_strong overwrites it with the lock's value when *)
(* it fails: the loop's second turn then expects a locked lock.            *)
(***************************************************************************)
EXTENDS Integers, FiniteSets

CONSTANTS Threads,
          Iterations    \* the 10000 of start()

VARIABLES n,            \* spinlock_t
          num,          \* counter_t's plain int
          pc,           \* where each thread is
          locked,       \* the local of spinlock_lock
          tmp,          \* the register of a num++ in flight
          left          \* the iterations each thread has still to end

vars == <<n, num, pc, locked, tmp, left>>

Goto(t, from, to) == pc[t] = from /\ pc' = [pc EXCEPT ![t] = to]

-----------------------------------------------------------------------------
Init == /\ n = 0 /\ num = 0
        /\ pc = [t \in Threads |-> "loop"]
        /\ locked = [t \in Threads |-> 0]
        /\ tmp = [t \in Threads |-> 0]
        /\ left = [t \in Threads |-> Iterations]

(* int locked = 0; *)
Enter(t) == /\ left[t] > 0
            /\ Goto(t, "loop", "cas")
            /\ locked' = [locked EXCEPT ![t] = 0]
            /\ UNCHANGED <<n, num, tmp, left>>

(* One turn of the loop: take the lock if it is what "locked" says, else let  *)
(* "locked" have its value.                                                   *)
Cas(t) == \/ /\ n = locked[t]
             /\ Goto(t, "cas", "num_load")
             /\ n' = 1
             /\ UNCHANGED <<num, locked, tmp, left>>
          \/ /\ n # locked[t]
             /\ Goto(t, "cas", "cas")
             /\ locked' = [locked EXCEPT ![t] = n]
             /\ UNCHANGED <<n, num, tmp, left>>

NumLoad(t) == /\ Goto(t, "num_load", "num_store")
              /\ tmp' = [tmp EXCEPT ![t] = num]
              /\ UNCHANGED <<n, num, locked, left>>

NumStore(t) == /\ Goto(t, "num_store", "unlock")
               /\ num' = tmp[t] + 1
               /\ left' = [left EXCEPT ![t] = @ - 1]
               /\ UNCHANGED <<n, locked, tmp>>

Unlock(t) == /\ Goto(t, "unlock", "loop")
             /\ n' = 0
             /\ UNCHANGED <<num, locked, tmp, left>>

Step(t) == Enter(t) \/ Cas(t) \/ NumLoad(t) \/ NumStore(t) \/ Unlock(t)

Next == \E t \in Threads : Step(t)

Spec == Init /\ [][Next]_vars

-----------------------------------------------------------------------------
Joined == \A t \in Threads : left[t] = 0 /\ pc[t] = "loop"

(* spinlock.c:60: assert(counter.num == 100000) after the joins. *)
NumAtJoin == Joined => num = Iterations * Cardinality(Threads)
==============================================================================
