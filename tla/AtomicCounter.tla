---------------------------- MODULE AtomicCounter ----------------------------
(***************************************************************************)
(* What the counter programs of lab4 promise: threads that each change a   *)
(* counter a given number of times, every change being ONE step.           *)
(***************************************************************************)
EXTENDS Integers

CONSTANTS Threads,
          Iterations,   \* how often each thread changes the counter
          Delta         \* Delta[t]: by how much thread t changes it

VARIABLES count, left   \* left[t]: the changes thread t has still to make

vars == <<count, left>>

Init == count = 0 /\ left = [t \in Threads |-> Iterations]

Change(t) == /\ left[t] > 0
             /\ count' = count + Delta[t]
             /\ left' = [left EXCEPT ![t] = @ - 1]

Next == \E t \in Threads : Change(t)

Spec == Init /\ [][Next]_vars
==============================================================================
