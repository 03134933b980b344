-------------------------------- MODULE Sema ---------------------------------
(***************************************************************************)
(* lab4/lab4-out/partC/sema.c: a counting semaphore made of one _Atomic    *)
(* int, and the test program in which threads count under it.  A failed    *)
(* sema_wait spins; each access to shared memory is an action, and the     *)
(* plain num++ is a load and a store.  The program starts the semaphore at *)
(* 1; Permits is that number.                                              *)
(***************************************************************************)
EXTENDS Integers, FiniteSets

CONSTANTS Threads,
          Iterations,   \* the 10000 of start()
          Permits       \* the v of sema_init

SemaAssumption == IsFiniteSet(Threads) /\ Permits \in Nat /\ Iterations \in Nat

VARIABLES value,        \* sema_t
          num,          \* counter_t's plain int
          pc,           \* where each thread is
          val,          \* the local of sema_wait
          tmp,          \* the register of a num++ in flight
          left          \* the iterations each thread has still to begin or end

vars == <<value, num, pc, val, tmp, left>>

Labels == {"wait_load", "wait_cas", "num_load", "num_store", "post"}

Goto(t, from, to) == pc[t] = from /\ pc' = [pc EXCEPT ![t] = to]

-----------------------------------------------------------------------------
Init == /\ value = Permits /\ num = 0
        /\ pc = [t \in Threads |-> "wait_load"]
        /\ val = [t \in Threads |-> 0]
        /\ tmp = [t \in Threads |-> 0]
        /\ left = [t \in Threads |-> Iterations]

(* Mutant: the permit that is not there is taken too. *)
NotNegative(v) == v >= 0
Positive(v) == v > 0

(* val = atomic_load(&sem->value); without a permit, load again. *)
WaitLoad(t) == /\ left[t] > 0
               /\ Goto(t, "wait_load", IF Positive(value) THEN "wait_cas" ELSE "wait_load")
               /\ val' = [val EXCEPT ![t] = value]
               /\ UNCHANGED <<value, num, tmp, left>>

(* Mutant: a plain store instead of the compare-and-swap. *)
AnyVal(t) == TRUE
SameVal(t) == value = val[t]

(* The compare-and-swap from val to val - 1, or another turn of the loop. *)
WaitCas(t) == \/ /\ SameVal(t)
                 /\ Goto(t, "wait_cas", "num_load")
                 /\ value' = val[t] - 1
                 /\ UNCHANGED <<num, val, tmp, left>>
              \/ /\ ~SameVal(t)
                 /\ Goto(t, "wait_cas", "wait_load")
                 /\ UNCHANGED <<value, num, val, tmp, left>>

NumLoad(t) == /\ Goto(t, "num_load", "num_store")
              /\ tmp' = [tmp EXCEPT ![t] = num]
              /\ UNCHANGED <<value, num, val, left>>

NumStore(t) == /\ Goto(t, "num_store", "post")
               /\ num' = tmp[t] + 1
               /\ left' = [left EXCEPT ![t] = @ - 1]
               /\ UNCHANGED <<value, val, tmp>>

(* Mutant: the post is lost. *)
NoPost == value
OneMore == value + 1

(* sema_post: atomic_fetch_add. *)
Post(t) == /\ Goto(t, "post", "wait_load")
           /\ value' = OneMore
           /\ UNCHANGED <<num, val, tmp, left>>

Step(t) == WaitLoad(t) \/ WaitCas(t) \/ NumLoad(t) \/ NumStore(t) \/ Post(t)

Next == \E t \in Threads : Step(t)

(* Every thread the scheduler runs takes its next step. *)
Spec == Init /\ [][Next]_vars /\ \A t \in Threads : WF_vars(Step(t))

-----------------------------------------------------------------------------
(* Every variable has its type. *)
TypeOK == /\ value \in Nat
          /\ num \in Int
          /\ pc \in [Threads -> Labels]
          /\ val \in [Threads -> Int]
          /\ tmp \in [Threads -> Int]
          /\ left \in [Threads -> Int]

(* The threads that have passed sema_wait and not yet posted. *)
Holders == {t \in Threads : pc[t] \in {"num_load", "num_store", "post"}}

(* The permits in the semaphore and with its holders are always the ones it   *)
(* was made with: no interleaving of the load and the compare-and-swap of     *)
(* sema_wait (lines 26-27) creates or loses one, or takes one that is not     *)
(* there.                                                                     *)
PermitsConserved == value >= 0 /\ value + Cardinality(Holders) = Permits

delta == [t \in Threads |-> 1]
Abs == INSTANCE AtomicCounter WITH count <- num, Delta <- delta

(* Under one permit the counter behaves as if each num++ were one step.       *)
ImplementsCounter == Abs!Spec

Joined == \A t \in Threads : left[t] = 0 /\ pc[t] = "wait_load"

(* main's joins are all reached; ImplementsCounter then says what num is, the *)
(* assertion of sema.c:69.                                                    *)
Terminates == <>Joined
==============================================================================
