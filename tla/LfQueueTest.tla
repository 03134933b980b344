----------------------------- MODULE LfQueueTest -----------------------------
(***************************************************************************)
(* lab4/lab4-out/partE/test-queue.c: main enqueues 2 * TESTSIZE values,    *)
(* then starts threads that each enqueue, or each dequeue, TESTSIZE times  *)
(* and joins them all.  Two producers run at once here, which the queue    *)
(* does not survive in general: an enqueue may overwrite another's link.   *)
(***************************************************************************)
EXTENDS LfQueue, FiniteSets

CONSTANTS Main,         \* the thread that runs main, one of the Producers
          TestSize      \* TESTSIZE

ASSUME TestAssumption ==
  /\ Main \in Producers
  /\ IsFiniteSet(Consumers)
  /\ Cardinality(Producers \ {Main}) = Cardinality(Consumers)
  /\ TestSize \in Nat \ {0}
  /\ NoValue \notin Values
  /\ Cardinality(Nodes) > 2 * Cardinality(Consumers) * TestSize

VARIABLE left           \* the calls each thread has still to make

testVars == <<vars, left>>

Prefill == Cardinality(Consumers) * TestSize

TestInit == /\ Init
            /\ left = [t \in Threads |-> IF t = Main THEN Prefill ELSE TestSize]

(* main creates the threads when its own enqueues have returned. *)
Created(t) == t = Main \/ (left[Main] = 0 /\ pc[Main] = "idle")

TestCall(t) == /\ Created(t)
               /\ left[t] > 0
               /\ left' = [left EXCEPT ![t] = @ - 1]
               /\ Call(t)

TestStep(t) == TestCall(t) \/ (Continue(t) /\ UNCHANGED left)

TestNext == \E t \in Threads : TestStep(t)

TestSpec == TestInit /\ [][TestNext]_testVars

-----------------------------------------------------------------------------
(* main enqueued as often as all the dequeues together: they take the dummy   *)
(* and all but the last of its nodes, which no enqueue of the test relinks,   *)
(* so none finds the queue empty and none follows a broken link.              *)
NoDequeueComesBackEmpty ==
  \A t \in Consumers : pc[t] = "return" => ret[t] # NoValue
==============================================================================
