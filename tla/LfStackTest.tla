----------------------------- MODULE LfStackTest -----------------------------
(***************************************************************************)
(* lab4/lab4-out/partE/test-stack.c: main pushes 2 * TESTSIZE values, then *)
(* starts threads that each push, or each pop, TESTSIZE times, joins them  *)
(* all and asserts the size of the stack.                                  *)
(***************************************************************************)
EXTENDS LfStack, FiniteSets

CONSTANTS Main, Pushers, Poppers,       \* the threads of the test
          TestSize                      \* TESTSIZE

ASSUME TestAssumption ==
  /\ Threads = {Main} \cup Pushers \cup Poppers
  /\ Main \notin Pushers \cup Poppers /\ Pushers \cap Poppers = {}
  /\ IsFiniteSet(Pushers) /\ IsFiniteSet(Poppers) /\ Poppers # {}
  /\ Cardinality(Pushers) = Cardinality(Poppers)
  /\ TestSize \in Nat \ {0} /\ NoValue \notin Values
  /\ Cardinality(Nodes) >= (Cardinality(Poppers) + Cardinality(Pushers)) * TestSize

VARIABLE left           \* the calls each thread has still to make

testVars == <<vars, left>>

Prefill == Cardinality(Poppers) * TestSize

TestInit == /\ Init
            /\ left = [t \in Threads |-> IF t = Main THEN Prefill ELSE TestSize]

(* main creates the threads when its own pushes have returned. *)
Created(t) == t = Main \/ (left[Main] = 0 /\ pc[Main] = "idle")

TestCall(t) == /\ Created(t)
               /\ left[t] > 0
               /\ left' = [left EXCEPT ![t] = @ - 1]
               /\ IF t \in Poppers THEN CallPop(t) ELSE \E v \in Values : CallPush(t, v)

TestStep(t) == TestCall(t) \/ (Continue(t) /\ UNCHANGED left)

TestNext == \E t \in Threads : TestStep(t)

(* Every thread the scheduler runs takes its next step. *)
TestSpec == /\ TestInit /\ [][TestNext]_testVars
            /\ \A t \in Threads : WF_testVars(TestStep(t))

-----------------------------------------------------------------------------
Joined == \A t \in Threads : left[t] = 0 /\ pc[t] = "idle"

(* The test ends: no push or pop retries its compare-and-swap for ever,       *)
(* because each failure is another thread's success and those are counted.    *)
Terminates == <>Joined

(* main stacked enough for every pop, so none may miss a value: an answer of  *)
(* -1 would be a pop that took a half-done push for the bottom.               *)
NoPopComesBackEmpty == \A t \in Poppers : pc[t] = "return" => ret[t] # NoValue

(* At the join the pointers from top lead through as many nodes as were       *)
(* pushed and not popped, and then to NULL: the racy size aside, no push or   *)
(* pop of the test was lost.                                                  *)
ContentsAtJoin == Joined => \E s \in [1..Prefill -> Nodes] :
  /\ top = s[1] /\ next[s[Prefill]] = NULL
  /\ \A i \in 1..(Prefill - 1) : next[s[i]] = s[i + 1]

(* test-stack.c:48: assert(count==TESTSIZE * 2) after the joins.              *)
SizeAtJoin == Joined => size = Prefill
==============================================================================
