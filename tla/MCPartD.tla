------------------------------- MODULE MCPartD -------------------------------
(***************************************************************************)
(* Model checking of the programs of lab4/lab4-out/partD: the mutex stack  *)
(* (ConcurStack) and the test of the hash table (ConcurHash).  prog        *)
(* says which of them the behaviour runs; the other stays as it starts.    *)
(***************************************************************************)
EXTENDS ConcurStack, TLC

CONSTANTS Testers, HashTestSize,        \* the hash test's threads, TEST_SIZE
          NumBuckets,
          Addresses                     \* what its malloc can return

VARIABLES prog,
          buckets, count, key, data, used, at, q, want, answer, phase, done

(* A thread's keys are its format string put to a counter's values; its value *)
(* is the format string.                                                      *)
TestKeys == Testers \X (1..HashTestSize)

Hash == INSTANCE ConcurHash
          WITH Threads <- Testers, Keys <- TestKeys, Values <- Testers,
               Nodes <- Addresses, Bucket <- [k \in TestKeys |-> k[2] % NumBuckets],
               KeysOf <- [t \in Testers |-> [i \in 1..HashTestSize |-> <<t, i>>]],
               ValueOf <- [t \in Testers |-> t],
               size <- count, value <- data, heap <- used, pc <- at, p <- q, ret <- answer

ASSUME Assumptions == Hash!HashAssumption /\ Hash!NullAssumption /\ Hash!TestAssumption
(* The keys are numbered, and spread over the buckets by their numbers. *)
ASSUME SizesAssumption == NumBuckets \in Nat \ {0} /\ HashTestSize \in Nat

hashVars == <<buckets, count, key, data, used, at, q, want, answer, phase, done>>
allVars == <<prog, vars, hashVars>>

MCInit == /\ Hash!TestInit /\ Init
          /\ \/ prog = "stack"
             \/ prog = "hash" /\ \E v \in Values : value = [n \in Nodes |-> v]

MCNext == \/ prog = "stack" /\ Next /\ UNCHANGED <<prog, hashVars>>
          \/ prog = "hash" /\ Hash!TestNext /\ UNCHANGED <<prog, vars>>

MCSpec == MCInit /\ [][MCNext]_allVars

(* The hash table alone, its operations called in any order. *)
CallsNext == Hash!Next /\ UNCHANGED <<prog, vars, phase, done>>
CallsSpec == MCInit /\ prog = "hash" /\ [][CallsNext]_allVars

Perms == Permutations(Threads) \cup Permutations(Nodes) \cup Permutations(Addresses)

-----------------------------------------------------------------------------
(* concur-hash.c: the nodes on the chains are the allocated ones, each once   *)
(* and in its key's chain, and "size" counts them, after every call.          *)
TableOwnsHeap == Hash!TypeOK /\ Hash!TableOwnsHeap

(* test-hash.c:37, 61, 67, 73: what the test looks up is what it inserted and *)
(* is still allocated when it is read unlocked, and the sizes it asserts are  *)
(* right in spite of delete's inverted search.                                *)
HashTestPasses == Hash!LookupAnswers /\ Hash!SizeAfterInserts /\ Hash!SizeAfterDeletes

(* concur-hash.c:65: "return 0 for success; 1 for non-exiting "key"": a call  *)
(* that answers 1 was for a key that is not in the table.                     *)
DeleteAnswer == Hash!DeleteAnswer
==============================================================================
