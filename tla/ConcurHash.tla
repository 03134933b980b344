----------------------------- MODULE ConcurHash ------------------------------
(***************************************************************************)
(* The chained hash table of lab4/lab4-out/partD/concur-hash.c.  A bucket  *)
(* is the sequence of the nodes of its chain.  insert, delete and the      *)
(* search of lookup run under the table's mutex from their first access to *)
(* the table to their last, and are one action each; lookup reads the      *)
(* found node's value AFTER it has given the mutex up, in a second action. *)
(* delete frees its node, and malloc may hand the address out again.  The  *)
(* second half of the module is the program that tests the table.          *)
(***************************************************************************)
EXTENDS Integers, Sequences, FiniteSets

CONSTANTS Threads, Keys, Values,
          Nodes,                \* the addresses malloc can return
          NumBuckets,           \* what hash_init is given
          Bucket,               \* djb_hash: the bucket of each key
          NULL

(* djb_hash answers 0..127 whatever num_buckets is: the callers must pass 128 *)
(* or more, as the test does.                                                 *)
HashAssumption == Bucket \in [Keys -> 0..(NumBuckets - 1)]
NullAssumption == NULL \notin Nodes \cup Values

VARIABLES buckets, size,        \* hash_t
          key, value,           \* the nodes' fields
          heap,                 \* addresses handed out and not freed
          pc, p,                \* each thread: "idle", or "read" with its node p
          want,                 \* the key each thread last called with
          ret                   \* what each thread's last call returned

vars == <<buckets, size, key, value, heap, pc, p, want, ret>>

Indices == 0..(NumBuckets - 1)
Chain(k) == buckets[Bucket[k]]
Chained == UNION {{buckets[b][i] : i \in 1..Len(buckets[b])} : b \in Indices}

-----------------------------------------------------------------------------
(* hash_init; the size is zero because the test's table is static. *)
Init == /\ buckets = [b \in Indices |-> <<>>] /\ size = 0 /\ heap = {}
        /\ key = [n \in Nodes |-> NULL]
        /\ value = [n \in Nodes |-> NULL]
        /\ pc = [t \in Threads |-> "idle"]
        /\ p = [t \in Threads |-> NULL]
        /\ want = [t \in Threads |-> NULL]
        /\ ret = [t \in Threads |-> NULL]

(* hash_insert: a new node at the head of the chain, whether or not the key is *)
(* in the table.                                                               *)
Insert(t, k, v) == /\ pc[t] = "idle"
                   /\ \E n \in Nodes \ heap :
                        /\ heap' = heap \cup {n}
                        /\ key' = [key EXCEPT ![n] = k]
                        /\ value' = [value EXCEPT ![n] = v]
                        /\ buckets' = [buckets EXCEPT ![Bucket[k]] = <<n>> \o @]
                   /\ size' = size + 1
                   /\ want' = [want EXCEPT ![t] = k]
                   /\ ret' = [ret EXCEPT ![t] = NULL]
                   /\ UNCHANGED <<pc, p>>

(* Mutant: the search stops at the first node of the chain. *)
MatchesAny(n, k) == TRUE
Matches(n, k) == key[n] = k

(* Where a walk along the chain of k stops that looks for a node whose key is *)
(* k, or is not: the first such place, or 0.                                  *)
First(k, same) ==
  LET places == {i \in 1..Len(Chain(k)) : Matches(Chain(k)[i], k) = same}
  IN  IF places = {} THEN 0 ELSE CHOOSE i \in places : \A j \in places : i <= j

(* hash_lookup up to its unlock: NULL, or a node whose value is still to be read. *)
Find(t, k) == /\ pc[t] = "idle"
              /\ want' = [want EXCEPT ![t] = k]
              /\ LET i == First(k, TRUE)
                 IN  \/ /\ i = 0
                        /\ ret' = [ret EXCEPT ![t] = NULL]
                        /\ UNCHANGED <<pc, p>>
                     \/ /\ i # 0
                        /\ p' = [p EXCEPT ![t] = Chain(k)[i]]
                        /\ pc' = [pc EXCEPT ![t] = "read"]
                        /\ UNCHANGED ret
              /\ UNCHANGED <<buckets, size, key, value, heap>>

(* return p->value, with no lock; freed memory holds anything. *)
Read(t) == /\ pc[t] = "read"
           /\ \E v \in IF p[t] \in heap THEN {value[p[t]]} ELSE Values \cup {NULL} :
                ret' = [ret EXCEPT ![t] = v]
           /\ pc' = [pc EXCEPT ![t] = "idle"]
           /\ p' = [p EXCEPT ![t] = NULL]
           /\ UNCHANGED <<buckets, size, key, value, heap, want>>

(* Mutants: the size is kept, or the node is not unlinked. *)
SizeKept == size
StillChained(chain, i) == chain
SizeLess == size - 1
Unchained(chain, i) == SubSeq(chain, 1, i - 1) \o SubSeq(chain, i + 1, Len(chain))

(* hash_delete: the loop runs while the key MATCHES, so the node it frees is   *)
(* the first one of the chain with another key.                                *)
Delete(t, k) == /\ pc[t] = "idle"
                /\ want' = [want EXCEPT ![t] = k]
                /\ LET i == First(k, FALSE)
                   IN  \/ /\ i = 0
                          /\ ret' = [ret EXCEPT ![t] = 1]
                          /\ UNCHANGED <<buckets, size, heap>>
                       \/ /\ i # 0
                          /\ buckets' = [buckets EXCEPT ![Bucket[k]] = Unchained(@, i)]
                          /\ heap' = heap \ {Chain(k)[i]}
                          /\ size' = SizeLess
                          /\ ret' = [ret EXCEPT ![t] = 0]
                /\ UNCHANGED <<key, value, pc, p>>

Call(t) == \/ \E k \in Keys : Find(t, k) \/ Delete(t, k)
           \/ \E k \in Keys, v \in Values : Insert(t, k, v)

Next == \E t \in Threads : Call(t) \/ Read(t)

Spec == Init /\ [][Next]_vars

-----------------------------------------------------------------------------
(* Every variable has its type. *)
TypeOK == /\ buckets \in [Indices -> Seq(Nodes)]
          /\ size \in Nat
          /\ key \in [Nodes -> Keys \cup {NULL}]
          /\ value \in [Nodes -> Values \cup {NULL}]
          /\ heap \subseteq Nodes
          /\ pc \in [Threads -> {"idle", "read"}]
          /\ p \in [Threads -> Nodes \cup {NULL}]
          /\ want \in [Threads -> Keys \cup {NULL}]
          /\ ret \in [Threads -> Values \cup {NULL, 0, 1}]

(* The table owns exactly the allocated nodes, each in its key's chain and    *)
(* once, and "size" counts them: nothing leaks, nothing freed stays linked.   *)
TableOwnsHeap ==
  /\ Chained = heap
  /\ size = Cardinality(heap)
  /\ \A b \in Indices : \A i, j \in 1..Len(buckets[b]) :
       /\ Bucket[key[buckets[b][i]]] = b
       /\ i # j => buckets[b][i] # buckets[b][j]

(* concur-hash.c:65: "return 0 for success; 1 for non-exiting "key"": a call  *)
(* that answers 1 was for a key that is not in the table.                     *)
DeleteAnswer ==
  [][\A t \in Threads, k \in Keys :
       Delete(t, k) /\ ret'[t] = 1 => \A n \in heap : key[n] # k]_vars
-----------------------------------------------------------------------------
(***************************************************************************)
(* lab4/lab4-out/partD/test-hash.c: two threads insert their keys, each    *)
(* with the thread's own value; main joins them and starts two that look   *)
(* those keys up, then two that delete them, asserting the size each time. *)
(***************************************************************************)
CONSTANTS KeysOf,       \* KeysOf[t]: the keys of thread t in the order it goes
          ValueOf       \* ValueOf[t]: its value, the format string

TestAssumption ==
  /\ \A t \in Threads : KeysOf[t] \in Seq(Keys) /\ ValueOf[t] \in Values
  /\ Cardinality(Nodes) = Cardinality(Keys)

VARIABLES phase,        \* what the threads now running do
          done          \* done[t]: how many keys thread t has been through

testVars == <<vars, phase, done>>

TestInit == /\ Init
            /\ phase = "insert"
            /\ done = [t \in Threads |-> 0]

Joined == \A t \in Threads : done[t] = Len(KeysOf[t]) /\ pc[t] = "idle"

(* The body of one turn of the thread's loop. *)
Work(t) == /\ done[t] < Len(KeysOf[t])
           /\ LET k == KeysOf[t][done[t] + 1]
              IN  \/ phase = "insert" /\ Insert(t, k, ValueOf[t])
                  \/ phase = "lookup" /\ Find(t, k)
                  \/ phase = "delete" /\ Delete(t, k)
           /\ done' = [done EXCEPT ![t] = @ + 1]
           /\ UNCHANGED phase

Finish(t) == Read(t) /\ UNCHANGED <<phase, done>>

After == [insert |-> "lookup", lookup |-> "delete", delete |-> "end"]

(* main joins the threads of a phase and creates those of the next. *)
NextPhase == /\ Joined /\ phase # "end"
             /\ phase' = After[phase]
             /\ done' = [t \in Threads |-> IF phase = "delete" THEN Len(KeysOf[t]) ELSE 0]
             /\ UNCHANGED vars

TestNext == NextPhase \/ \E t \in Threads : Work(t) \/ Finish(t)

TestSpec == TestInit /\ [][TestNext]_testVars

-----------------------------------------------------------------------------
(* The lookups of the test answer the value the thread inserted (line 37) and *)
(* read it from memory nobody has freed, although they read it unlocked: main *)
(* joins the lookups before it starts a delete.                               *)
LookupAnswers == phase = "lookup" => \A t \in Threads :
  /\ pc[t] = "read" => p[t] \in heap /\ key[p[t]] = want[t]
  /\ pc[t] = "idle" /\ done[t] > 0 => ret[t] = ValueOf[t]

(* Lines 61 and 67: assert(hash_size(&hash) == 2*TEST_SIZE).                  *)
SizeAfterInserts == phase = "lookup" => size = Cardinality(Keys)

(* Line 73: assert(hash_size(&hash) == 0).  It holds in spite of delete's     *)
(* inverted test where both threads have several keys in a bucket: each call  *)
(* then frees SOME node, and the calls are as many as the nodes.              *)
SizeAfterDeletes == phase = "end" => size = 0
==============================================================================
