------------------------------- MODULE LfStack -------------------------------
(***************************************************************************)
(* The lock-free (Treiber) stack of lab4/lab4-out/partE/lf-stack.c.  Any   *)
(* thread may call push or pop at any time; one action is one access to    *)
(* memory other threads use, with the thread-local statements around it.   *)
(* The top pointer is an _Atomic accessed sequentially consistently; a     *)
(* node's fields are written before the compare-and-swap that publishes it *)
(* and never after; "size" is a plain int that threads race on, so its ++  *)
(* and -- are a load and a later store.  malloc never fails here, nodes    *)
(* are never freed (the code has no free), and Nodes bounds the pushes.    *)
(***************************************************************************)
EXTENDS Integers, Sequences

CONSTANTS Threads,      \* the threads that share the stack
          Nodes,        \* the addresses malloc can return: the bound on pushes
          Values,       \* the integers that are pushed
          NULL

ASSUME NullAssumption == NULL \notin Nodes
ASSUME ValuesAssumption == Values \subseteq Int

VARIABLES top, size,    \* lf_stack_t
          next, value,  \* the nodes' fields
          heap,         \* addresses malloc has handed out
          pc,           \* where each thread is
          node, old, nxt, \* the locals newNode, old_top, top_next
          tmp,          \* the register of a size++ or size-- in flight
          ret,          \* what each thread's last call returned
          stack         \* history: the nodes on the stack, bottom first

shared == <<top, size, next, value, heap, stack>>
locals == <<node, old, nxt, tmp, ret>>
vars == <<shared, pc, locals>>

NoValue == -1
Pointers == Nodes \cup {NULL}
Labels == {"idle", "push_load", "push_cas", "inc", "inc_store", "pop_load",
           "pop_next", "pop_cas", "dec", "dec_store", "value", "return"}

Goto(t, from, to) == pc[t] = from /\ pc' = [pc EXCEPT ![t] = to]

-----------------------------------------------------------------------------
Init == /\ top = NULL /\ size = 0 /\ stack = <<>> /\ heap = {}
        /\ next = [n \in Nodes |-> NULL]
        /\ value \in [Nodes -> Values]
        /\ pc = [t \in Threads |-> "idle"]
        /\ node = [t \in Threads |-> NULL]
        /\ old = [t \in Threads |-> NULL]
        /\ nxt = [t \in Threads |-> NULL]
        /\ tmp = [t \in Threads |-> 0]
        /\ ret = [t \in Threads |-> NoValue]

(* Mutant: the pointer is swapped whatever it is now (a plain store). *)
CasHitsAlways(t) == TRUE
(* atomic_compare_exchange_strong(&stack->top, &old_top, ...) finds old_top. *)
CasHits(t) == top = old[t]

(* The loop body's locals go out of scope at its end. *)
EndIteration(t) == /\ old' = [old EXCEPT ![t] = NULL]
                   /\ nxt' = [nxt EXCEPT ![t] = NULL]

(* malloc, and newNode->value = value; PushLoad writes next before anyone reads it. *)
CallPush(t, v) == /\ Goto(t, "idle", "push_load")
                  /\ \E n \in Nodes \ heap :
                       /\ heap' = heap \cup {n}
                       /\ node' = [node EXCEPT ![t] = n]
                       /\ value' = [value EXCEPT ![n] = v]
                  /\ ret' = [ret EXCEPT ![t] = NoValue]
                  /\ UNCHANGED <<top, size, next, stack, old, nxt, tmp>>

(* Mutant: the new node is not linked to the top it was loaded from. *)
PushLoadUnlinked(t) == /\ Goto(t, "push_load", "push_cas")
                       /\ old' = [old EXCEPT ![t] = top]
                       /\ UNCHANGED <<shared, node, nxt, tmp, ret>>
PushLoad(t) == /\ Goto(t, "push_load", "push_cas")
               /\ old' = [old EXCEPT ![t] = top]
               /\ next' = [next EXCEPT ![node[t]] = top]
               /\ UNCHANGED <<top, size, value, heap, stack, node, nxt, tmp, ret>>

(* Mutant: a push whose swap fails swaps again, with the top it saw before. *)
PushCasStale(t) == /\ CasHits(t)
                   /\ Goto(t, "push_cas", "inc")
                   /\ top' = node[t]
                   /\ stack' = Append(stack, node[t])
                   /\ UNCHANGED <<size, next, value, heap, locals>>
PushCas(t) == \/ /\ CasHits(t)
                 /\ Goto(t, "push_cas", "inc")
                 /\ top' = node[t]
                 /\ stack' = Append(stack, node[t])
                 /\ UNCHANGED <<size, next, value, heap, locals>>
              \/ /\ ~CasHits(t)
                 /\ Goto(t, "push_cas", "push_load")
                 /\ EndIteration(t)
                 /\ UNCHANGED <<shared, node, tmp, ret>>

(* stack->size++ and stack->size-- : a load ... *)
SizeLoad(t) == /\ Goto(t, "inc", "inc_store") \/ Goto(t, "dec", "dec_store")
               /\ tmp' = [tmp EXCEPT ![t] = size]
               /\ UNCHANGED <<shared, node, old, nxt, ret>>

(* ... and a store; the push is then over. *)
IncStore(t) == /\ Goto(t, "inc_store", "idle")
               /\ size' = tmp[t] + 1
               /\ tmp' = [tmp EXCEPT ![t] = 0]
               /\ node' = [node EXCEPT ![t] = NULL]
               /\ EndIteration(t)
               /\ UNCHANGED <<top, next, value, heap, stack, ret>>

DecStore(t) == /\ Goto(t, "dec_store", "value")
               /\ size' = tmp[t] - 1
               /\ tmp' = [tmp EXCEPT ![t] = 0]
               /\ UNCHANGED <<top, next, value, heap, stack, node, old, nxt, ret>>

CallPop(t) == /\ Goto(t, "idle", "pop_load")
              /\ ret' = [ret EXCEPT ![t] = NoValue]
              /\ UNCHANGED <<shared, node, old, nxt, tmp>>

(* Load the top; on an empty stack the call is over, with value -1. *)
PopLoad(t) == /\ Goto(t, "pop_load", IF top = NULL THEN "return" ELSE "pop_next")
              /\ old' = [old EXCEPT ![t] = top]
              /\ UNCHANGED <<shared, node, nxt, tmp, ret>>

(* Mutant: the pop detaches the node before the swap has made it its own. *)
PopNextDetach(t) == /\ Goto(t, "pop_next", "pop_cas")
                    /\ nxt' = [nxt EXCEPT ![t] = next[old[t]]]
                    /\ next' = [next EXCEPT ![old[t]] = NULL]
                    /\ UNCHANGED <<top, size, value, heap, stack, node, old, tmp, ret>>
PopNext(t) == /\ Goto(t, "pop_next", "pop_cas")
              /\ nxt' = [nxt EXCEPT ![t] = next[old[t]]]
              /\ UNCHANGED <<shared, node, old, tmp, ret>>

PopCas(t) == \/ /\ CasHits(t)
                /\ Goto(t, "pop_cas", "dec")
                /\ top' = nxt[t]
                /\ stack' = SubSeq(stack, 1, Len(stack) - 1)
                /\ UNCHANGED <<size, next, value, heap, locals>>
             \/ /\ ~CasHits(t)
                /\ Goto(t, "pop_cas", "pop_load")
                /\ EndIteration(t)
                /\ UNCHANGED <<shared, node, tmp, ret>>

(* Mutant: pop answers the node's address. *)
PopValueAddress(t) == /\ Goto(t, "value", "return")
                      /\ ret' = [ret EXCEPT ![t] = old[t]]
                      /\ UNCHANGED <<shared, node, old, nxt, tmp>>
(* value = old_top->value, from a node this thread has unlinked. *)
PopValue(t) == /\ Goto(t, "value", "return")
               /\ ret' = [ret EXCEPT ![t] = value[old[t]]]
               /\ UNCHANGED <<shared, node, old, nxt, tmp>>

Return(t) == /\ Goto(t, "return", "idle")
             /\ EndIteration(t)
             /\ UNCHANGED <<shared, node, tmp, ret>>

(* A step of a call that is under way, and any step of a thread. *)
Continue(t) == \/ PushLoad(t) \/ PushCas(t) \/ SizeLoad(t) \/ IncStore(t)
               \/ PopLoad(t) \/ PopNext(t) \/ PopCas(t) \/ DecStore(t)
               \/ PopValue(t) \/ Return(t)
Call(t) == CallPop(t) \/ \E v \in Values : CallPush(t, v)

Next == \E t \in Threads : Call(t) \/ Continue(t)

Spec == Init /\ [][Next]_vars

-----------------------------------------------------------------------------
(* Every variable has its type. *)
TypeOK == /\ top \in Pointers
          /\ size \in Int
          /\ next \in [Nodes -> Pointers]
          /\ value \in [Nodes -> Values]
          /\ heap \subseteq Nodes
          /\ pc \in [Threads -> Labels]
          /\ node \in [Threads -> Pointers]
          /\ old \in [Threads -> Pointers]
          /\ nxt \in [Threads -> Pointers]
          /\ tmp \in [Threads -> Int]
          /\ ret \in [Threads -> Values \cup {NoValue}]
          /\ stack \in Seq(Nodes)

(* The nodes a push has made and not yet published, and all the others that   *)
(* were allocated.                                                            *)
Pushing == {t \in Threads : pc[t] \in {"push_load", "push_cas"}}
Private(n) == \E t \in Pushing : node[t] = n
Published == {n \in heap : ~Private(n)}
OnStack == {stack[i] : i \in 1..Len(stack)}
(* The threads that have unlinked old[t] and not yet answered. *)
Popping == {t \in Threads : pc[t] \in {"dec", "dec_store", "value"}}

(* The pointers from top spell exactly the nodes pushed and not popped, in    *)
(* last-in first-out order, ending at NULL: no interleaving of the            *)
(* compare-and-swaps of push (line 29) and pop (line 45) loses a node, links  *)
(* one twice or ties a cycle.                                                 *)
ListRep == /\ top = IF stack = <<>> THEN NULL ELSE stack[Len(stack)]
           /\ \A i \in 1..Len(stack) :
                next[stack[i]] = IF i = 1 THEN NULL ELSE stack[i - 1]
           /\ \A i, j \in 1..Len(stack) : i # j => stack[i] # stack[j]

(* A node is unlinked by at most one pop, and is off the stack when its value *)
(* is read at line 47.                                                        *)
PopOwnsNode == \A t \in Popping :
                 /\ old[t] \in Published \ OnStack
                 /\ \A u \in Popping : old[u] = old[t] => u = t

Frozen == \A n \in Published : next'[n] = next[n] /\ value'[n] = value[n]

(* Once the compare-and-swap has made a node reachable, no step writes its    *)
(* link or its value: what lets pop read old_top->next (line 44) and          *)
(* old_top->value (line 47) with no lock.                                     *)
PublishedFrozen == [][Frozen]_vars

-----------------------------------------------------------------------------
(* The abstract call thread t is in. *)
KindOf(t) == CASE pc[t] = "idle" -> "idle"
               [] pc[t] \in {"push_load", "push_cas"} -> "push"
               [] pc[t] \in {"pop_load", "pop_next", "pop_cas"} -> "pop"
               [] OTHER -> "done"
ValOf(t) == IF t \in Pushing THEN value[node[t]]
            ELSE IF t \in Popping THEN value[old[t]]
            ELSE ret[t]
absStack == [i \in 1..Len(stack) |-> value[stack[i]]]
absOp == [t \in Threads |-> [kind |-> KindOf(t), val |-> ValOf(t)]]
Abs == INSTANCE AbstractStack WITH stack <- absStack, op <- absOp

(* Every call of the lock-free stack takes effect atomically between its call *)
(* and its return, as AbstractStack says: pop answers the last value pushed   *)
(* and not popped, or -1 when there is none.                                  *)
ImplementsStack == Abs!Spec
==============================================================================
