----------------------------- MODULE ConcurStack -----------------------------
(***************************************************************************)
(* The mutex-protected stack of lab4/lab4-out/partD/concur-stack.c.  Any   *)
(* thread may call push or pop at any time.  pop frees the node it unlinks *)
(* and malloc may hand the same address out again while other calls are    *)
(* under way.  A critical section is two steps, so that only the mutex     *)
(* makes it one.  malloc never fails; a push waits for an address of the   *)
(* finite Nodes to be free.                                                *)
(***************************************************************************)
EXTENDS Integers, Sequences

CONSTANTS Threads,      \* the threads that share the stack
          Nodes,        \* the addresses malloc can return
          Values,       \* the integers that are pushed
          NULL

ASSUME NullAssumption == NULL \notin Nodes \cup Threads
ASSUME ValuesAssumption == Values \subseteq Int

VARIABLES mu,           \* the thread that holds the mutex, or NULL
          top, size,    \* the rest of concur_stack_t
          next, value,  \* the nodes' fields
          heap,         \* addresses handed out and not freed
          pc,           \* where each thread is
          p,            \* the local p of push and of pop
          ret,          \* what each thread's last call returns ("value" in pop)
          stack         \* history: the nodes on the stack, bottom first

list == <<top, size, next, stack>>
vars == <<mu, list, value, heap, pc, p, ret>>

NoValue == -1
Pointers == Nodes \cup {NULL}
Labels == {"idle", "push_lock", "push_link", "push_top",
           "pop_lock", "pop_read", "pop_unlink", "unlock"}

Goto(t, from, to) == pc[t] = from /\ pc' = [pc EXCEPT ![t] = to]

-----------------------------------------------------------------------------
Init == /\ mu = NULL /\ top = NULL /\ size = 0 /\ stack = <<>> /\ heap = {}
        /\ next = [n \in Nodes |-> NULL]
        /\ value \in [Nodes -> Values]
        /\ pc = [t \in Threads |-> "idle"]
        /\ p = [t \in Threads |-> NULL]
        /\ ret = [t \in Threads |-> NoValue]

(* malloc and p->value = value. *)
CallPush(t, v) == /\ Goto(t, "idle", "push_lock")
                  /\ \E n \in Nodes \ heap : /\ heap' = heap \cup {n}
                                             /\ p' = [p EXCEPT ![t] = n]
                                             /\ value' = [value EXCEPT ![n] = v]
                  /\ ret' = [ret EXCEPT ![t] = NoValue]
                  /\ UNCHANGED <<mu, list>>

CallPop(t) == /\ Goto(t, "idle", "pop_lock")
              /\ ret' = [ret EXCEPT ![t] = NoValue]
              /\ UNCHANGED <<mu, list, value, heap, p>>

(* Mutant: the lock is taken whoever holds it. *)
MutexAlwaysFree == TRUE
MutexFree == mu = NULL

(* pthread_mutex_lock. *)
Lock(t) == /\ Goto(t, "push_lock", "push_link") \/ Goto(t, "pop_lock", "pop_read")
           /\ MutexFree
           /\ mu' = t
           /\ UNCHANGED <<list, value, heap, p, ret>>

PushLink(t) == /\ Goto(t, "push_link", "push_top")
               /\ next' = [next EXCEPT ![p[t]] = top]
               /\ UNCHANGED <<mu, top, size, stack, value, heap, p, ret>>

PushTop(t) == /\ Goto(t, "push_top", "unlock")
              /\ top' = p[t]
              /\ size' = size + 1
              /\ stack' = Append(stack, p[t])
              /\ UNCHANGED <<mu, next, value, heap, p, ret>>

Empty == size = 0

(* Mutant: the early exit of an empty stack forgets the unlock. *)
EmptyExitLocked == "idle"
EmptyExit == "unlock"

(* Empty: unlock and answer -1.  Otherwise p is the top and its value is read. *)
PopRead(t) == \/ /\ Empty
                 /\ Goto(t, "pop_read", EmptyExit)
                 /\ UNCHANGED <<mu, list, value, heap, p, ret>>
              \/ /\ ~Empty
                 /\ Goto(t, "pop_read", "pop_unlink")
                 /\ p' = [p EXCEPT ![t] = top]
                 /\ ret' = [ret EXCEPT ![t] = value[top]]
                 /\ UNCHANGED <<mu, list, value, heap>>

(* Mutants: nothing is freed, or the new top is; the size is not decremented. *)
FreeNothing(n) == heap
FreedNext(n) == heap \ {next[n]}
SizeKept == size
Freed(n) == heap \ {n}
SizeLess == size - 1

PopUnlink(t) == /\ Goto(t, "pop_unlink", "unlock")
                /\ top' = next[p[t]]
                /\ size' = SizeLess
                /\ heap' = Freed(p[t])
                /\ stack' = SubSeq(stack, 1, Len(stack) - 1)
                /\ UNCHANGED <<mu, next, value, p, ret>>

(* pthread_mutex_unlock and the return. *)
Unlock(t) == /\ Goto(t, "unlock", "idle")
             /\ mu' = NULL
             /\ p' = [p EXCEPT ![t] = NULL]
             /\ UNCHANGED <<list, value, heap, ret>>

Continue(t) == \/ Lock(t) \/ PushLink(t) \/ PushTop(t)
               \/ PopRead(t) \/ PopUnlink(t) \/ Unlock(t)
Call(t) == CallPop(t) \/ \E v \in Values : CallPush(t, v)

Next == \E t \in Threads : Call(t) \/ Continue(t)

Spec == Init /\ [][Next]_vars

-----------------------------------------------------------------------------
(* Every variable has its type. *)
TypeOK == /\ mu \in Threads \cup {NULL}
          /\ top \in Pointers
          /\ size \in Nat
          /\ next \in [Nodes -> Pointers]
          /\ value \in [Nodes -> Values]
          /\ heap \subseteq Nodes
          /\ pc \in [Threads -> Labels]
          /\ p \in [Threads -> Pointers]
          /\ ret \in [Threads -> Values \cup {NoValue}]
          /\ stack \in Seq(Nodes)

Inside == {"push_link", "push_top", "pop_read", "pop_unlink", "unlock"}
OnStack == {stack[i] : i \in 1..Len(stack)}
(* The nodes a call owns: made by a push that has not linked it yet. *)
Made(t) == pc[t] \in {"push_lock", "push_link", "push_top"}

(* A thread between lock and unlock holds the mutex: the critical sections    *)
(* exclude each other and every path out of them, pop's early return (line    *)
(* 39) included, gives the mutex back.                                        *)
MutexDiscipline == \A t \in Threads : pc[t] \in Inside <=> mu = t

(* size and top agree, at every step a thread relies on it: pop's test of     *)
(* "size == 0" (line 38) is what keeps it from following a NULL top (line 43).*)
SizeIsLength == /\ size = Len(stack)
                /\ top = IF stack = <<>> THEN NULL ELSE stack[Len(stack)]
                /\ \A i \in 1..Len(stack) :
                     next[stack[i]] = IF i = 1 THEN NULL ELSE stack[i - 1]

(* No node on the stack is freed memory, though pop frees and malloc reuses   *)
(* addresses; nor is a node linked twice, or one that a push still fills.     *)
NoDangling == /\ OnStack \subseteq heap
              /\ \A i, j \in 1..Len(stack) : i # j => stack[i] # stack[j]
              /\ \A t \in Threads : Made(t) => p[t] \in heap \ OnStack

(* Nothing leaks: an allocated node is on the stack or in the hands of the    *)
(* push that made it.                                                         *)
NoLeak == heap = OnStack \cup {p[t] : t \in {u \in Threads : Made(u)}}

(* The allocated nodes are exactly the ones somebody owns, and once. *)
HeapIsOwned == NoDangling /\ NoLeak

-----------------------------------------------------------------------------
KindOf(t) == CASE pc[t] = "idle" -> "idle"
               [] Made(t) -> "push"
               [] pc[t] \in {"pop_lock", "pop_read", "pop_unlink"} -> "pop"
               [] OTHER -> "done"
ValOf(t) == IF Made(t) THEN value[p[t]]
            ELSE IF KindOf(t) = "pop" THEN NoValue
            ELSE ret[t]
absStack == [i \in 1..Len(stack) |-> value[stack[i]]]
absOp == [t \in Threads |-> [kind |-> KindOf(t), val |-> ValOf(t)]]
Abs == INSTANCE AbstractStack WITH stack <- absStack, op <- absOp

(* Every call of the mutex stack takes effect atomically between its call and *)
(* its return, as AbstractStack says, though addresses are freed and reused.  *)
ImplementsStack == Abs!Spec
==============================================================================
