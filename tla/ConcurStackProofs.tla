-------------------------- MODULE ConcurStackProofs --------------------------
(***************************************************************************)
(* Proofs about ConcurStack, for any number of threads, addresses and      *)
(* values; then what HashProofs proves of ConcurHash, for the test that    *)
(* MCPartD checks.                                                         *)
(***************************************************************************)
EXTENDS MCPartD, ProofFacts

-----------------------------------------------------------------------------
(***************************************************************************)
(* The inductive invariant.  What the runs check says nothing of a thread  *)
(* in the middle of its critical section: what it has read there is still  *)
(* so when it acts on it, because no other thread is in one.               *)
(***************************************************************************)
(* No two pushes fill the same node. *)
MadeApart == \A t, u \in Threads : Made(t) /\ Made(u) /\ p[t] = p[u] => t = u
(* A push about to move the top has linked its node to it. *)
LinkOK == \A t \in Threads : pc[t] = "push_top" => next[p[t]] = top
(* A pop about to unlink its node has the top in hand. *)
UnlinkOK == \A t \in Threads : pc[t] = "pop_unlink" => stack # <<>> /\ p[t] = top

IInv == /\ TypeOK /\ MutexDiscipline /\ SizeIsLength /\ HeapIsOwned
        /\ MadeApart /\ LinkOK /\ UnlinkOK

LEMMA IInvInit == Init => IInv
  <1> SUFFICES ASSUME Init PROVE IInv
    OBVIOUS
  <1>1. stack = <<>> /\ Len(stack) = 0 /\ \A t \in Threads : pc[t] = "idle"
    BY DEF Init
  <1>2. OnStack = {} /\ \A t \in Threads : ~Made(t)
    BY <1>1 DEF OnStack, Made
  <1>3. TypeOK
    BY DEF Init, TypeOK, Pointers, Labels, NoValue
  <1>4. MutexDiscipline
    BY <1>1, NullAssumption DEF Init, MutexDiscipline, Inside
  <1>5. SizeIsLength
    BY <1>1 DEF Init, SizeIsLength
  <1>6. HeapIsOwned
    BY <1>1, <1>2 DEF Init, HeapIsOwned, NoDangling, NoLeak
  <1>7. QED
    BY <1>1, <1>2, <1>3, <1>4, <1>5, <1>6 DEF IInv, MadeApart, LinkOK, UnlinkOK

(* A thread in its critical section is the only one there. *)
LEMMA Alone ==
  ASSUME IInv, NEW t \in Threads, pc[t] \in Inside, NEW u \in Threads, u # t
  PROVE  pc[u] \notin Inside
  BY DEF IInv, MutexDiscipline

(* The top of a stack that is not empty. *)
LEMMA TopIsLast ==
  ASSUME IInv, stack # <<>>
  PROVE  /\ Len(stack) \in Nat \ {0} /\ top = stack[Len(stack)]
         /\ top \in Nodes /\ top \in OnStack
  <1>1. Len(stack) \in Nat \ {0} /\ Len(stack) \in 1..Len(stack)
    BY EmptySeq DEF IInv, TypeOK
  <1>2. top = stack[Len(stack)]
    BY DEF IInv, SizeIsLength
  <1>3. QED
    BY <1>1, <1>2 DEF IInv, TypeOK, OnStack

(* A step that leaves the list, the heap and the nodes being made alone. *)
LEMMA QuietStep ==
  ASSUME IInv, UNCHANGED <<list, heap>>,
         \A u \in Threads : Made(u)' <=> Made(u),
         \A u \in Threads : Made(u) => p'[u] = p[u]
  PROVE  SizeIsLength' /\ HeapIsOwned' /\ MadeApart'
  <1>1. OnStack' = OnStack /\ SizeIsLength'
    BY DEF IInv, list, OnStack, SizeIsLength
  <1>2. {p'[t] : t \in {u \in Threads : Made(u)'}} = {p[t] : t \in {u \in Threads : Made(u)}}
    OBVIOUS
  <1>3. NoLeak'
    BY <1>1, <1>2 DEF IInv, HeapIsOwned, NoLeak
  <1>4. NoDangling'
    BY <1>1 DEF IInv, list, HeapIsOwned, NoDangling
  <1>5. QED
    BY <1>1, <1>3, <1>4 DEF IInv, HeapIsOwned, MadeApart

(* The steps of a thread that are quiet. *)
LEMMA QuietNext ==
  ASSUME IInv, NEW t \in Threads, CallPop(t) \/ Lock(t) \/ PopRead(t) \/ Unlock(t)
  PROVE  IInv'
  <1> USE DEF Goto, TypeOK, EmptyExit, MutexFree
  <1>1. UNCHANGED <<list, heap, value>>
    BY DEF CallPop, Lock, PopRead, Unlock
  <1>2. \A u \in Threads : (Made(u)' <=> Made(u)) /\ (Made(u) => p'[u] = p[u])
    BY DEF IInv, Made, CallPop, Lock, PopRead, Unlock
  <1>3. SizeIsLength' /\ HeapIsOwned' /\ MadeApart'
    BY <1>1, <1>2, QuietStep
  <1>4. ~Empty => stack # <<>> /\ top \in Nodes
    <2>1. stack = <<>> => Empty
      BY DEF IInv, SizeIsLength, Empty
    <2>2. QED
      BY <2>1, TopIsLast
  <1>5. TypeOK'
    BY <1>1, <1>4 DEF IInv, CallPop, Lock, PopRead, Unlock, Pointers, Labels, NoValue, list
  <1>6. MutexDiscipline'
    BY NullAssumption DEF IInv, MutexDiscipline, Inside, CallPop, Lock, PopRead, Unlock
  <1>7. LinkOK'
    BY <1>1 DEF IInv, list, LinkOK, CallPop, Lock, PopRead, Unlock
  <1>8. UnlinkOK'
    BY <1>1, <1>4 DEF IInv, list, UnlinkOK, CallPop, Lock, PopRead, Unlock
  <1>9. QED
    BY <1>3, <1>5, <1>6, <1>7, <1>8 DEF IInv

LEMMA CallPushStep ==
  ASSUME IInv, NEW t \in Threads, NEW v \in Values, CallPush(t, v)
  PROVE  IInv'
  <1> USE DEF Goto, TypeOK
  <1> PICK n \in Nodes \ heap : /\ heap' = heap \cup {n}
                                /\ p' = [p EXCEPT ![t] = n]
                                /\ value' = [value EXCEPT ![n] = v]
    BY DEF CallPush
  <1>1. /\ UNCHANGED <<mu, top, size, next, stack>>
        /\ pc[t] = "idle" /\ pc' = [pc EXCEPT ![t] = "push_lock"]
        /\ ret' = [ret EXCEPT ![t] = NoValue]
    BY DEF CallPush, list
  <1>2. /\ Made(t)' /\ ~Made(t) /\ p'[t] = n
        /\ \A u \in Threads : u # t => (Made(u)' <=> Made(u)) /\ p'[u] = p[u]
    BY <1>1 DEF IInv, Made
  <1>3. OnStack' = OnStack /\ n \notin OnStack
    BY <1>1 DEF IInv, OnStack, HeapIsOwned, NoDangling
  <1>4. TypeOK'
    BY <1>1 DEF IInv, Pointers, Labels, NoValue
  <1>5. MutexDiscipline' /\ SizeIsLength'
    BY <1>1 DEF IInv, MutexDiscipline, SizeIsLength, Inside
  <1>6. NoDangling'
    BY <1>1, <1>2, <1>3 DEF IInv, HeapIsOwned, NoDangling
  <1>7. NoLeak'
    <2>1. {p'[w] : w \in {u \in Threads : Made(u)'}}
            = {p[w] : w \in {u \in Threads : Made(u)}} \cup {n}
      BY <1>2
    <2>2. QED
      BY <1>3, <2>1 DEF IInv, HeapIsOwned, NoLeak
  <1>8. MadeApart'
    <2>1. \A u \in Threads : Made(u) => p[u] # n
      BY DEF IInv, HeapIsOwned, NoDangling
    <2>2. QED
      BY <1>2, <2>1 DEF IInv, MadeApart
  <1>9. LinkOK' /\ UnlinkOK'
    BY <1>1 DEF IInv, LinkOK, UnlinkOK
  <1>10. QED
    BY <1>4, <1>5, <1>6, <1>7, <1>8, <1>9 DEF IInv, HeapIsOwned

(* Linking a node that is not on the stack yet disturbs no list. *)
LEMMA PushLinkStep ==
  ASSUME IInv, NEW t \in Threads, PushLink(t)
  PROVE  IInv'
  <1> USE DEF Goto, TypeOK
  <1>1. /\ UNCHANGED <<mu, top, size, stack, value, heap, p, ret>>
        /\ pc[t] = "push_link" /\ pc' = [pc EXCEPT ![t] = "push_top"]
        /\ next' = [next EXCEPT ![p[t]] = top]
    BY DEF PushLink
  <1>2. Made(t) /\ \A u \in Threads : Made(u)' <=> Made(u)
    BY <1>1 DEF IInv, Made
  <1>3. p[t] \in Nodes /\ p[t] \notin OnStack
    BY <1>2 DEF IInv, HeapIsOwned, NoDangling
  <1>4. TypeOK'
    BY <1>1, <1>3 DEF IInv, Pointers, Labels
  <1>5. MutexDiscipline'
    BY <1>1 DEF IInv, MutexDiscipline, Inside
  <1>6. SizeIsLength'
    BY <1>1, <1>3 DEF IInv, SizeIsLength, OnStack
  <1>7. HeapIsOwned' /\ MadeApart'
    <2>1. OnStack' = OnStack
      BY <1>1 DEF OnStack
    <2>2. {p[w] : w \in {u \in Threads : Made(u)'}} = {p[w] : w \in {u \in Threads : Made(u)}}
      BY <1>2
    <2>3. QED
      BY <1>1, <1>2, <2>1, <2>2 DEF IInv, HeapIsOwned, NoDangling, NoLeak, MadeApart
  <1>8. LinkOK'
    <2>1. \A u \in Threads : u # t => pc'[u] # "push_top"
      BY <1>1, Alone DEF IInv, Inside
    <2>2. QED
      BY <1>1, <1>3, <2>1 DEF IInv, LinkOK
  <1>9. UnlinkOK'
    BY <1>1 DEF IInv, UnlinkOK
  <1>10. QED
    BY <1>4, <1>5, <1>6, <1>7, <1>8, <1>9 DEF IInv

(* The new top is on top of what it was linked to. *)
LEMMA PushTopStep ==
  ASSUME IInv, NEW t \in Threads, PushTop(t)
  PROVE  IInv'
  <1> USE DEF Goto, TypeOK
  <1>1. /\ UNCHANGED <<mu, next, value, heap, p, ret>>
        /\ pc[t] = "push_top" /\ pc' = [pc EXCEPT ![t] = "unlock"]
        /\ top' = p[t] /\ size' = size + 1 /\ stack' = Append(stack, p[t])
    BY DEF PushTop
  <1>2. /\ Made(t) /\ ~Made(t)'
        /\ \A u \in Threads : u # t => (Made(u)' <=> Made(u))
    BY <1>1 DEF IInv, Made
  <1>3. /\ p[t] \in Nodes /\ p[t] \in heap /\ p[t] \notin OnStack /\ next[p[t]] = top
    BY <1>1, <1>2 DEF IInv, HeapIsOwned, NoDangling, LinkOK
  <1>4. /\ Len(stack) \in Nat /\ stack' # <<>> /\ Len(stack') = Len(stack) + 1
        /\ \A i \in 1..Len(stack) : stack'[i] = stack[i]
        /\ stack'[Len(stack) + 1] = p[t]
        /\ OnStack' = OnStack \cup {p[t]}
    <2>1. stack \in Seq(Nodes) /\ p[t] \in Nodes /\ stack' = Append(stack, p[t])
      BY <1>1, <1>3 DEF IInv
    <2>2. QED
      BY <2>1, AppendFacts DEF OnStack
  <1>5. TypeOK'
    <2>1. stack' \in Seq(Nodes)
      BY <1>1, <1>3, AppendProperties DEF IInv
    <2>2. QED
      BY <1>1, <1>3, <2>1 DEF IInv, Pointers, Labels
  <1>6. MutexDiscipline'
    BY <1>1 DEF IInv, MutexDiscipline, Inside
  <1>7. SizeIsLength'
    <2>1. size' = Len(stack') /\ top' = stack'[Len(stack')]
      BY <1>1, <1>4 DEF IInv, SizeIsLength
    <2>2. ASSUME NEW i \in 1..Len(stack')
          PROVE  next'[stack'[i]] = IF i = 1 THEN NULL ELSE stack'[i - 1]
      <3>1. CASE i \in 1..Len(stack)
        BY <1>1, <1>4, <3>1 DEF IInv, SizeIsLength
      <3>2. CASE i = Len(stack) + 1
        <4>1. next'[stack'[i]] = top
          BY <1>1, <1>3, <1>4, <3>2
        <4>2. CASE stack = <<>>
          BY <1>4, <3>2, <4>1, <4>2 DEF IInv, SizeIsLength
        <4>3. CASE stack # <<>>
          <5>1. /\ Len(stack) \in 1..Len(stack) /\ i # 1 /\ i - 1 = Len(stack)
                /\ top = stack[Len(stack)]
            BY <1>4, <3>2, <4>3, TopIsLast
          <5>2. QED
            BY <1>4, <4>1, <5>1
        <4>4. QED
          BY <4>2, <4>3
      <3>3. QED
        BY <1>4, <3>1, <3>2
    <2>3. QED
      BY <1>4, <2>1, <2>2 DEF SizeIsLength
  <1>8. NoDangling'
    <2>1. ASSUME NEW i \in 1..Len(stack'), NEW j \in 1..Len(stack'), i # j
          PROVE  stack'[i] # stack'[j]
      <3>1. \A k \in 1..Len(stack) : stack'[k] \in OnStack
        BY <1>4 DEF OnStack
      <3>2. CASE i = Len(stack) + 1 \/ j = Len(stack) + 1
        BY <1>3, <1>4, <2>1, <3>1, <3>2
      <3>3. CASE i \in 1..Len(stack) /\ j \in 1..Len(stack)
        BY <1>4, <2>1, <3>3 DEF IInv, HeapIsOwned, NoDangling
      <3>4. QED
        BY <1>4, <3>2, <3>3
    <2>2. \A u \in Threads : Made(u)' => p[u] \in heap \ OnStack /\ p[u] # p[t]
      BY <1>2 DEF IInv, HeapIsOwned, NoDangling, MadeApart
    <2>3. OnStack' \subseteq heap'
      BY <1>1, <1>3, <1>4 DEF IInv, HeapIsOwned, NoDangling
    <2>4. QED
      BY <1>1, <1>4, <2>1, <2>2, <2>3 DEF NoDangling
  <1>9. NoLeak'
    <2>1. {p[w] : w \in {u \in Threads : Made(u)}}
            = {p[w] : w \in {u \in Threads : Made(u)'}} \cup {p[t]}
      BY <1>2
    <2>2. QED
      BY <1>1, <1>4, <2>1 DEF IInv, HeapIsOwned, NoLeak
  <1>10. MadeApart'
    BY <1>1, <1>2 DEF IInv, MadeApart
  <1>11. LinkOK' /\ UnlinkOK'
    <2>1. \A u \in Threads : pc'[u] \notin {"push_top", "pop_unlink"}
      BY <1>1, Alone DEF IInv, Inside
    <2>2. QED
      BY <2>1 DEF LinkOK, UnlinkOK
  <1>12. QED
    BY <1>5, <1>6, <1>7, <1>8, <1>9, <1>10, <1>11 DEF IInv, HeapIsOwned

(* What is freed is what was on top, and nothing else is. *)
LEMMA PopUnlinkStep ==
  ASSUME IInv, NEW t \in Threads, PopUnlink(t)
  PROVE  IInv'
  <1> USE DEF Goto, TypeOK, Freed, SizeLess
  <1>1. /\ UNCHANGED <<mu, next, value, p, ret>>
        /\ pc[t] = "pop_unlink" /\ pc' = [pc EXCEPT ![t] = "unlock"]
        /\ top' = next[p[t]] /\ size' = size - 1 /\ heap' = heap \ {p[t]}
        /\ stack' = SubSeq(stack, 1, Len(stack) - 1)
    BY DEF PopUnlink
  <1>2. \A u \in Threads : Made(u)' <=> Made(u)
    BY <1>1 DEF IInv, Made
  <1>3. /\ stack # <<>> /\ Len(stack) \in Nat \ {0} /\ p[t] = top
        /\ top = stack[Len(stack)] /\ top \in Nodes /\ top \in OnStack
    BY <1>1, TopIsLast DEF IInv, UnlinkOK
  <1>4. /\ stack' \in Seq(Nodes) /\ Len(stack') = Len(stack) - 1
        /\ \A i \in 1..(Len(stack) - 1) : stack'[i] = stack[i]
    BY <1>1, <1>3, DropLastFacts DEF IInv
  <1>5. OnStack' = OnStack \ {top}
    <2>1. /\ stack \in Seq(Nodes) /\ stack # <<>>
          /\ \A i, j \in 1..Len(stack) : i # j => stack[i] # stack[j]
          /\ stack' = SubSeq(stack, 1, Len(stack) - 1)
      BY <1>1, <1>3 DEF IInv, HeapIsOwned, NoDangling
    <2>2. {stack'[i] : i \in 1..Len(stack')}
            = {stack[i] : i \in 1..Len(stack)} \ {stack[Len(stack)]}
      BY ONLY <2>1, DropLastRange
    <2>3. QED
      BY <1>3, <2>2 DEF OnStack
  <1>6. TypeOK'
    <2>1. size' \in Nat
      BY <1>1, <1>3 DEF IInv, SizeIsLength
    <2>2. QED
      BY <1>1, <1>3, <1>4, <2>1 DEF IInv, Labels
  <1>7. MutexDiscipline'
    BY <1>1 DEF IInv, MutexDiscipline, Inside
  <1>8. SizeIsLength'
    <2>1. next[top] = IF Len(stack) = 1 THEN NULL ELSE stack[Len(stack) - 1]
      <3>1. Len(stack) \in 1..Len(stack)
        BY <1>3
      <3>2. QED
        BY <1>3, <3>1 DEF IInv, SizeIsLength
    <2>2. stack' = <<>> <=> Len(stack) = 1
      BY <1>3, <1>4, EmptySeq
    <2>3. top' = IF stack' = <<>> THEN NULL ELSE stack'[Len(stack')]
      BY <1>1, <1>3, <1>4, <2>1, <2>2
    <2>4. size' = Len(stack')
      BY <1>1, <1>4 DEF IInv, SizeIsLength
    <2>5. \A i \in 1..Len(stack') :
            next'[stack'[i]] = IF i = 1 THEN NULL ELSE stack'[i - 1]
      BY <1>1, <1>3, <1>4 DEF IInv, SizeIsLength
    <2>6. QED
      BY <2>3, <2>4, <2>5 DEF SizeIsLength
  <1>9. NoDangling'
    <2>1. \A i, j \in 1..Len(stack') : i # j => stack'[i] # stack'[j]
      BY <1>3, <1>4 DEF IInv, HeapIsOwned, NoDangling
    <2>2. \A u \in Threads : Made(u)' => p'[u] \in heap' \ OnStack'
      BY <1>1, <1>2, <1>3, <1>5 DEF IInv, HeapIsOwned, NoDangling
    <2>3. OnStack' \subseteq heap'
      BY <1>1, <1>3, <1>5 DEF IInv, HeapIsOwned, NoDangling
    <2>4. QED
      BY <2>1, <2>2, <2>3 DEF NoDangling
  <1>10. NoLeak'
    <2>1. {p'[w] : w \in {u \in Threads : Made(u)'}} = {p[w] : w \in {u \in Threads : Made(u)}}
      BY <1>1, <1>2
    <2>2. top \notin {p[w] : w \in {u \in Threads : Made(u)}}
      BY <1>3 DEF IInv, HeapIsOwned, NoDangling
    <2>3. QED
      BY <1>1, <1>3, <1>5, <2>1, <2>2 DEF IInv, HeapIsOwned, NoLeak
  <1>11. MadeApart'
    BY <1>1, <1>2 DEF IInv, MadeApart
  <1>12. LinkOK' /\ UnlinkOK'
    <2>1. \A u \in Threads : pc'[u] \notin {"push_top", "pop_unlink"}
      BY <1>1, Alone DEF IInv, Inside
    <2>2. QED
      BY <2>1 DEF LinkOK, UnlinkOK
  <1>13. QED
    BY <1>6, <1>7, <1>8, <1>9, <1>10, <1>11, <1>12 DEF IInv, HeapIsOwned

LEMMA IInvNext == IInv /\ [Next]_vars => IInv'
  <1> SUFFICES ASSUME IInv, [Next]_vars PROVE IInv'
    OBVIOUS
  <1>1. ASSUME NEW t \in Threads, Call(t) \/ Continue(t) PROVE IInv'
    <2>1. CASE \E v \in Values : CallPush(t, v)
      BY <2>1, CallPushStep
    <2>2. CASE PushLink(t)
      BY <2>2, PushLinkStep
    <2>3. CASE PushTop(t)
      BY <2>3, PushTopStep
    <2>4. CASE PopUnlink(t)
      BY <2>4, PopUnlinkStep
    <2>5. CASE CallPop(t) \/ Lock(t) \/ PopRead(t) \/ Unlock(t)
      BY <2>5, QuietNext
    <2>6. QED
      BY <1>1, <2>1, <2>2, <2>3, <2>4, <2>5 DEF Call, Continue
  <1>2. CASE UNCHANGED vars
    <2>1. /\ UNCHANGED <<list, heap, mu, value, pc, p, ret>>
          /\ \A u \in Threads : (Made(u)' <=> Made(u)) /\ p'[u] = p[u]
      BY <1>2 DEF vars, list, Made
    <2>2. SizeIsLength' /\ HeapIsOwned' /\ MadeApart'
      BY <2>1, QuietStep
    <2>3. TypeOK' /\ MutexDiscipline' /\ LinkOK' /\ UnlinkOK'
      BY <2>1 DEF IInv, list, TypeOK, MutexDiscipline, LinkOK, UnlinkOK
    <2>4. QED
      BY <2>2, <2>3 DEF IInv
  <1>3. QED
    BY <1>1, <1>2 DEF Next

LEMMA Invariant == Spec => []IInv
  BY IInvInit, IInvNext, PTL DEF Spec

(* Exactly the thread between pthread_mutex_lock and pthread_mutex_unlock     *)
(* holds the mutex, and every path through push and pop gives it back.        *)
THEOREM CriticalSections == Spec => []MutexDiscipline
  BY Invariant, PTL DEF IInv

(* At every step "size" is the number of nodes linked from "top".             *)
THEOREM SizeAgrees == Spec => []SizeIsLength
  BY Invariant, PTL DEF IInv

(* Nothing on the stack is freed memory and nothing that is allocated leaks,  *)
(* however often the addresses come back.                                     *)
THEOREM HeapOwned == Spec => []HeapIsOwned
  BY Invariant, PTL DEF IInv

-----------------------------------------------------------------------------
(***************************************************************************)
(* Linearizability: ConcurStack implements AbstractStack.  A push takes    *)
(* effect when it moves the top, a pop when it unlinks its node or finds   *)
(* the stack empty.                                                        *)
(***************************************************************************)
(* A call that is to answer nothing has no answer; a pop that is about to     *)
(* unlink its node has read that node's value.                                *)
RetOK == \A t \in Threads :
           IF pc[t] = "pop_unlink" THEN ret[t] = value[p[t]]
           ELSE pc[t] \in {"push_lock", "push_link", "push_top", "pop_lock", "pop_read"}
                  => ret[t] = NoValue

LEMMA RetNext == IInv /\ RetOK /\ [Next]_vars => RetOK'
  <1> SUFFICES ASSUME IInv, RetOK, [Next]_vars PROVE RetOK'
    OBVIOUS
  <1> USE DEF RetOK, IInv, TypeOK, Goto, list
  <1>1. ASSUME NEW t \in Threads, NEW v \in Values, CallPush(t, v) PROVE RetOK'
    <2>1. PICK n \in Nodes \ heap : p' = [p EXCEPT ![t] = n] /\ value' = [value EXCEPT ![n] = v]
      BY <1>1 DEF CallPush
    <2>2. \A u \in Threads : pc[u] = "pop_unlink" => p[u] \in heap /\ p[u] # n
      BY <2>1, TopIsLast DEF UnlinkOK, HeapIsOwned, NoDangling
    <2>3. QED
      BY <1>1, <2>1, <2>2 DEF CallPush
  <1>2. ASSUME NEW t \in Threads, CallPop(t) \/ Lock(t) PROVE RetOK'
    BY <1>2 DEF CallPop, Lock
  <1>3. ASSUME NEW t \in Threads, PopRead(t) PROVE RetOK'
    BY <1>3 DEF PopRead, EmptyExit
  <1>4. ASSUME NEW t \in Threads, PushLink(t) \/ PushTop(t) \/ PopUnlink(t) \/ Unlock(t)
        PROVE RetOK'
    BY <1>4 DEF PushLink, PushTop, PopUnlink, Unlock
  <1>5. CASE UNCHANGED vars
    BY <1>5 DEF vars
  <1>6. QED
    BY <1>1, <1>2, <1>3, <1>4, <1>5 DEF Next, Call, Continue

LEMMA AlwaysRet == Spec => []RetOK
  <1>1. Init => RetOK
    BY DEF Init, RetOK
  <1>2. QED
    BY <1>1, RetNext, Invariant, PTL DEF Spec

(* A step of t changes nobody else's abstract call. *)
LEMMA OthersKept ==
  ASSUME IInv, NEW t \in Threads, Call(t) \/ Continue(t), NEW u \in Threads, u # t
  PROVE  KindOf(u)' = KindOf(u) /\ ValOf(u)' = ValOf(u)
  <1> USE DEF IInv, TypeOK, Goto, list
  <1>1. /\ pc'[u] = pc[u] /\ ret'[u] = ret[u] /\ p'[u] = p[u]
        /\ Made(u) => value'[p[u]] = value[p[u]]
    <2>1. CASE \E v \in Values : CallPush(t, v)
      <3>1. PICK v \in Values : CallPush(t, v)
        BY <2>1
      <3>2. PICK n \in Nodes \ heap : /\ p' = [p EXCEPT ![t] = n]
                                      /\ value' = [value EXCEPT ![n] = v]
        BY <3>1 DEF CallPush
      <3>3. Made(u) => p[u] \in heap /\ p[u] # n
        BY DEF HeapIsOwned, NoDangling
      <3>4. QED
        BY <3>1, <3>2, <3>3 DEF CallPush
    <2>2. CASE CallPop(t) \/ Continue(t)
      BY <2>2 DEF CallPop, Continue, Lock, PushLink, PushTop, PopRead, PopUnlink, Unlock
    <2>3. QED
      BY <2>1, <2>2 DEF Call
  <1>2. KindOf(u)' = KindOf(u) /\ (Made(u)' <=> Made(u))
    BY <1>1 DEF KindOf, Made
  <1>3. QED
    BY <1>1, <1>2 DEF ValOf

(* The abstract calls after a step of t, and when it changes none. *)
LEMMA OpAfter ==
  ASSUME IInv, NEW t \in Threads, Call(t) \/ Continue(t)
  PROVE  /\ absOp' = [absOp EXCEPT ![t] = Abs!Op(KindOf(t)', ValOf(t)')]
         /\ absOp[t] = Abs!Op(KindOf(t), ValOf(t))
         /\ KindOf(t)' = KindOf(t) /\ ValOf(t)' = ValOf(t) => absOp' = absOp
  <1>1. \A u \in Threads : u # t => KindOf(u)' = KindOf(u) /\ ValOf(u)' = ValOf(u)
    BY OthersKept
  <1>2. QED
    BY <1>1 DEF absOp, Abs!Op

(* The abstract contents change with the stack only. *)
LEMMA ContentsKept ==
  ASSUME IInv, NEW t \in Threads, Call(t) \/ Continue(t), stack' = stack
  PROVE  absStack' = absStack
  <1> USE DEF IInv, TypeOK, list
  <1>1. \A i \in 1..Len(stack) : stack[i] \in Nodes /\ stack[i] \in heap
    BY DEF HeapIsOwned, NoDangling, OnStack
  <1>2. \A i \in 1..Len(stack) : value'[stack[i]] = value[stack[i]]
    <2>1. CASE \E v \in Values : CallPush(t, v)
      BY <1>1, <2>1 DEF CallPush
    <2>2. CASE CallPop(t) \/ Continue(t)
      BY <2>2 DEF CallPop, Continue, Lock, PushLink, PushTop, PopRead, PopUnlink, Unlock
    <2>3. QED
      BY <2>1, <2>2 DEF Call
  <1>3. QED
    BY <1>2 DEF absStack

LEMMA CallRefines ==
  ASSUME IInv, NEW t \in Threads, Call(t) PROVE Abs!Next
  <1> USE DEF IInv, TypeOK, Goto
  <1>1. ASSUME NEW v \in Values, CallPush(t, v) PROVE Abs!CallPush(t, v)
    <2>1. /\ absOp' = [absOp EXCEPT ![t] = Abs!Op(KindOf(t)', ValOf(t)')]
          /\ absOp[t] = Abs!Op(KindOf(t), ValOf(t))
      BY <1>1, OpAfter DEF Call
    <2>2. absStack' = absStack
      BY <1>1, ContentsKept DEF Call, CallPush, list
    <2>3. KindOf(t) = "idle" /\ KindOf(t)' = "push" /\ Made(t)'
      BY <1>1 DEF CallPush, KindOf, Made
    <2>4. value'[p'[t]] = v
      BY <1>1 DEF CallPush
    <2>5. QED
      BY <2>1, <2>2, <2>3, <2>4 DEF Abs!CallPush, Abs!Op, ValOf
  <1>2. ASSUME CallPop(t) PROVE Abs!CallPop(t)
    <2>1. /\ absOp' = [absOp EXCEPT ![t] = Abs!Op(KindOf(t)', ValOf(t)')]
          /\ absOp[t] = Abs!Op(KindOf(t), ValOf(t))
      BY <1>2, OpAfter DEF Call
    <2>2. absStack' = absStack
      BY <1>2, ContentsKept DEF Call, CallPop, list
    <2>3. KindOf(t) = "idle" /\ KindOf(t)' = "pop" /\ ~Made(t)'
      BY <1>2 DEF CallPop, KindOf, Made
    <2>4. QED
      BY <2>1, <2>2, <2>3 DEF Abs!CallPop, Abs!Op, Abs!NoValue, NoValue, ValOf
  <1>3. QED
    BY <1>1, <1>2 DEF Call, Abs!Next

LEMMA ReturnRefines ==
  ASSUME IInv, NEW t \in Threads, Unlock(t) PROVE Abs!Return(t)
  <1> USE DEF IInv, TypeOK, Goto
  <1>1. /\ absOp' = [absOp EXCEPT ![t] = Abs!Op(KindOf(t)', ValOf(t)')]
        /\ absOp[t] = Abs!Op(KindOf(t), ValOf(t))
    BY OpAfter DEF Continue
  <1>2. absStack' = absStack
    BY ContentsKept DEF Continue, Unlock, list
  <1>3. /\ KindOf(t) = "done" /\ ~Made(t)
        /\ KindOf(t)' = "idle" /\ ~Made(t)' /\ ret' = ret
    BY DEF Unlock, KindOf, Made
  <1>4. QED
    BY <1>1, <1>2, <1>3 DEF Abs!Return, Abs!Op, ValOf

(* The steps that no abstract step matches. *)
LEMMA SilentRefines ==
  ASSUME IInv, NEW t \in Threads, Lock(t) \/ PushLink(t) \/ (PopRead(t) /\ ~Empty)
  PROVE  UNCHANGED <<absStack, absOp>>
  <1> USE DEF IInv, TypeOK, Goto, list
  <1>1. absStack' = absStack
    BY ContentsKept DEF Continue, Lock, PushLink, PopRead
  <1>2. KindOf(t)' = KindOf(t) /\ (Made(t)' <=> Made(t))
    BY DEF Lock, PushLink, PopRead, KindOf, Made
  <1>3. /\ value' = value /\ (Made(t) => p'[t] = p[t])
        /\ KindOf(t) # "pop" => ret'[t] = ret[t]
    BY DEF Lock, PushLink, PopRead, KindOf, Made
  <1>4. ValOf(t)' = ValOf(t)
    BY <1>2, <1>3 DEF ValOf
  <1>5. QED
    BY <1>1, <1>2, <1>4, OpAfter DEF Continue

(* A push takes effect. *)
LEMMA PushRefines ==
  ASSUME IInv, RetOK, NEW t \in Threads, PushTop(t) PROVE Abs!DoPush(t)
  <1> USE DEF IInv, TypeOK, Goto
  <1>1. /\ absOp' = [absOp EXCEPT ![t] = Abs!Op(KindOf(t)', ValOf(t)')]
        /\ absOp[t] = Abs!Op(KindOf(t), ValOf(t))
    BY OpAfter DEF Continue
  <1>2. /\ pc[t] = "push_top" /\ pc'[t] = "unlock" /\ value' = value /\ ret' = ret
        /\ stack' = Append(stack, p[t])
    BY DEF PushTop
  <1>3. /\ KindOf(t) = "push" /\ Made(t) /\ p[t] \in Nodes
        /\ KindOf(t)' = "done" /\ ~Made(t)' /\ ret[t] = NoValue
    BY <1>2 DEF KindOf, Made, HeapIsOwned, NoDangling, RetOK
  <1>4. absStack' = Append(absStack, value[p[t]])
    <2>1. absStack = Images(stack, value) /\ absStack' = Images(stack', value)
      BY <1>2 DEF absStack, Images
    <2>2. stack \in Seq(Nodes) /\ DOMAIN value = Nodes
      OBVIOUS
    <2>3. QED
      BY ONLY <1>2, <1>3, <2>1, <2>2, ImagesOfAppend
  <1>5. QED
    BY <1>1, <1>2, <1>3, <1>4 DEF Abs!DoPush, Abs!Op, Abs!NoValue, NoValue, ValOf

(* A pop takes effect: it unlinks the top, or finds the stack empty. *)
LEMMA PopRefines ==
  ASSUME IInv, RetOK, NEW t \in Threads, PopUnlink(t) \/ (PopRead(t) /\ Empty)
  PROVE  Abs!DoPop(t)
  <1> USE DEF IInv, TypeOK, Goto
  <1>1. /\ absOp' = [absOp EXCEPT ![t] = Abs!Op(KindOf(t)', ValOf(t)')]
        /\ absOp[t] = Abs!Op(KindOf(t), ValOf(t))
    BY OpAfter DEF Continue
  <1>2. CASE PopUnlink(t)
    <2>1. /\ pc[t] = "pop_unlink" /\ pc'[t] = "unlock" /\ value' = value /\ ret' = ret
          /\ stack' = SubSeq(stack, 1, Len(stack) - 1)
      BY <1>2 DEF PopUnlink
    <2>2. /\ KindOf(t) = "pop" /\ ~Made(t)
          /\ KindOf(t)' = "done" /\ ~Made(t)'
      BY <2>1 DEF KindOf, Made
    <2>3. stack # <<>> /\ ret[t] = value[stack[Len(stack)]]
      BY <2>1, TopIsLast DEF UnlinkOK, RetOK
    <2>4. /\ absStack # <<>> /\ absStack[Len(absStack)] = value[stack[Len(stack)]]
          /\ absStack' = SubSeq(absStack, 1, Len(absStack) - 1)
      <3>1. absStack = Images(stack, value) /\ absStack' = Images(stack', value)
        BY <2>1 DEF absStack, Images
      <3>2. stack \in Seq(Nodes) /\ DOMAIN value = Nodes
        OBVIOUS
      <3>3. QED
        BY ONLY <2>1, <2>3, <3>1, <3>2, ImagesOfDropLast
    <2>5. QED
      BY <1>1, <2>1, <2>2, <2>3, <2>4 DEF Abs!DoPop, Abs!Op, Abs!TopOf, Abs!Popped, ValOf
  <1>3. CASE PopRead(t) /\ Empty
    <2>1. /\ pc[t] = "pop_read" /\ pc'[t] = "unlock" /\ ret' = ret /\ stack' = stack
      BY <1>3 DEF PopRead, EmptyExit, list
    <2>2. /\ KindOf(t) = "pop" /\ KindOf(t)' = "done" /\ ~Made(t) /\ ~Made(t)'
          /\ ret[t] = NoValue
      BY <2>1 DEF KindOf, Made, RetOK
    <2>3. absStack' = absStack
      BY <1>3, <2>1, ContentsKept DEF Continue
    <2>4. absStack = <<>>
      <3>1. Len(stack) = 0
        BY <1>3 DEF Empty, SizeIsLength
      <3>2. absStack \in [1..0 -> Values]
        BY <3>1 DEF absStack
      <3>3. absStack \in Seq(Values) /\ Len(absStack) = 0
        BY ONLY <3>2, FunctionIsSeq
      <3>4. QED
        BY <3>3, EmptySeq
    <2>5. QED
      BY <1>1, <2>1, <2>2, <2>3, <2>4 DEF Abs!DoPop, Abs!Op, Abs!NoValue, NoValue, ValOf
  <1>4. QED
    BY <1>2, <1>3

LEMMA InitRefines == Init => Abs!Init
  <1> SUFFICES ASSUME Init PROVE Abs!Init
    OBVIOUS
  <1>1. absStack = <<>>
    BY DEF Init, absStack
  <1>2. \A t \in Threads : KindOf(t) = "idle" /\ ValOf(t) = NoValue
    BY DEF Init, KindOf, ValOf, Made
  <1>3. QED
    BY <1>1, <1>2 DEF Abs!Init, absOp, Abs!Op, Abs!NoValue, NoValue

LEMMA NextRefines == IInv /\ RetOK /\ [Next]_vars => [Abs!Next]_<<absStack, absOp>>
  <1> SUFFICES ASSUME IInv, RetOK, [Next]_vars
               PROVE  Abs!Next \/ UNCHANGED <<absStack, absOp>>
    OBVIOUS
  <1>1. ASSUME NEW t \in Threads, Call(t) PROVE Abs!Next
    BY <1>1, CallRefines
  <1>2. ASSUME NEW t \in Threads, Continue(t)
        PROVE  Abs!Next \/ UNCHANGED <<absStack, absOp>>
    <2>1. CASE Unlock(t)
      BY <2>1, ReturnRefines DEF Abs!Next
    <2>2. CASE PushTop(t)
      BY <2>2, PushRefines DEF Abs!Next
    <2>3. CASE PopUnlink(t) \/ (PopRead(t) /\ Empty)
      BY <2>3, PopRefines DEF Abs!Next
    <2>4. CASE Lock(t) \/ PushLink(t) \/ (PopRead(t) /\ ~Empty)
      BY <2>4, SilentRefines
    <2>5. QED
      BY <1>2, <2>1, <2>2, <2>3, <2>4 DEF Continue
  <1>3. CASE UNCHANGED vars
    BY <1>3 DEF vars, list, absStack, absOp, KindOf, ValOf, Made
  <1>4. QED
    BY <1>1, <1>2, <1>3 DEF Next

(* The mutex stack is linearizable: whatever the threads, the values and the  *)
(* reuse of freed addresses, the calls of concur-stack.c answer as those of   *)
(* AbstractStack, each of which is one step.                                  *)
THEOREM Linearizable == Spec => ImplementsStack
  BY InitRefines, NextRefines, Invariant, AlwaysRet, PTL
     DEF Spec, ImplementsStack, Abs!Spec, Abs!vars
-----------------------------------------------------------------------------
(***************************************************************************)
(* What MCPartD checks of the hash table's test.  HP is the module with    *)
(* the proofs, instantiated as MCPartD instantiates ConcurHash: its        *)
(* definitions are those of Hash by another name.                          *)
(***************************************************************************)
HP == INSTANCE HashProofs
        WITH Threads <- Testers, Keys <- TestKeys, Values <- Testers,
             Nodes <- Addresses, Bucket <- [k \in TestKeys |-> k[2] % NumBuckets],
             KeysOf <- [t \in Testers |-> [i \in 1..HashTestSize |-> <<t, i>>]],
             ValueOf <- [t \in Testers |-> t],
             size <- count, value <- data, heap <- used, pc <- at, p <- q, ret <- answer

LEMMA HashRuns == MCSpec => Hash!TestInit /\ [][Hash!TestNext]_(Hash!testVars)
  <1>1. [MCNext]_allVars => [Hash!TestNext]_(Hash!testVars)
    BY DEF MCNext, allVars, hashVars, Hash!testVars, Hash!vars
  <1>2. QED
    BY <1>1, PTL DEF MCSpec, MCInit

LEMMA HashByName ==
  /\ Hash!HashAssumption => HP!HashAssumption
  /\ Hash!TestAssumption => HP!TestAssumption
  /\ Hash!TestInit => HP!TestInit
  /\ [Hash!TestNext]_(Hash!testVars) => [HP!TestNext]_(HP!testVars)
  /\ HP!TypeOK /\ HP!TableOwnsHeap => TableOwnsHeap
  /\ HP!LookupAnswers /\ HP!SizeAfterInserts /\ HP!SizeAfterDeletes => HashTestPasses
  <1> USE DEF HP!Indices, Hash!Indices
  <1>1. Hash!HashAssumption => HP!HashAssumption
    BY Zenon DEF HP!HashAssumption, Hash!HashAssumption
  <1>2. Hash!TestAssumption => HP!TestAssumption
    BY Zenon DEF HP!TestAssumption, Hash!TestAssumption, HP!Cardinality, Hash!Cardinality
  <1>3. Hash!TestInit => HP!TestInit
    BY Zenon DEF HP!TestInit, Hash!TestInit, HP!Init, Hash!Init
  <1>4. [Hash!TestNext]_(Hash!testVars) => [HP!TestNext]_(HP!testVars)
    BY Zenon
       DEF HP!testVars, HP!vars, HP!TestNext, HP!NextPhase, HP!Joined, HP!After, HP!Work,
           HP!Finish, HP!Insert, HP!Find, HP!Read, HP!Delete, HP!First, HP!Matches,
           HP!Chain, HP!Unchained, HP!SizeLess,
           Hash!testVars, Hash!vars, Hash!TestNext, Hash!NextPhase, Hash!Joined,
           Hash!After, Hash!Work, Hash!Finish, Hash!Insert, Hash!Find, Hash!Read,
           Hash!Delete, Hash!First, Hash!Matches, Hash!Chain, Hash!Unchained,
           Hash!SizeLess
  <1>5. HP!TypeOK /\ HP!TableOwnsHeap => TableOwnsHeap
    BY Zenon
       DEF TableOwnsHeap, HP!TypeOK, Hash!TypeOK, HP!TableOwnsHeap, Hash!TableOwnsHeap,
           HP!Chained, Hash!Chained, HP!Cardinality, Hash!Cardinality
  <1>6. HP!LookupAnswers /\ HP!SizeAfterInserts /\ HP!SizeAfterDeletes => HashTestPasses
    BY Zenon
       DEF HashTestPasses, HP!LookupAnswers, Hash!LookupAnswers,
           HP!SizeAfterInserts, Hash!SizeAfterInserts, HP!Cardinality, Hash!Cardinality,
           HP!SizeAfterDeletes, Hash!SizeAfterDeletes
  <1>7. QED
    BY <1>1, <1>2, <1>3, <1>4, <1>5, <1>6

(* Each thread of the test goes through <<t, 1>>, <<t, 2>>, ...: the keys are  *)
(* apart and are all there are.                                               *)
LEMMA TestSetting == HP!Setting
  <1> DEFINE K == [t \in Testers |-> [i \in 1..HashTestSize |-> <<t, i>>]]
  <1>1. HP!HashAssumption /\ HP!TestAssumption
    BY Assumptions, HashByName
  <1>2. \A t \in Testers : DOMAIN K[t] = 1..HashTestSize /\ K[t] \in Seq(TestKeys)
    BY <1>1 DEF HP!TestAssumption
  <1>3. \A t \in Testers : Len(K[t]) = HashTestSize
    <2> HIDE DEF K
    <2>1. QED
      BY <1>2, SizesAssumption, LenProperties
  <1>4. HP!KeysApart
    BY <1>3 DEF HP!KeysApart
  <1>5. HP!KeysAll
    <2>1. ASSUME NEW k \in TestKeys
          PROVE  \E t \in Testers : \E i \in 1..Len(K[t]) : K[t][i] = k
      <3>1. PICK t \in Testers, i \in 1..HashTestSize : k = <<t, i>>
        BY DEF TestKeys
      <3>2. i \in 1..Len(K[t]) /\ K[t][i] = k
        BY <1>3, <3>1
      <3> HIDE DEF K
      <3>3. QED
        BY <3>2
    <2>2. QED
      BY ONLY <2>1, Zenon DEF HP!KeysAll
  <1>6. QED
    BY <1>1, <1>4, <1>5 DEF HP!Setting

(* TableOwnsHeap: whatever the order the test's threads run in, the chains    *)
(* hold the allocated nodes, each once and in its key's chain, and size       *)
(* counts them.                                                               *)
THEOREM TableOwned == MCSpec => []TableOwnsHeap
  <1>1. HP!TestInit /\ [][HP!TestNext]_(HP!testVars) => [](HP!TypeOK /\ HP!TableOwnsHeap)
    BY TestSetting, HP!TestOwnsHeap
  <1>2. QED
    BY <1>1, HashByName, HashRuns, PTL

(* HashTestPasses: the assertions of test-hash.c hold in every order of its   *)
(* threads, for any number of threads that have at least two keys in each     *)
(* bucket (test-hash.c puts 10000 keys of each thread in 128 buckets).        *)
THEOREM HashTestRight ==
  ASSUME HashTestSize >= 2 * NumBuckets
  PROVE  MCSpec => []HashTestPasses
  <1> DEFINE K == [t \in Testers |-> [i \in 1..HashTestSize |-> <<t, i>>]]
             B == [k \in TestKeys |-> k[2] % NumBuckets]
  <1>1. ASSUME NEW t \in Testers
        PROVE  /\ Len(K[t]) = HashTestSize
               /\ \A i \in 1..HashTestSize : B[K[t][i]] = i % NumBuckets
    <2>1. DOMAIN K[t] = 1..HashTestSize /\ K[t] \in Seq(TestKeys)
      BY Assumptions, HashByName DEF HP!TestAssumption
    <2>2. Len(K[t]) = HashTestSize
      <3> HIDE DEF K
      <3>1. QED
        BY <2>1, SizesAssumption, LenProperties
    <2>3. QED
      BY <2>2 DEF TestKeys
  <1>2. ASSUME NEW i \in 1..HashTestSize
        PROVE  \E j \in 1..HashTestSize \ {i} : j % NumBuckets = i % NumBuckets
    <2>1. CASE i > NumBuckets
      <3>1. /\ i - NumBuckets \in Nat /\ i - NumBuckets \in 1..HashTestSize \ {i}
            /\ i - NumBuckets + NumBuckets = i
        BY <2>1, SizesAssumption
      <3>2. (i - NumBuckets + NumBuckets) % NumBuckets = (i - NumBuckets) % NumBuckets
        BY <3>1, SizesAssumption, ModShift
      <3>3. QED
        BY <3>1, <3>2
    <2>2. CASE i <= NumBuckets
      <3>1. i + NumBuckets \in 1..HashTestSize \ {i} /\ i \in Nat
        BY <2>2, SizesAssumption
      <3>2. (i + NumBuckets) % NumBuckets = i % NumBuckets
        BY <3>1, SizesAssumption, ModShift
      <3>3. QED
        BY <3>1, <3>2
    <2>3. QED
      BY <2>1, <2>2, SizesAssumption
  <1>3. HP!BucketsShared
    <2>1. ASSUME NEW t \in Testers, NEW i \in 1..Len(K[t])
          PROVE  \E j \in 1..Len(K[t]) \ {i} : B[K[t][j]] = B[K[t][i]]
      <3> HIDE DEF K, B
      <3>1. QED
        BY <1>1, <1>2
    <2>2. QED
      BY ONLY <2>1, Zenon DEF HP!BucketsShared
  <1>4. HP!TestInit /\ [][HP!TestNext]_(HP!testVars)
          => []HP!LookupAnswers /\ []HP!SizeAfterInserts /\ []HP!SizeAfterDeletes
    BY <1>3, TestSetting, HP!LookupsAnswer, HP!SizesAgree, HP!DeletesEmpty
  <1>5. QED
    BY <1>4, HashByName, HashRuns, PTL
=============================================================================
