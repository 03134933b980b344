---------------------------- MODULE LfStackProofs ----------------------------
(***************************************************************************)
(* Proofs about LfStack, for any number of threads, pushes and values, and *)
(* about its test, for any number of threads and calls.                    *)
(***************************************************************************)
EXTENDS LfStackTest, ProofFacts

-----------------------------------------------------------------------------
(* The threads whose old_top is a node they may dereference. *)
HoldingOld == {t \in Threads : pc[t] \in {"pop_next", "pop_cas", "dec", "dec_store", "value"}}

(* The locals are set where the code dereferences them. *)
LocalsOK == /\ \A t \in Pushing : node[t] \in Nodes
            /\ \A t \in HoldingOld : old[t] \in Nodes

Typed == TypeOK /\ LocalsOK

LEMMA TypedInit == Init => Typed
  BY NullAssumption DEF Init, Typed, TypeOK, LocalsOK, Pushing, HoldingOld,
                        Pointers, Labels, NoValue

LEMMA TypedNext == Typed /\ [Next]_vars => Typed'
  <1> SUFFICES ASSUME Typed, [Next]_vars PROVE Typed'
    OBVIOUS
  <1> USE NullAssumption
          DEF Typed, TypeOK, LocalsOK, Pushing, HoldingOld, Pointers, Labels, NoValue,
              Goto, EndIteration, shared, locals
  <1>1. ASSUME NEW t \in Threads, NEW v \in Values, CallPush(t, v) PROVE Typed'
    BY <1>1 DEF CallPush
  <1>2. ASSUME NEW t \in Threads, CallPop(t) PROVE Typed'
    BY <1>2 DEF CallPop
  <1>3. ASSUME NEW t \in Threads, PushLoad(t) PROVE Typed'
    BY <1>3 DEF PushLoad
  <1>4. ASSUME NEW t \in Threads, PushCas(t) PROVE Typed'
    <2>1. node[t] \in Nodes => Append(stack, node[t]) \in Seq(Nodes)
      BY AppendProperties
    <2>2. CASE CasHits(t)
      BY <1>4, <2>1, <2>2 DEF PushCas
    <2>3. CASE ~CasHits(t)
      BY <1>4, <2>3 DEF PushCas
    <2>4. QED
      BY <2>2, <2>3
  <1>5. ASSUME NEW t \in Threads, SizeLoad(t) PROVE Typed'
    <2>1. CASE Goto(t, "inc", "inc_store")
      BY <1>5, <2>1 DEF SizeLoad
    <2>2. CASE Goto(t, "dec", "dec_store")
      BY <1>5, <2>2 DEF SizeLoad
    <2>3. Goto(t, "inc", "inc_store") \/ Goto(t, "dec", "dec_store")
      BY <1>5 DEF SizeLoad
    <2>4. QED
      BY <2>1, <2>2, <2>3
  <1>6. ASSUME NEW t \in Threads, IncStore(t) \/ DecStore(t) PROVE Typed'
    <2>1. CASE IncStore(t)
      BY <2>1 DEF IncStore
    <2>2. CASE DecStore(t)
      BY <2>2 DEF DecStore
    <2>3. QED
      BY <1>6, <2>1, <2>2
  <1>7. ASSUME NEW t \in Threads, PopLoad(t) PROVE Typed'
    BY <1>7 DEF PopLoad
  <1>8. ASSUME NEW t \in Threads, PopNext(t) PROVE Typed'
    BY <1>8 DEF PopNext
  <1>9. ASSUME NEW t \in Threads, PopCas(t) PROVE Typed'
    <2>1. SubSeq(stack, 1, Len(stack) - 1) \in Seq(Nodes)
      BY DropLastFacts, SubSeqEmpty, EmptySeq
    <2>2. CASE CasHits(t)
      BY <1>9, <2>1, <2>2 DEF PopCas
    <2>3. CASE ~CasHits(t)
      BY <1>9, <2>3 DEF PopCas
    <2>4. QED
      BY <2>2, <2>3
  <1>10. ASSUME NEW t \in Threads, PopValue(t) PROVE Typed'
    BY <1>10 DEF PopValue
  <1>11. ASSUME NEW t \in Threads, Return(t) PROVE Typed'
    BY <1>11 DEF Return
  <1>12. CASE UNCHANGED vars
    BY <1>12 DEF vars
  <1>13. QED
    BY <1>1, <1>2, <1>3, <1>4, <1>5, <1>6, <1>7, <1>8, <1>9, <1>10, <1>11, <1>12
       DEF Next, Call, Continue

LEMMA AlwaysTyped == Spec => []Typed
  BY TypedInit, TypedNext, PTL DEF Spec

(* Every variable of the lock-free stack keeps its type, and no thread        *)
(* dereferences a pointer that was not set.                                   *)
THEOREM TypeCorrect == Spec => [](TypeOK /\ LocalsOK)
  BY AlwaysTyped, PTL DEF Typed

-----------------------------------------------------------------------------
(***************************************************************************)
(* The inductive invariant.  ListRep alone is not one: that a compare-and- *)
(* swap installs the right pointer depends on what the thread has in its   *)
(* locals, and that a step leaves the list alone depends on no other       *)
(* thread's node being the one it writes.                                  *)
(***************************************************************************)
(* A node a push is making is its own, and not on the stack. *)
PrivateOK == \A t \in Pushing : /\ node[t] \in heap \ OnStack
                                /\ \A u \in Pushing : node[u] = node[t] => u = t
(* Before its compare-and-swap a push has linked its node to what it saw on top. *)
LinkOK == \A t \in Threads : pc[t] = "push_cas" => next[node[t]] = old[t]
(* A pop only ever holds a published node ... *)
OldOK == \A t \in HoldingOld : old[t] \in Published
(* ... and what it is about to install is that node's link. *)
NextOK == \A t \in Threads : pc[t] = "pop_cas" => nxt[t] = next[old[t]]
(* The stack is made of published nodes. *)
StackOK == OnStack \subseteq Published

IInv == /\ Typed /\ ListRep /\ PopOwnsNode
        /\ PrivateOK /\ LinkOK /\ OldOK /\ NextOK /\ StackOK

LEMMA IInvInit == Init => IInv
  <1> SUFFICES ASSUME Init PROVE IInv
    OBVIOUS
  <1>1. Typed
    BY TypedInit
  <1>2. stack = <<>> /\ Len(stack) = 0 /\ top = NULL /\ \A t \in Threads : pc[t] = "idle"
    BY DEF Init
  <1>3. OnStack = {} /\ Pushing = {} /\ HoldingOld = {} /\ Popping = {}
    BY <1>2 DEF OnStack, Pushing, HoldingOld, Popping
  <1>4. QED
    BY <1>1, <1>2, <1>3
       DEF IInv, ListRep, PopOwnsNode, PrivateOK, LinkOK, OldOK, NextOK, StackOK

(* What is on top of a stack that is not empty is a published node. *)
LEMMA TopPublished ==
  ASSUME IInv, top # NULL
  PROVE  /\ stack # <<>> /\ Len(stack) \in Nat \ {0}
         /\ top = stack[Len(stack)] /\ top \in OnStack /\ top \in Published
  <1>1. stack # <<>> /\ top = stack[Len(stack)]
    BY DEF IInv, ListRep
  <1>2. Len(stack) \in Nat \ {0}
    BY <1>1, EmptySeq DEF IInv, Typed, TypeOK
  <1>3. QED
    BY <1>1, <1>2 DEF IInv, OnStack, StackOK

(* A step that leaves the list, the heap and the pushes' nodes alone. *)
LEMMA QuietStep ==
  ASSUME IInv, UNCHANGED <<top, next, heap, stack>>,
         Pushing' = Pushing, \A u \in Pushing : node'[u] = node[u]
  PROVE  /\ ListRep' /\ PrivateOK' /\ StackOK'
         /\ Published' = Published /\ OnStack' = OnStack
  <1>1. OnStack' = OnStack /\ ListRep'
    BY DEF IInv, OnStack, ListRep
  <1>2. Published' = Published
    BY DEF Published, Private
  <1>3. QED
    BY <1>1, <1>2 DEF IInv, PrivateOK, StackOK

(* The steps of a thread t that are quiet. *)
QuietOf(t) == \/ CallPop(t) \/ SizeLoad(t) \/ IncStore(t) \/ DecStore(t) \/ PopLoad(t)
              \/ PopNext(t) \/ PopValue(t) \/ Return(t)
              \/ (PushCas(t) /\ ~CasHits(t)) \/ (PopCas(t) /\ ~CasHits(t))

(* What a quiet step does to the program counters, locals and lists. *)
LEMMA QuietNext ==
  ASSUME IInv, Typed', NEW t \in Threads, QuietOf(t)
  PROVE  IInv'
  <1> USE DEF Goto, EndIteration, shared, locals, Typed, TypeOK
  <1>1. UNCHANGED <<top, next, value, heap, stack>>
    BY DEF QuietOf, CallPop, SizeLoad, IncStore, DecStore, PopLoad, PopNext, PopValue,
           Return, PushCas, PopCas
  <1>2. Pushing' = Pushing /\ \A u \in Pushing : node'[u] = node[u]
    BY DEF IInv, Pushing, QuietOf, CallPop, SizeLoad, IncStore, DecStore, PopLoad,
           PopNext, PopValue, Return, PushCas, PopCas
  <1>3. /\ ListRep' /\ PrivateOK' /\ StackOK'
        /\ Published' = Published /\ OnStack' = OnStack
    BY <1>1, <1>2, QuietStep
  <1>4. LinkOK'
    BY <1>1 DEF IInv, LinkOK, QuietOf, CallPop, SizeLoad, IncStore, DecStore, PopLoad,
                PopNext, PopValue, Return, PushCas, PopCas
  <1>5. OldOK'
    <2>1. CASE PopLoad(t)
      <3>1. top # NULL => top \in Published
        BY TopPublished DEF IInv
      <3>2. QED
        BY <1>3, <2>1, <3>1 DEF IInv, OldOK, HoldingOld, PopLoad
    <2>2. CASE ~PopLoad(t)
      BY <1>3, <2>2 DEF IInv, OldOK, HoldingOld, QuietOf, CallPop, SizeLoad, IncStore,
                        DecStore, PopNext, PopValue, Return, PushCas, PopCas
    <2>3. QED
      BY <2>1, <2>2
  <1>6. NextOK'
    BY <1>1 DEF IInv, NextOK, QuietOf, CallPop, SizeLoad, IncStore, DecStore, PopLoad,
                PopNext, PopValue, Return, PushCas, PopCas
  <1>7. PopOwnsNode'
    BY <1>3 DEF IInv, PopOwnsNode, Popping, QuietOf, CallPop, SizeLoad, IncStore,
                DecStore, PopLoad, PopNext, PopValue, Return, PushCas, PopCas
  <1>8. QED
    BY <1>3, <1>4, <1>5, <1>6, <1>7 DEF IInv

LEMMA CallPushStep ==
  ASSUME IInv, Typed', NEW t \in Threads, NEW v \in Values, CallPush(t, v)
  PROVE  IInv'
  <1> USE DEF Goto, Typed, TypeOK
  <1> PICK n \in Nodes \ heap : /\ heap' = heap \cup {n}
                                /\ node' = [node EXCEPT ![t] = n]
                                /\ value' = [value EXCEPT ![n] = v]
    BY DEF CallPush
  <1>1. /\ UNCHANGED <<top, size, next, stack, old, nxt, tmp>>
        /\ pc[t] = "idle" /\ pc' = [pc EXCEPT ![t] = "push_load"]
    BY DEF CallPush
  <1>2. /\ Pushing' = Pushing \cup {t} /\ t \notin Pushing
        /\ HoldingOld' = HoldingOld /\ Popping' = Popping
    BY <1>1 DEF IInv, Pushing, HoldingOld, Popping
  <1>3. OnStack' = OnStack /\ OnStack \subseteq heap /\ n \notin OnStack
    BY <1>1 DEF IInv, OnStack, StackOK, Published
  <1>4. Published' = Published
    BY <1>1, <1>2 DEF IInv, Published, Private, PrivateOK
  <1>5. ListRep'
    BY <1>1 DEF IInv, ListRep
  <1>6. PrivateOK'
    BY <1>1, <1>2, <1>3 DEF IInv, PrivateOK
  <1>7. LinkOK' /\ NextOK'
    BY <1>1 DEF IInv, LinkOK, NextOK
  <1>8. OldOK' /\ StackOK' /\ PopOwnsNode'
    BY <1>1, <1>2, <1>3, <1>4 DEF IInv, OldOK, StackOK, PopOwnsNode
  <1>9. QED
    BY <1>5, <1>6, <1>7, <1>8 DEF IInv

(* Linking a private node disturbs no list and no other thread. *)
LEMMA PushLoadStep ==
  ASSUME IInv, Typed', NEW t \in Threads, PushLoad(t)
  PROVE  IInv'
  <1> USE DEF Goto, Typed, TypeOK
  <1>1. /\ UNCHANGED <<top, size, heap, stack, node, nxt, tmp>>
        /\ pc[t] = "push_load" /\ pc' = [pc EXCEPT ![t] = "push_cas"]
        /\ old' = [old EXCEPT ![t] = top]
        /\ next' = [next EXCEPT ![node[t]] = top]
    BY DEF PushLoad
  <1>2. /\ Pushing' = Pushing /\ t \in Pushing
        /\ HoldingOld' = HoldingOld /\ Popping' = Popping
        /\ t \notin HoldingOld /\ t \notin Popping
    BY <1>1 DEF IInv, Pushing, HoldingOld, Popping
  <1>3. OnStack' = OnStack /\ Published' = Published
    BY <1>1, <1>2 DEF OnStack, Published, Private
  <1>4. node[t] \in Nodes /\ node[t] \notin OnStack /\ node[t] \notin Published
    BY <1>2 DEF IInv, LocalsOK, PrivateOK, Published, Private
  <1>5. \A m \in Nodes : m # node[t] => next'[m] = next[m]
    BY <1>1 DEF IInv
  <1>6. ListRep'
    BY <1>1, <1>4, <1>5 DEF IInv, ListRep, OnStack
  <1>7. PrivateOK' /\ StackOK' /\ OldOK' /\ PopOwnsNode'
    BY <1>1, <1>2, <1>3 DEF IInv, PrivateOK, StackOK, OldOK, PopOwnsNode, HoldingOld, Popping
  <1>8. LinkOK'
    BY <1>1, <1>2, <1>4, <1>5 DEF IInv, LinkOK, LocalsOK, PrivateOK, Pushing
  <1>9. NextOK'
    BY <1>1, <1>2, <1>4, <1>5 DEF IInv, NextOK, OldOK, HoldingOld, Published
  <1>10. QED
    BY <1>6, <1>7, <1>8, <1>9 DEF IInv

(* A compare-and-swap that finds old_top publishes the node on top of it. *)
LEMMA PushCasStep ==
  ASSUME IInv, Typed', NEW t \in Threads, PushCas(t), CasHits(t)
  PROVE  IInv'
  <1> USE DEF Goto, Typed, TypeOK
  <1>1. /\ UNCHANGED <<size, next, value, heap, locals>>
        /\ pc[t] = "push_cas" /\ pc' = [pc EXCEPT ![t] = "inc"]
        /\ top = old[t] /\ top' = node[t] /\ stack' = Append(stack, node[t])
    BY DEF PushCas, CasHits
  <1> USE DEF locals
  <1>2. /\ Pushing' = Pushing \ {t} /\ t \in Pushing
        /\ HoldingOld' = HoldingOld /\ Popping' = Popping
    BY <1>1 DEF IInv, Pushing, HoldingOld, Popping
  <1>3. /\ node[t] \in Nodes /\ node[t] \in heap /\ node[t] \notin OnStack
        /\ next[node[t]] = top
    BY <1>1, <1>2 DEF IInv, LocalsOK, PrivateOK, LinkOK
  <1>4. /\ Len(stack) \in Nat /\ stack' # <<>> /\ Len(stack') = Len(stack) + 1
        /\ \A i \in 1..Len(stack) : stack'[i] = stack[i]
        /\ stack'[Len(stack) + 1] = node[t]
        /\ OnStack' = OnStack \cup {node[t]}
    <2>1. stack \in Seq(Nodes) /\ node[t] \in Nodes /\ stack' = Append(stack, node[t])
      BY <1>1, <1>3 DEF IInv
    <2>2. QED
      BY <2>1, AppendFacts DEF OnStack
  <1>6. Published' = Published \cup {node[t]}
    BY <1>1, <1>2, <1>3 DEF IInv, Published, Private, PrivateOK
  <1>7. ListRep'
    <2>1. top' = IF stack' = <<>> THEN NULL ELSE stack'[Len(stack')]
      BY <1>1, <1>4
    <2>2. ASSUME NEW i \in 1..Len(stack')
          PROVE  next'[stack'[i]] = IF i = 1 THEN NULL ELSE stack'[i - 1]
      <3>1. CASE i \in 1..Len(stack)
        BY <1>1, <1>4, <3>1 DEF IInv, ListRep
      <3>2. CASE i = Len(stack) + 1
        <4>1. next'[stack'[i]] = top
          BY <1>1, <1>3, <1>4, <3>2
        <4>2. CASE stack = <<>>
          BY <1>4, <3>2, <4>1, <4>2 DEF IInv, ListRep
        <4>3. CASE stack # <<>>
          <5>1. Len(stack) # 0
            BY <4>3, EmptySeq DEF IInv
          <5>2. top = stack[Len(stack)]
            BY <4>3 DEF IInv, ListRep
          <5>3. Len(stack) \in 1..Len(stack) /\ i # 1 /\ i - 1 = Len(stack)
            BY <1>4, <3>2, <5>1
          <5>4. stack'[i - 1] = stack[Len(stack)]
            BY <1>4, <5>3
          <5>5. QED
            BY <4>1, <5>2, <5>3, <5>4
        <4>4. QED
          BY <4>2, <4>3
      <3>3. QED
        BY <1>4, <3>1, <3>2
    <2>3. ASSUME NEW i \in 1..Len(stack'), NEW j \in 1..Len(stack'), i # j
          PROVE  stack'[i] # stack'[j]
      <3>1. \A k \in 1..Len(stack) : stack'[k] \in OnStack
        BY <1>4 DEF OnStack
      <3>2. CASE i = Len(stack) + 1 \/ j = Len(stack) + 1
        BY <1>3, <1>4, <2>3, <3>1, <3>2
      <3>3. CASE i \in 1..Len(stack) /\ j \in 1..Len(stack)
        BY <1>4, <2>3, <3>3 DEF IInv, ListRep
      <3>4. QED
        BY <1>4, <3>2, <3>3
    <2>4. QED
      BY <2>1, <2>2, <2>3 DEF ListRep
  <1>8. PrivateOK'
    BY <1>1, <1>2, <1>4 DEF IInv, PrivateOK
  <1>9. LinkOK' /\ NextOK'
    BY <1>1 DEF IInv, LinkOK, NextOK
  <1>10. OldOK' /\ StackOK'
    BY <1>1, <1>2, <1>4, <1>6 DEF IInv, OldOK, StackOK
  <1>11. PopOwnsNode'
    BY <1>1, <1>2, <1>4, <1>6 DEF IInv, PopOwnsNode, Published, Private
  <1>12. QED
    BY <1>7, <1>8, <1>9, <1>10, <1>11 DEF IInv

(* A compare-and-swap that finds old_top takes the node off: what it installs *)
(* is that node's link, which nobody has written since it was read.           *)
LEMMA PopCasStep ==
  ASSUME IInv, Typed', NEW t \in Threads, PopCas(t), CasHits(t)
  PROVE  IInv'
  <1> USE DEF Goto, Typed, TypeOK
  <1>1. /\ UNCHANGED <<size, next, value, heap, locals>>
        /\ pc[t] = "pop_cas" /\ pc' = [pc EXCEPT ![t] = "dec"]
        /\ top = old[t] /\ top' = nxt[t] /\ stack' = SubSeq(stack, 1, Len(stack) - 1)
    BY DEF PopCas, CasHits
  <1> USE DEF locals
  <1>2. /\ Pushing' = Pushing /\ t \notin Pushing
        /\ HoldingOld' = HoldingOld /\ t \in HoldingOld
        /\ Popping' = Popping \cup {t} /\ t \notin Popping
    BY <1>1 DEF IInv, Pushing, HoldingOld, Popping
  <1>3. top # NULL
    BY <1>1, <1>2, NullAssumption DEF IInv, LocalsOK
  <1>4. /\ stack # <<>> /\ Len(stack) \in Nat \ {0}
        /\ top = stack[Len(stack)] /\ top \in OnStack /\ top \in Published
    BY <1>3, TopPublished
  <1>5. /\ Len(stack') = Len(stack) - 1
        /\ \A i \in 1..(Len(stack) - 1) : stack'[i] = stack[i]
    BY <1>1, <1>4, DropLastFacts DEF IInv
  <1>6. OnStack' = OnStack \ {top}
    <2>1. /\ stack \in Seq(Nodes) /\ stack # <<>>
          /\ \A i, j \in 1..Len(stack) : i # j => stack[i] # stack[j]
          /\ stack' = SubSeq(stack, 1, Len(stack) - 1)
      BY <1>1, <1>4 DEF IInv, ListRep
    <2>2. {stack'[i] : i \in 1..Len(stack')}
            = {stack[i] : i \in 1..Len(stack)} \ {stack[Len(stack)]}
      BY ONLY <2>1, DropLastRange
    <2>3. QED
      BY <1>4, <2>2 DEF OnStack
  <1>7. Published' = Published
    BY <1>1, <1>2 DEF Published, Private
  <1>8. ListRep'
    <2>1. nxt[t] = next[stack[Len(stack)]]
      BY <1>1, <1>4 DEF IInv, NextOK
    <2>2. nxt[t] = IF Len(stack) = 1 THEN NULL ELSE stack[Len(stack) - 1]
      <3>1. Len(stack) \in 1..Len(stack)
        BY <1>4
      <3>2. next[stack[Len(stack)]] = IF Len(stack) = 1 THEN NULL ELSE stack[Len(stack) - 1]
        BY <3>1 DEF IInv, ListRep
      <3>3. QED
        BY <2>1, <3>2
    <2>3. stack' = <<>> <=> Len(stack) = 1
      BY <1>4, <1>5, EmptySeq DEF IInv
    <2>4. top' = IF stack' = <<>> THEN NULL ELSE stack'[Len(stack')]
      BY <1>1, <1>4, <1>5, <2>2, <2>3
    <2>5. \A i \in 1..Len(stack') :
            next'[stack'[i]] = IF i = 1 THEN NULL ELSE stack'[i - 1]
      BY <1>1, <1>4, <1>5 DEF IInv, ListRep
    <2>6. \A i, j \in 1..Len(stack') : i # j => stack'[i] # stack'[j]
      BY <1>4, <1>5 DEF IInv, ListRep
    <2>7. QED
      BY <2>4, <2>5, <2>6 DEF ListRep
  <1>9. PrivateOK' /\ StackOK'
    BY <1>1, <1>2, <1>6, <1>7 DEF IInv, PrivateOK, StackOK
  <1>10. LinkOK' /\ NextOK'
    BY <1>1 DEF IInv, LinkOK, NextOK
  <1>11. OldOK'
    BY <1>1, <1>2, <1>7 DEF IInv, OldOK
  <1>12. PopOwnsNode'
    <2>1. UNCHANGED old /\ old[t] = top
      BY <1>1
    <2>2. ASSUME NEW u \in Popping
          PROVE  old[u] \in Published /\ old[u] \notin OnStack
      BY DEF IInv, PopOwnsNode
    <2>3. \A u \in Popping : old[u] # top
      BY <1>4, <2>2
    <2>4. ASSUME NEW u \in Popping'
          PROVE  old[u] \in Published' \ OnStack'
      BY <1>2, <1>4, <1>6, <1>7, <2>1, <2>2
    <2>5. ASSUME NEW u \in Popping', NEW w \in Popping', old[w] = old[u]
          PROVE  w = u
      BY <1>2, <2>1, <2>3, <2>5 DEF IInv, PopOwnsNode
    <2>6. QED
      BY <2>1, <2>4, <2>5 DEF PopOwnsNode
  <1>13. QED
    BY <1>8, <1>9, <1>10, <1>11, <1>12 DEF IInv

LEMMA IInvNext == IInv /\ [Next]_vars => IInv'
  <1> SUFFICES ASSUME IInv, [Next]_vars PROVE IInv'
    OBVIOUS
  <1>1. Typed'
    BY TypedNext DEF IInv
  <1>2. ASSUME NEW t \in Threads, Call(t) \/ Continue(t) PROVE IInv'
    <2>1. CASE \E v \in Values : CallPush(t, v)
      BY <1>1, <2>1, CallPushStep
    <2>2. CASE PushLoad(t)
      BY <1>1, <2>2, PushLoadStep
    <2>3. CASE PushCas(t) /\ CasHits(t)
      BY <1>1, <2>3, PushCasStep
    <2>4. CASE PopCas(t) /\ CasHits(t)
      BY <1>1, <2>4, PopCasStep
    <2>5. CASE QuietOf(t)
      BY <1>1, <2>5, QuietNext
    <2>6. QED
      BY <1>2, <2>1, <2>2, <2>3, <2>4, <2>5 DEF Call, Continue, QuietOf
  <1>3. CASE UNCHANGED vars
    <2>1. /\ Pushing' = Pushing /\ HoldingOld' = HoldingOld /\ Popping' = Popping
          /\ UNCHANGED <<top, next, heap, stack, node, old, nxt, pc>>
      BY <1>3 DEF vars, shared, locals, Pushing, HoldingOld, Popping
    <2>2. /\ ListRep' /\ PrivateOK' /\ StackOK'
          /\ Published' = Published /\ OnStack' = OnStack
      BY <2>1, QuietStep
    <2>3. LinkOK' /\ OldOK' /\ NextOK' /\ PopOwnsNode'
      BY <2>1, <2>2 DEF IInv, LinkOK, OldOK, NextOK, PopOwnsNode
    <2>4. QED
      BY <1>1, <2>2, <2>3 DEF IInv
  <1>4. QED
    BY <1>2, <1>3 DEF Next

LEMMA Invariant == Spec => []IInv
  BY IInvInit, IInvNext, PTL DEF Spec

(* The pointers from top always spell the nodes pushed and not popped.        *)
THEOREM ListIsStack == Spec => []ListRep
  BY Invariant, PTL DEF IInv

(* No two pops unlink the same node, and an unlinked node is off the stack.   *)
THEOREM PopsOwnTheirNodes == Spec => []PopOwnsNode
  BY Invariant, PTL DEF IInv

(* No step writes the link or the value of a node that was published: the     *)
(* only writes are to the node of a push that has not yet swapped it in.      *)
THEOREM NodesFrozen == Spec => PublishedFrozen
  <1>1. IInv /\ [Next]_vars => [Frozen]_vars
    <2> SUFFICES ASSUME IInv, [Next]_vars PROVE Frozen
      OBVIOUS
    <2> USE DEF Frozen, Typed, TypeOK
    <2>1. ASSUME NEW t \in Threads, PushLoad(t) PROVE Frozen
      <3>1. /\ next' = [next EXCEPT ![node[t]] = top] /\ value' = value
            /\ t \in Pushing
        BY <2>1 DEF PushLoad, Goto, Pushing
      <3>2. \A n \in Published : n \in Nodes /\ n # node[t]
        BY <3>1 DEF IInv, Published, Private
      <3>3. QED
        BY <3>1, <3>2 DEF IInv
    <2>2. ASSUME NEW t \in Threads, NEW v \in Values, CallPush(t, v) PROVE Frozen
      <3>1. PICK n \in Nodes \ heap : value' = [value EXCEPT ![n] = v] /\ next' = next
        BY <2>2 DEF CallPush
      <3>2. \A m \in Published : m \in Nodes /\ m # n
        BY DEF IInv, Published
      <3>3. QED
        BY <3>1, <3>2 DEF IInv
    <2>3. CASE UNCHANGED <<next, value>>
      BY <2>3
    <2>4. CASE UNCHANGED vars
      BY <2>4 DEF vars, shared
    <2>5. ASSUME NEW t \in Threads, Call(t) \/ Continue(t) PROVE Frozen
      <3>1. \/ PushLoad(t) \/ (\E v \in Values : CallPush(t, v))
            \/ UNCHANGED <<next, value>>
        BY <2>5 DEF Call, Continue, CallPop, PushCas, SizeLoad, IncStore, DecStore, PopLoad,
                    PopNext, PopCas, PopValue, Return, shared
      <3>2. QED
        BY <2>1, <2>2, <2>3, <3>1
    <2>6. QED
      BY <2>4, <2>5 DEF Next
  <1>2. QED
    BY <1>1, Invariant, PTL DEF Spec, PublishedFrozen

-----------------------------------------------------------------------------
(***************************************************************************)
(* Linearizability: LfStack implements AbstractStack.  A push takes effect *)
(* at the compare-and-swap that succeeds, a pop at its own or, when it     *)
(* finds the stack empty, at its load of the top.                          *)
(***************************************************************************)
(* A call that has not taken effect, or that is a push, has no answer yet. *)
RetOK == \A t \in Threads : pc[t] \in {"push_load", "push_cas", "inc", "inc_store",
                                       "pop_load", "pop_next", "pop_cas"} => ret[t] = NoValue

LEMMA RetNext == IInv /\ IInv' /\ RetOK /\ [Next]_vars => RetOK'
  <1> SUFFICES ASSUME IInv, IInv', RetOK, [Next]_vars PROVE RetOK'
    OBVIOUS
  <1> USE DEF RetOK, IInv, Typed, TypeOK, Goto, EndIteration, locals, shared
  <1>1. ASSUME NEW t \in Threads, NEW v \in Values, CallPush(t, v) PROVE RetOK'
    BY <1>1 DEF CallPush
  <1>2. ASSUME NEW t \in Threads, CallPop(t) \/ PushLoad(t) \/ PushCas(t) PROVE RetOK'
    BY <1>2 DEF CallPop, PushLoad, PushCas
  <1>3. ASSUME NEW t \in Threads, SizeLoad(t) \/ IncStore(t) \/ DecStore(t) PROVE RetOK'
    BY <1>3 DEF SizeLoad, IncStore, DecStore
  <1>4. ASSUME NEW t \in Threads, PopLoad(t) \/ PopNext(t) \/ PopCas(t) PROVE RetOK'
    BY <1>4 DEF PopLoad, PopNext, PopCas
  <1>5. ASSUME NEW t \in Threads, PopValue(t) \/ Return(t) PROVE RetOK'
    BY <1>5 DEF PopValue, Return
  <1>6. CASE UNCHANGED vars
    BY <1>6 DEF vars
  <1>7. QED
    BY <1>1, <1>2, <1>3, <1>4, <1>5, <1>6 DEF Next, Call, Continue

LEMMA AlwaysRet == Spec => []RetOK
  <1>1. Init => RetOK
    BY DEF Init, RetOK
  <1>2. QED
    BY <1>1, RetNext, Invariant, PTL DEF Spec

(* What the abstract call of u is depends on u's own variables, and on the    *)
(* value of the node it holds.                                                *)
LEMMA SameOp ==
  ASSUME NEW u \in Threads, pc'[u] = pc[u], ret'[u] = ret[u],
         node'[u] = node[u], old'[u] = old[u],
         u \in Pushing => value'[node[u]] = value[node[u]],
         u \in Popping => value'[old[u]] = value[old[u]]
  PROVE  KindOf(u)' = KindOf(u) /\ ValOf(u)' = ValOf(u)
  <1>1. KindOf(u)' = KindOf(u)
    BY DEF KindOf
  <1>2. (u \in Pushing' <=> u \in Pushing) /\ (u \in Popping' <=> u \in Popping)
    BY DEF Pushing, Popping
  <1>3. QED
    BY <1>1, <1>2 DEF ValOf

(* A step of t changes nobody else's abstract call. *)
LEMMA OthersKept ==
  ASSUME IInv, NEW t \in Threads, Call(t) \/ Continue(t), NEW u \in Threads, u # t
  PROVE  KindOf(u)' = KindOf(u) /\ ValOf(u)' = ValOf(u)
  <1> USE DEF IInv, Typed, TypeOK, Goto, EndIteration, locals, shared
  <1>1. CASE \E v \in Values : CallPush(t, v)
    <2>1. PICK v \in Values : CallPush(t, v)
      BY <1>1
    <2>2. PICK n \in Nodes \ heap : /\ node' = [node EXCEPT ![t] = n]
                                    /\ value' = [value EXCEPT ![n] = v]
      BY <2>1 DEF CallPush
    <2>3. /\ pc'[u] = pc[u] /\ ret'[u] = ret[u] /\ node'[u] = node[u] /\ old'[u] = old[u]
      BY <2>1, <2>2 DEF CallPush
    <2>4. u \in Pushing => node[u] \in Nodes /\ node[u] # n
      BY <2>2 DEF PrivateOK, LocalsOK
    <2>5. u \in Popping => old[u] \in Nodes /\ old[u] # n
      BY <2>2 DEF PopOwnsNode, Published
    <2>6. QED
      BY <2>2, <2>3, <2>4, <2>5, SameOp
  <1>2. CASE CallPop(t) \/ Continue(t)
    <2>1. value' = value
      BY <1>2 DEF Continue, CallPop, PushLoad, PushCas, SizeLoad, IncStore, PopLoad,
                  PopNext, PopCas, DecStore, PopValue, Return
    <2>2. pc'[u] = pc[u] /\ ret'[u] = ret[u]
      BY <1>2 DEF Continue, CallPop, PushLoad, PushCas, SizeLoad, IncStore, PopLoad,
                  PopNext, PopCas, DecStore, PopValue, Return
    <2>3. node'[u] = node[u] /\ old'[u] = old[u]
      BY <1>2 DEF Continue, CallPop, PushLoad, PushCas, SizeLoad, IncStore, PopLoad,
                  PopNext, PopCas, DecStore, PopValue, Return
    <2>4. QED
      BY <2>1, <2>2, <2>3, SameOp
  <1>3. QED
    BY <1>1, <1>2 DEF Call

(* The abstract calls after a step of t, and when it changes none. *)
LEMMA OpAfter ==
  ASSUME IInv, NEW t \in Threads, Call(t) \/ Continue(t)
  PROVE  /\ absOp' = [absOp EXCEPT ![t] = Abs!Op(KindOf(t)', ValOf(t)')]
         /\ absOp[t] = Abs!Op(KindOf(t), ValOf(t))
         /\ KindOf(t)' = KindOf(t) /\ ValOf(t)' = ValOf(t) => absOp' = absOp
  <1>1. \A u \in Threads : u # t => KindOf(u)' = KindOf(u) /\ ValOf(u)' = ValOf(u)
    BY OthersKept
  <1>2. QED
    BY <1>1 DEF absOp, Abs!Op

(* The abstract contents change with the stack only. *)
LEMMA ContentsKept ==
  ASSUME IInv, NEW t \in Threads, Call(t) \/ Continue(t), stack' = stack
  PROVE  absStack' = absStack
  <1> USE DEF IInv, Typed, TypeOK
  <1>1. \A i \in 1..Len(stack) : stack[i] \in Nodes /\ stack[i] \in heap
    BY DEF StackOK, OnStack, Published
  <1>2. \A i \in 1..Len(stack) : value'[stack[i]] = value[stack[i]]
    <2>1. CASE \E v \in Values : CallPush(t, v)
      BY <1>1, <2>1 DEF CallPush
    <2>2. CASE CallPop(t) \/ Continue(t)
      BY <2>2 DEF Continue, CallPop, PushLoad, PushCas, SizeLoad, IncStore, PopLoad,
                  PopNext, PopCas, DecStore, PopValue, Return, shared
    <2>3. QED
      BY <2>1, <2>2 DEF Call
  <1>3. QED
    BY <1>2 DEF absStack

(* The steps that call, that return, and those that no abstract step matches. *)
LEMMA CallRefines ==
  ASSUME IInv, IInv', NEW t \in Threads, Call(t) PROVE Abs!Next
  <1> USE DEF IInv, Typed, TypeOK, Goto
  <1>1. ASSUME NEW v \in Values, CallPush(t, v) PROVE Abs!CallPush(t, v)
    <2>1. /\ absOp' = [absOp EXCEPT ![t] = Abs!Op(KindOf(t)', ValOf(t)')]
          /\ absOp[t] = Abs!Op(KindOf(t), ValOf(t))
      BY <1>1, OpAfter DEF Call
    <2>2. absStack' = absStack
      BY <1>1, ContentsKept DEF Call, CallPush
    <2>3. KindOf(t) = "idle" /\ KindOf(t)' = "push" /\ t \in Pushing'
      BY <1>1 DEF CallPush, KindOf, Pushing
    <2>4. value'[node'[t]] = v
      BY <1>1 DEF CallPush
    <2>5. QED
      BY <2>1, <2>2, <2>3, <2>4 DEF Abs!CallPush, Abs!Op, ValOf
  <1>2. ASSUME CallPop(t) PROVE Abs!CallPop(t)
    <2>1. /\ absOp' = [absOp EXCEPT ![t] = Abs!Op(KindOf(t)', ValOf(t)')]
          /\ absOp[t] = Abs!Op(KindOf(t), ValOf(t))
      BY <1>2, OpAfter DEF Call
    <2>2. absStack' = absStack
      BY <1>2, ContentsKept DEF Call, CallPop, shared
    <2>3. /\ KindOf(t) = "idle" /\ KindOf(t)' = "pop"
          /\ t \notin Pushing' /\ t \notin Popping' /\ ret'[t] = NoValue
      BY <1>2 DEF CallPop, KindOf, Pushing, Popping
    <2>4. QED
      BY <2>1, <2>2, <2>3 DEF Abs!CallPop, Abs!Op, Abs!NoValue, NoValue, ValOf
  <1>3. QED
    BY <1>1, <1>2 DEF Call, Abs!Next

LEMMA ReturnRefines ==
  ASSUME IInv, IInv', NEW t \in Threads, IncStore(t) \/ Return(t) PROVE Abs!Return(t)
  <1> USE DEF IInv, Typed, TypeOK, Goto
  <1>1. /\ absOp' = [absOp EXCEPT ![t] = Abs!Op(KindOf(t)', ValOf(t)')]
        /\ absOp[t] = Abs!Op(KindOf(t), ValOf(t))
    BY OpAfter DEF Continue
  <1>2. absStack' = absStack
    BY ContentsKept DEF Continue, IncStore, Return, shared
  <1>3. /\ KindOf(t) = "done" /\ t \notin Pushing /\ t \notin Popping
        /\ KindOf(t)' = "idle" /\ t \notin Pushing' /\ t \notin Popping'
        /\ ret' = ret
    BY DEF IncStore, Return, KindOf, Pushing, Popping
  <1>4. QED
    BY <1>1, <1>2, <1>3 DEF Abs!Return, Abs!Op, ValOf

LEMMA SilentRefines ==
  ASSUME IInv, IInv', NEW t \in Threads,
         \/ PushLoad(t) \/ SizeLoad(t) \/ DecStore(t) \/ PopNext(t) \/ PopValue(t)
         \/ PopLoad(t) /\ top # NULL
         \/ (PushCas(t) \/ PopCas(t)) /\ ~CasHits(t)
  PROVE  UNCHANGED <<absStack, absOp>>
  <1> USE DEF IInv, Typed, TypeOK, Goto, EndIteration, shared, locals
  <1>1. stack' = stack
    BY DEF PushLoad, SizeLoad, DecStore, PopNext, PopValue, PopLoad, PushCas, PopCas
  <1>2. absStack' = absStack
    BY <1>1, ContentsKept DEF Continue
  <1>3. KindOf(t)' = KindOf(t)
    BY DEF PushLoad, SizeLoad, DecStore, PopNext, PopValue, PopLoad, PushCas, PopCas, KindOf
  <1>4. ValOf(t)' = ValOf(t)
    <2>1. value' = value
      BY DEF PushLoad, SizeLoad, DecStore, PopNext, PopValue, PopLoad, PushCas, PopCas
    <2>2. CASE PushLoad(t) \/ (PushCas(t) /\ ~CasHits(t))
      BY <2>1, <2>2 DEF PushLoad, PushCas, ValOf, Pushing, Popping
    <2>3. CASE SizeLoad(t) \/ DecStore(t)
      BY <2>1, <2>3 DEF SizeLoad, DecStore, ValOf, Pushing, Popping
    <2>4. CASE \/ PopNext(t) \/ (PopLoad(t) /\ top # NULL)
               \/ (PopCas(t) /\ ~CasHits(t))
      BY <2>1, <2>4 DEF PopNext, PopLoad, PopCas, ValOf, Pushing, Popping
    <2>5. CASE PopValue(t)
      BY <2>1, <2>5 DEF PopValue, ValOf, Pushing, Popping
    <2>6. QED
      BY <2>2, <2>3, <2>4, <2>5
  <1>5. QED
    BY <1>2, <1>3, <1>4, OpAfter DEF Continue

(* A push takes effect. *)
LEMMA PushRefines ==
  ASSUME IInv, IInv', RetOK, NEW t \in Threads, PushCas(t), CasHits(t) PROVE Abs!DoPush(t)
  <1> USE DEF IInv, Typed, TypeOK, Goto
  <1>1. /\ absOp' = [absOp EXCEPT ![t] = Abs!Op(KindOf(t)', ValOf(t)')]
        /\ absOp[t] = Abs!Op(KindOf(t), ValOf(t))
    BY OpAfter DEF Continue
  <1>2. /\ pc[t] = "push_cas" /\ pc'[t] = "inc" /\ value' = value /\ ret' = ret
        /\ stack' = Append(stack, node[t])
    BY DEF PushCas, CasHits, locals
  <1>3. /\ KindOf(t) = "push" /\ t \in Pushing /\ node[t] \in Nodes
        /\ KindOf(t)' = "done" /\ t \notin Pushing' /\ t \notin Popping'
        /\ ret[t] = NoValue
    BY <1>2 DEF KindOf, Pushing, Popping, LocalsOK, RetOK
  <1>4. absStack' = Append(absStack, value[node[t]])
    <2>1. /\ absStack = Images(stack, value) /\ absStack' = Images(stack', value)
      BY <1>2 DEF absStack, Images
    <2>2. stack \in Seq(Nodes) /\ DOMAIN value = Nodes
      OBVIOUS
    <2>3. QED
      BY ONLY <1>2, <1>3, <2>1, <2>2, ImagesOfAppend
  <1>5. QED
    BY <1>1, <1>2, <1>3, <1>4 DEF Abs!DoPush, Abs!Op, Abs!NoValue, NoValue, ValOf

(* A pop takes effect: it takes the top off, or finds no top. *)
LEMMA PopRefines ==
  ASSUME IInv, IInv', RetOK, NEW t \in Threads,
         \/ PopCas(t) /\ CasHits(t)
         \/ PopLoad(t) /\ top = NULL
  PROVE  Abs!DoPop(t)
  <1> USE DEF IInv, Typed, TypeOK, Goto
  <1>1. /\ absOp' = [absOp EXCEPT ![t] = Abs!Op(KindOf(t)', ValOf(t)')]
        /\ absOp[t] = Abs!Op(KindOf(t), ValOf(t))
    BY OpAfter DEF Continue
  <1>2. CASE PopCas(t) /\ CasHits(t)
    <2>1. /\ pc[t] = "pop_cas" /\ pc'[t] = "dec" /\ value' = value /\ old' = old
          /\ top = old[t] /\ stack' = SubSeq(stack, 1, Len(stack) - 1)
      BY <1>2 DEF PopCas, CasHits, locals
    <2>2. /\ KindOf(t) = "pop" /\ t \in HoldingOld /\ old[t] \in Nodes
          /\ KindOf(t)' = "done" /\ t \notin Pushing' /\ t \in Popping'
      BY <2>1 DEF KindOf, Pushing, Popping, HoldingOld, LocalsOK
    <2>3. stack # <<>> /\ stack[Len(stack)] = old[t]
      BY <2>1, <2>2, NullAssumption, TopPublished
    <2>4. /\ absStack # <<>> /\ absStack[Len(absStack)] = value[stack[Len(stack)]]
          /\ absStack' = SubSeq(absStack, 1, Len(absStack) - 1)
      <3>1. /\ absStack = Images(stack, value) /\ absStack' = Images(stack', value)
        BY <2>1 DEF absStack, Images
      <3>2. stack \in Seq(Nodes) /\ DOMAIN value = Nodes
        OBVIOUS
      <3>3. QED
        BY ONLY <2>1, <2>3, <3>1, <3>2, ImagesOfDropLast
    <2>5. QED
      BY <1>1, <2>1, <2>2, <2>3, <2>4 DEF Abs!DoPop, Abs!Op, Abs!TopOf, Abs!Popped, ValOf
  <1>3. CASE PopLoad(t) /\ top = NULL
    <2>1. /\ pc[t] = "pop_load" /\ pc'[t] = "return" /\ ret' = ret /\ stack' = stack
      BY <1>3 DEF PopLoad, shared
    <2>2. /\ KindOf(t) = "pop" /\ KindOf(t)' = "done"
          /\ t \notin Pushing' /\ t \notin Popping' /\ ret[t] = NoValue
      BY <2>1 DEF KindOf, Pushing, Popping, RetOK
    <2>3. absStack' = absStack
      BY <1>3, <2>1, ContentsKept DEF Continue
    <2>4. stack = <<>>
      <3>1. stack # <<>> => Len(stack) \in 1..Len(stack) /\ stack[Len(stack)] \in Nodes
        BY EmptySeq
      <3>2. QED
        BY <1>3, <3>1, NullAssumption DEF ListRep
    <2>5. absStack = <<>>
      <3>1. Len(stack) = 0
        BY <2>4
      <3>2. absStack \in [1..0 -> Values]
        BY <3>1 DEF absStack
      <3>3. absStack \in Seq(Values) /\ Len(absStack) = 0
        BY ONLY <3>2, FunctionIsSeq
      <3>4. QED
        BY <3>3, EmptySeq
    <2>6. QED
      BY <1>1, <2>1, <2>2, <2>3, <2>5 DEF Abs!DoPop, Abs!Op, Abs!NoValue, NoValue, ValOf
  <1>4. QED
    BY <1>2, <1>3

LEMMA InitRefines == Init => Abs!Init
  <1> SUFFICES ASSUME Init PROVE Abs!Init
    OBVIOUS
  <1>1. absStack = <<>>
    BY DEF Init, absStack
  <1>2. \A t \in Threads : KindOf(t) = "idle" /\ ValOf(t) = NoValue
    BY DEF Init, KindOf, ValOf, Pushing, Popping
  <1>3. QED
    BY <1>1, <1>2 DEF Abs!Init, absOp, Abs!Op, Abs!NoValue, NoValue

LEMMA NextRefines == IInv /\ IInv' /\ RetOK /\ [Next]_vars => [Abs!Next]_<<absStack, absOp>>
  <1> SUFFICES ASSUME IInv, IInv', RetOK, [Next]_vars
               PROVE  Abs!Next \/ UNCHANGED <<absStack, absOp>>
    OBVIOUS
  <1>1. ASSUME NEW t \in Threads, Call(t) PROVE Abs!Next
    BY <1>1, CallRefines
  <1>2. ASSUME NEW t \in Threads, Continue(t)
        PROVE  Abs!Next \/ UNCHANGED <<absStack, absOp>>
    <2>1. CASE IncStore(t) \/ Return(t)
      BY <2>1, ReturnRefines DEF Abs!Next
    <2>2. CASE PushCas(t) /\ CasHits(t)
      BY <2>2, PushRefines DEF Abs!Next
    <2>3. CASE (PopCas(t) /\ CasHits(t)) \/ (PopLoad(t) /\ top = NULL)
      BY <2>3, PopRefines DEF Abs!Next
    <2>4. CASE \/ PushLoad(t) \/ SizeLoad(t) \/ DecStore(t) \/ PopNext(t) \/ PopValue(t)
               \/ PopLoad(t) /\ top # NULL
               \/ (PushCas(t) \/ PopCas(t)) /\ ~CasHits(t)
      BY <2>4, SilentRefines
    <2>5. QED
      BY <1>2, <2>1, <2>2, <2>3, <2>4 DEF Continue
  <1>3. CASE UNCHANGED vars
    BY <1>3 DEF vars, shared, locals, absStack, absOp, KindOf, ValOf, Pushing, Popping
  <1>4. QED
    BY <1>1, <1>2, <1>3 DEF Next

(* The lock-free stack is linearizable: whatever the threads, the values and  *)
(* the interleaving of the loads and compare-and-swaps of lf-stack.c, its     *)
(* calls answer as those of AbstractStack, each of which is one step.         *)
THEOREM Linearizable == Spec => ImplementsStack
  BY InitRefines, NextRefines, Invariant, AlwaysRet, PTL
     DEF Spec, ImplementsStack, Abs!Spec, Abs!vars

-----------------------------------------------------------------------------
(***************************************************************************)
(* The test.  In its runs the stack holds what main put there and the      *)
(* pushers have added, less what the poppers have taken.                   *)
(***************************************************************************)
(* The pushes main has still to complete, those each pusher has and the pops  *)
(* each popper has.                                                           *)
InPop(t) == pc[t] \in {"pop_load", "pop_next", "pop_cas"}
MainDue == left[Main] + (IF Main \in Pushing THEN 1 ELSE 0)
toPush == [t \in Pushers |-> left[t] + (IF t \in Pushing THEN 1 ELSE 0)]
toPop == [t \in Poppers |-> left[t] + (IF InPop(t) THEN 1 ELSE 0)]
PushesDue == Cardinality(Units(Pushers, TestSize, toPush))
PopsDue == Cardinality(Units(Poppers, TestSize, toPop))

LeftOK == /\ left \in [Threads -> Nat]
          /\ \A t \in Pushers : toPush[t] \in 0..TestSize
          /\ \A t \in Poppers : toPop[t] \in 0..TestSize
RoleOK == /\ \A t \in Threads \ Poppers :
               pc[t] \in {"idle", "push_load", "push_cas", "inc", "inc_store"}
          /\ \A t \in Poppers : pc[t] \notin {"push_load", "push_cas", "inc", "inc_store"}
AloneOK == left[Main] > 0 \/ pc[Main] # "idle" => \A t \in Threads : t # Main => pc[t] = "idle"
BalanceOK == Len(stack) + MainDue + PushesDue = Prefill + PopsDue

TestOK == LeftOK /\ RoleOK /\ AloneOK /\ BalanceOK /\ NoPopComesBackEmpty

LEMMA Crew ==
  /\ Main \in Threads /\ Main \notin Pushers /\ Main \notin Poppers
  /\ Pushers \subseteq Threads /\ Poppers \subseteq Threads /\ Pushers \cap Poppers = {}
  /\ \A t \in Threads : t = Main \/ t \in Pushers \/ t \in Poppers
  /\ IsFiniteSet(Pushers) /\ IsFiniteSet(Poppers)
  /\ TestSize \in Nat /\ TestSize >= 1
  BY TestAssumption

LEMMA DueFacts ==
  /\ Prefill \in Nat \ {0} /\ PushesDue \in Nat /\ PopsDue \in Nat /\ PushesDue <= Prefill
  /\ (\A t \in Pushers : toPush[t] = 0) => PushesDue = 0
  /\ (\A t \in Pushers : toPush[t] = TestSize) => PushesDue = Prefill
  /\ (\A t \in Poppers : toPop[t] = 0) => PopsDue = 0
  /\ (\A t \in Poppers : toPop[t] = TestSize) => PopsDue = Prefill
  /\ \A t \in Poppers : toPop[t] \in 1..TestSize => PopsDue >= 1
  <1>1. Cardinality(Poppers) \in Nat /\ Cardinality(Pushers) = Cardinality(Poppers)
    BY TestAssumption, UnitsFacts
  <1>2. Cardinality(Poppers) # 0
    BY TestAssumption, FS_EmptySet
  <1>3. Prefill \in Nat \ {0}
    BY <1>1, <1>2, Crew DEF Prefill
  <1>4. /\ PushesDue \in Nat /\ PushesDue <= Cardinality(Pushers) * TestSize
        /\ (\A t \in Pushers : toPush[t] = 0) => PushesDue = 0
        /\ (\A t \in Pushers : toPush[t] = TestSize) => PushesDue = Cardinality(Pushers) * TestSize
    BY Crew, UnitsFacts DEF PushesDue
  <1>5. /\ PopsDue \in Nat
        /\ (\A t \in Poppers : toPop[t] = 0) => PopsDue = 0
        /\ (\A t \in Poppers : toPop[t] = TestSize) => PopsDue = Cardinality(Poppers) * TestSize
        /\ \A t \in Poppers : toPop[t] \in 1..TestSize => PopsDue >= 1
    BY Crew, UnitsFacts DEF PopsDue
  <1>6. QED
    BY <1>1, <1>3, <1>4, <1>5 DEF Prefill

LEMMA DueFactsNext == (PushesDue \in Nat /\ PopsDue \in Nat)'
  <1>1. PushesDue \in Nat /\ PopsDue \in Nat
    BY DueFacts
  <1>2. QED
    BY <1>1, PTL

(* Steps that complete no push and no pop, and those that complete one. *)
LEMMA SameDue ==
  /\ (\A t \in Pushers : toPush'[t] = toPush[t]) => PushesDue' = PushesDue
  /\ (\A t \in Poppers : toPop'[t] = toPop[t]) => PopsDue' = PopsDue
  <1>1. ASSUME \A t \in Pushers : toPush'[t] = toPush[t] PROVE PushesDue' = PushesDue
    <2>1. Units(Pushers, TestSize, toPush') = Units(Pushers, TestSize, toPush)
      BY <1>1, UnitsSame
    <2>2. Units(Pushers, TestSize, toPush)' = Units(Pushers, TestSize, toPush')
      BY DEF Units
    <2>3. QED
      BY <2>1, <2>2, Zenon DEF PushesDue
  <1>2. ASSUME \A t \in Poppers : toPop'[t] = toPop[t] PROVE PopsDue' = PopsDue
    <2>1. Units(Poppers, TestSize, toPop') = Units(Poppers, TestSize, toPop)
      BY <1>2, UnitsSame
    <2>2. Units(Poppers, TestSize, toPop)' = Units(Poppers, TestSize, toPop')
      BY DEF Units
    <2>3. QED
      BY <2>1, <2>2, Zenon DEF PopsDue
  <1>3. QED
    BY <1>1, <1>2

LEMMA OneLessDue ==
  ASSUME LeftOK, LeftOK', NEW t \in Threads,
         \A u \in Pushers \ {t} : toPush'[u] = toPush[u],
         \A u \in Poppers \ {t} : toPop'[u] = toPop[u]
  PROVE  /\ t \in Pushers /\ toPush[t] = toPush'[t] + 1 => PushesDue = PushesDue' + 1
         /\ t \in Poppers /\ toPop[t] = toPop'[t] + 1 => PopsDue = PopsDue' + 1
  <1>1. ASSUME t \in Pushers, toPush[t] = toPush'[t] + 1 PROVE PushesDue = PushesDue' + 1
    <2>1. PICK f : f = toPush'
      OBVIOUS
    <2>2. PICK g : g = toPush
      OBVIOUS
    <2>3. /\ \A u \in Pushers : f[u] \in Int
          /\ f[t] \in 0..(TestSize - 1) /\ g[t] = f[t] + 1
          /\ \A u \in Pushers \ {t} : g[u] = f[u]
      BY <1>1, <2>1, <2>2, Crew DEF LeftOK
    <2>4. Cardinality(Units(Pushers, TestSize, g)) = Cardinality(Units(Pushers, TestSize, f)) + 1
      BY ONLY <1>1, <2>3, Crew, UnitsOneMore
    <2>5. PushesDue' = Cardinality(Units(Pushers, TestSize, f))
      BY <2>1 DEF PushesDue, Units
    <2>6. QED
      BY <2>2, <2>4, <2>5 DEF PushesDue
  <1>2. ASSUME t \in Poppers, toPop[t] = toPop'[t] + 1 PROVE PopsDue = PopsDue' + 1
    <2>1. PICK f : f = toPop'
      OBVIOUS
    <2>2. PICK g : g = toPop
      OBVIOUS
    <2>3. /\ \A u \in Poppers : f[u] \in Int
          /\ f[t] \in 0..(TestSize - 1) /\ g[t] = f[t] + 1
          /\ \A u \in Poppers \ {t} : g[u] = f[u]
      BY <1>2, <2>1, <2>2, Crew DEF LeftOK
    <2>4. Cardinality(Units(Poppers, TestSize, g)) = Cardinality(Units(Poppers, TestSize, f)) + 1
      BY ONLY <1>2, <2>3, Crew, UnitsOneMore
    <2>5. PopsDue' = Cardinality(Units(Poppers, TestSize, f))
      BY <2>1 DEF PopsDue, Units
    <2>6. QED
      BY <2>2, <2>4, <2>5 DEF PopsDue
  <1>3. QED
    BY <1>1, <1>2

LEMMA TestInitOK == TestInit => TestOK
  <1> SUFFICES ASSUME TestInit PROVE TestOK
    OBVIOUS
  <1>1. /\ \A t \in Threads : pc[t] = "idle" /\ left[t] = IF t = Main THEN Prefill ELSE TestSize
        /\ Pushing = {} /\ Len(stack) = 0 /\ left \in [Threads -> Nat]
    BY Crew, DueFacts DEF TestInit, Init, Pushing
  <1>2. /\ \A t \in Pushers : toPush[t] = TestSize
        /\ \A t \in Poppers : toPop[t] = TestSize
        /\ MainDue = Prefill
    BY <1>1, Crew, DueFacts DEF toPush, toPop, MainDue, InPop
  <1>3. BalanceOK
    BY <1>1, <1>2, DueFacts DEF BalanceOK
  <1>4. QED
    BY <1>1, <1>2, <1>3, Crew DEF TestOK, LeftOK, RoleOK, AloneOK, NoPopComesBackEmpty

(* While a pusher or popper is at work main has returned from its pushes, so  *)
(* a pop finds a node for each pop due.                                       *)
LEMMA NotEmpty ==
  ASSUME IInv, TestOK, NEW t \in Poppers, InPop(t)
  PROVE  top # NULL
  <1>1. pc[t] # "idle" /\ t # Main /\ t \in Threads
    BY Crew DEF InPop
  <1>2. left[Main] = 0 /\ pc[Main] = "idle"
    BY <1>1, Crew DEF TestOK, AloneOK, LeftOK
  <1>3. MainDue = 0
    BY <1>2 DEF MainDue, Pushing
  <1>4. toPop[t] \in 1..TestSize
    BY <1>1 DEF TestOK, LeftOK, toPop
  <1>5. PopsDue >= 1 /\ Len(stack) \in Nat
    BY <1>4, DueFacts DEF IInv, Typed, TypeOK
  <1>6. Len(stack) >= 1
    BY <1>3, <1>5, DueFacts DEF TestOK, BalanceOK
  <1>7. top = stack[Len(stack)] /\ stack[Len(stack)] \in Nodes
    BY <1>5, <1>6, EmptySeq DEF IInv, Typed, TypeOK, ListRep
  <1>8. QED
    BY <1>7, NullAssumption

(* A call of the test. *)
LEMMA TestCallStep ==
  ASSUME IInv, TestOK, NEW t \in Threads, TestCall(t)
  PROVE  TestOK'
  <1> USE DEF IInv, Typed, TypeOK, Goto
  <1>1. /\ pc[t] = "idle" /\ left[t] > 0 /\ left' = [left EXCEPT ![t] = left[t] - 1]
        /\ pc' = [pc EXCEPT ![t] = IF t \in Poppers THEN "pop_load" ELSE "push_load"]
        /\ stack' = stack /\ left[t] \in Nat /\ Created(t)
        /\ \A u \in Threads : u # t => ret'[u] = ret[u]
    BY DEF TestCall, CallPop, CallPush, TestOK, LeftOK, shared
  <1>2. \A u \in Threads : /\ left'[u] = IF u = t THEN left[t] - 1 ELSE left[u]
                           /\ left[u] \in Nat
                           /\ u # t => pc'[u] = pc[u]
    BY <1>1 DEF TestOK, LeftOK
  <1>3. Pushing' = IF t \in Poppers THEN Pushing ELSE Pushing \cup {t}
    BY <1>1 DEF Pushing
  <1>4. ASSUME NEW u \in Pushers PROVE toPush'[u] = toPush[u]
    BY <1>1, <1>2, <1>3, Crew DEF toPush, Pushing
  <1>5. ASSUME NEW u \in Poppers PROVE toPop'[u] = toPop[u]
    BY <1>1, <1>2, Crew DEF toPop, InPop
  <1>6. MainDue' = MainDue
    BY <1>1, <1>2, <1>3, Crew DEF MainDue, Pushing
  <1>7. BalanceOK'
    BY <1>1, <1>4, <1>5, <1>6, SameDue DEF TestOK, BalanceOK
  <1>8. LeftOK'
    <2>1. left' \in [Threads -> Nat]
      BY <1>1 DEF TestOK, LeftOK
    <2>2. QED
      BY <2>1, <1>4, <1>5 DEF TestOK, LeftOK
  <1>9. RoleOK'
    BY <1>1, Crew DEF TestOK, RoleOK
  <1>10. AloneOK'
    <2>1. CASE t = Main
      BY <1>1, <1>2, <2>1, Crew DEF TestOK, AloneOK
    <2>2. CASE t # Main
      BY <1>1, <1>2, <2>2, Crew DEF TestOK, AloneOK, Created
    <2>3. QED
      BY <2>1, <2>2
  <1>11. NoPopComesBackEmpty'
    BY <1>1, Crew DEF TestOK, NoPopComesBackEmpty
  <1>12. QED
    BY <1>7, <1>8, <1>9, <1>10, <1>11 DEF TestOK

(* Inside a call.  What changes the balance is a compare-and-swap that hits. *)
LEMMA TestContinueStep ==
  ASSUME IInv, IInv', TestOK, NEW t \in Threads, Continue(t), UNCHANGED left
  PROVE  TestOK'
  <1> USE DEF IInv, Typed, TypeOK, Goto
  <1>1. /\ pc[t] # "idle" /\ \A u \in Threads : u # t => pc'[u] = pc[u]
        /\ pc' \in [Threads -> Labels]
    BY DEF Continue, PushLoad, PushCas, SizeLoad, IncStore, PopLoad, PopNext, PopCas,
           DecStore, PopValue, Return
  <1>2. RoleOK'
    <2>1. t \in Poppers => pc'[t] \notin {"push_load", "push_cas", "inc", "inc_store"}
      BY DEF TestOK, RoleOK, Continue, PushLoad, PushCas, SizeLoad, IncStore, PopLoad,
             PopNext, PopCas, DecStore, PopValue, Return
    <2>2. t \notin Poppers => pc'[t] \in {"idle", "push_load", "push_cas", "inc", "inc_store"}
      BY DEF TestOK, RoleOK, Continue, PushLoad, PushCas, SizeLoad, IncStore, PopLoad,
             PopNext, PopCas, DecStore, PopValue, Return
    <2>3. QED
      BY <1>1, <2>1, <2>2, Crew DEF TestOK, RoleOK
  <1>3. AloneOK'
    BY <1>1, Crew DEF TestOK, AloneOK
  <1>4. NoPopComesBackEmpty'
    <2>1. \A u \in Threads : u # t => ret'[u] = ret[u]
      BY DEF Continue, PushLoad, PushCas, SizeLoad, IncStore, PopLoad, PopNext, PopCas,
             DecStore, PopValue, Return, shared, locals
    <2>2. ASSUME t \in Poppers, pc'[t] = "return" PROVE ret'[t] # NoValue
      <3>1. CASE PopValue(t)
        <4>1. pc[t] = "value" /\ ret'[t] = value[old[t]]
          BY <3>1 DEF PopValue
        <4>2. old[t] \in Nodes
          BY <4>1 DEF LocalsOK, HoldingOld
        <4>3. QED
          BY <4>1, <4>2, TestAssumption
      <3>2. CASE PopLoad(t)
        <4>1. InPop(t) /\ top = NULL
          BY <2>2, <3>2 DEF PopLoad, InPop
        <4>2. QED
          BY <2>2, <4>1, NotEmpty
      <3>3. QED
        BY <2>2, <3>1, <3>2 DEF Continue, PushLoad, PushCas, SizeLoad, IncStore, PopNext,
                                PopCas, DecStore, Return
    <2>3. QED
      BY <1>1, <2>1, <2>2, Crew DEF TestOK, NoPopComesBackEmpty
  <1>5. \A u \in Threads : left[u] \in Nat /\ left'[u] = left[u]
    BY DEF TestOK, LeftOK
  <1>6. /\ \A u \in Pushers \ {t} : toPush'[u] = toPush[u]
        /\ \A u \in Poppers \ {t} : toPop'[u] = toPop[u]
    BY <1>1, <1>5, Crew DEF toPush, toPop, Pushing, InPop
  <1>12. left' \in [Threads -> Nat]
    BY DEF TestOK, LeftOK
  <1>13. ASSUME \A u \in Pushers : toPush'[u] \in 0..TestSize,
                \A u \in Poppers : toPop'[u] \in 0..TestSize
         PROVE  LeftOK'
    BY <1>12, <1>13 DEF LeftOK
  <1>14. /\ Prefill \in Nat /\ PushesDue \in Nat /\ PopsDue \in Nat
         /\ Len(stack) + MainDue + PushesDue = Prefill + PopsDue
         /\ BalanceOK' <=> Len(stack') + MainDue' + PushesDue' = Prefill + PopsDue'
    BY DueFacts DEF TestOK, BalanceOK
  <1>7. CASE PushCas(t) /\ CasHits(t)
    <2>1. /\ t \in Pushing /\ t \notin Pushing' /\ stack' = Append(stack, node[t])
          /\ t \notin Poppers /\ ~InPop(t) /\ ~InPop(t)'
      BY <1>7 DEF PushCas, CasHits, Pushing, InPop, TestOK, RoleOK
    <2>2. Len(stack') = Len(stack) + 1 /\ Len(stack) \in Nat
      BY <2>1 DEF LocalsOK
    <2>3. PopsDue' = PopsDue
      BY <1>6, <2>1, SameDue
    <2>4. CASE t = Main
      <3>1. MainDue' = MainDue - 1 /\ MainDue \in Int
        BY <1>5, <2>1, <2>4 DEF MainDue
      <3>2. PushesDue' = PushesDue
        BY <1>6, <2>4, Crew, SameDue
      <3>3. BalanceOK'
        BY ONLY <1>14, <2>2, <2>3, <3>1, <3>2
      <3>4. LeftOK'
        BY <1>6, <2>1, <2>4, <1>12, <1>13, Crew DEF TestOK, LeftOK
      <3>5. QED
        BY <1>2, <1>3, <1>4, <3>3, <3>4 DEF TestOK
    <2>5. CASE t \in Pushers
      <3>1. MainDue' = MainDue /\ MainDue \in Int
        BY <1>1, <1>5, <2>5, Crew DEF MainDue, Pushing
      <3>2. toPush[t] = toPush'[t] + 1 /\ toPush'[t] \in Nat
        BY <1>5, <2>1, <2>5, Crew DEF toPush
      <3>3. LeftOK'
        <4>1. toPush'[t] \in 0..TestSize
          BY <2>5, <3>2, Crew DEF TestOK, LeftOK
        <4>2. QED
          BY <1>6, <2>1, <2>5, <4>1, <1>12, <1>13, Crew DEF TestOK, LeftOK
      <3>4. PushesDue = PushesDue' + 1
        BY <1>6, <2>5, <3>2, <3>3, OneLessDue DEF TestOK
      <3>5. PushesDue' \in Nat
        BY DueFactsNext
      <3>6. BalanceOK'
        BY ONLY <1>14, <2>2, <2>3, <3>1, <3>4, <3>5
      <3>7. QED
        BY <1>2, <1>3, <1>4, <3>3, <3>6 DEF TestOK
    <2>6. QED
      BY <2>1, <2>4, <2>5, Crew
  <1>8. CASE PopCas(t) /\ CasHits(t)
    <2>1. /\ InPop(t) /\ ~InPop(t)' /\ t \in Poppers /\ t \notin Pushers /\ t # Main
          /\ stack' = SubSeq(stack, 1, Len(stack) - 1) /\ Pushing' = Pushing
      BY <1>8, Crew DEF PopCas, CasHits, InPop, Pushing, TestOK, RoleOK
    <2>2. stack # <<>>
      BY <2>1, NotEmpty, TopPublished
    <2>3. Len(stack') = Len(stack) - 1 /\ Len(stack) \in Nat
      BY <2>1, <2>2, DropLastFacts
    <2>4. MainDue' = MainDue /\ MainDue \in Int
      BY <1>5, <2>1, Crew DEF MainDue
    <2>5. PushesDue' = PushesDue
      BY <1>6, <2>1, SameDue
    <2>6. toPop[t] = toPop'[t] + 1 /\ toPop'[t] \in Nat
      BY <1>5, <2>1, Crew DEF toPop
    <2>7. LeftOK'
      <3>1. toPop'[t] \in 0..TestSize
        BY <2>1, <2>6, Crew DEF TestOK, LeftOK
      <3>2. QED
        BY <1>6, <2>1, <3>1, <1>12, <1>13, Crew DEF TestOK, LeftOK
    <2>8. PopsDue = PopsDue' + 1
      BY <1>6, <2>1, <2>6, <2>7, OneLessDue DEF TestOK
    <2>9. PopsDue' \in Nat
      BY DueFactsNext
    <2>10. BalanceOK'
      BY ONLY <1>14, <2>3, <2>4, <2>5, <2>8, <2>9
    <2>11. QED
      BY <1>2, <1>3, <1>4, <2>7, <2>10 DEF TestOK
  <1>9. CASE ~((PushCas(t) \/ PopCas(t)) /\ CasHits(t))
    <2>1. stack' = stack
      BY <1>9 DEF Continue, PushLoad, PushCas, SizeLoad, IncStore, PopLoad, PopNext, PopCas,
                  DecStore, PopValue, Return, shared, CasHits
    <2>2. Pushing' = Pushing
      BY <1>9 DEF Continue, PushLoad, PushCas, SizeLoad, IncStore, PopLoad, PopNext, PopCas,
                  DecStore, PopValue, Return, Pushing, CasHits
    <2>3. t \in Poppers => (InPop(t)' <=> InPop(t))
      <3>1. CASE PopLoad(t)
        BY <3>1, NotEmpty DEF PopLoad, InPop
      <3>2. CASE ~PopLoad(t)
        BY <1>9, <3>2 DEF Continue, PushLoad, PushCas, SizeLoad, IncStore, PopNext, PopCas,
                          DecStore, PopValue, Return, InPop, CasHits
      <3>3. QED
        BY <3>1, <3>2
    <2>4. /\ \A u \in Pushers : toPush'[u] = toPush[u]
          /\ \A u \in Poppers : toPop'[u] = toPop[u]
          /\ MainDue' = MainDue
      BY <1>5, <1>6, <2>2, <2>3, Crew DEF toPush, toPop, MainDue
    <2>5. BalanceOK' /\ LeftOK'
      BY <2>1, <2>4, SameDue DEF TestOK, BalanceOK, LeftOK
    <2>6. QED
      BY <1>2, <1>3, <1>4, <2>5 DEF TestOK
  <1>10. QED
    BY <1>7, <1>8, <1>9

LEMMA TestNextOK == IInv /\ IInv' /\ TestOK /\ [TestNext]_testVars => TestOK'
  <1> SUFFICES ASSUME IInv, IInv', TestOK, [TestNext]_testVars PROVE TestOK'
    OBVIOUS
  <1>1. CASE UNCHANGED testVars
    BY <1>1 DEF testVars, vars, shared, locals, TestOK, LeftOK, RoleOK, AloneOK, BalanceOK,
                NoPopComesBackEmpty, toPush, toPop, MainDue, PushesDue, PopsDue, Units,
                Pushing, InPop
  <1>2. CASE TestNext
    BY <1>2, TestCallStep, TestContinueStep DEF TestNext, TestStep
  <1>3. QED
    BY <1>1, <1>2

LEMMA TestAlways == TestSpec => []IInv /\ []TestOK
  <1>1. TestInit => Init
    BY DEF TestInit
  <1>2. [TestNext]_testVars => [Next]_vars
    BY DEF TestNext, TestStep, TestCall, Next, Call, testVars
  <1>3. QED
    BY <1>1, <1>2, Invariant, TestInitOK, TestNextOK, PTL DEF Spec, TestSpec

(* However many threads push and pop, and however often: main has stacked     *)
(* enough for every pop, so none of them comes back empty.                    *)
THEOREM NeverEmpty == TestSpec => []NoPopComesBackEmpty
  BY TestAlways, PTL DEF TestOK

(* No push or pop of the test is lost: at the join the list from top is as    *)
(* long as main made it.                                                      *)
THEOREM NothingLost == TestSpec => []ContentsAtJoin
  <1>1. ASSUME IInv, TestOK, Joined PROVE ContentsAtJoin
    <2>1. \A t \in Threads : left[t] = 0 /\ pc[t] = "idle"
      BY <1>1 DEF Joined
    <2>2. MainDue = 0 /\ PushesDue = 0 /\ PopsDue = 0
      BY <2>1, Crew, DueFacts DEF MainDue, toPush, toPop, Pushing, InPop
    <2>3. Len(stack) = Prefill /\ Prefill \in Nat \ {0} /\ stack \in Seq(Nodes)
      BY <1>1, <2>2, DueFacts DEF TestOK, BalanceOK, IInv, Typed, TypeOK
    <2> DEFINE s == [i \in 1..Prefill |-> stack[(Prefill + 1) - i]]
    <2>4. \A i \in 1..Prefill : (Prefill + 1) - i \in 1..Prefill /\ s[i] = stack[(Prefill + 1) - i]
      BY <2>3
    <2>5. s \in [1..Prefill -> Nodes]
      BY <2>3, <2>4
    <2>6. stack # <<>> /\ 1 \in 1..Prefill /\ Prefill \in 1..Prefill
      BY <2>3
    <2>7. top = stack[Prefill] /\ \A i \in 1..Prefill : next[stack[i]] = IF i = 1 THEN NULL ELSE stack[i - 1]
      BY <1>1, <2>3, <2>6 DEF IInv, ListRep
    <2>8. s[1] = stack[Prefill] /\ s[Prefill] = stack[1]
      BY <2>3, <2>4, <2>6
    <2>9. ASSUME NEW i \in 1..(Prefill - 1) PROVE next[s[i]] = s[i + 1]
      <3> DEFINE j == (Prefill + 1) - i
      <3>1. j \in 1..Prefill /\ j # 1 /\ i \in 1..Prefill /\ i + 1 \in 1..Prefill
            /\ (Prefill + 1) - (i + 1) = j - 1
        BY <2>3
      <3>2. s[i] = stack[j] /\ s[i + 1] = stack[j - 1]
        BY <2>4, <3>1
      <3> HIDE DEF j, s
      <3>3. QED
        BY <2>7, <3>1, <3>2
    <2> HIDE DEF s
    <2>10. QED
      BY <2>5, <2>6, <2>7, <2>8, <2>9 DEF ContentsAtJoin
  <1>2. IInv /\ TestOK => ContentsAtJoin
    BY <1>1 DEF ContentsAtJoin
  <1>3. QED
    BY <1>2, TestAlways, PTL
=============================================================================
