---------------------------- MODULE AbstractStack ----------------------------
(***************************************************************************)
(* What a stack shared by threads promises: a last-in first-out sequence   *)
(* of integers on which each call takes effect in ONE step that lies       *)
(* between its invocation and its return (linearizability).  LfStack       *)
(* (lab4 partE) and ConcurStack (lab4 partD) are shown to implement it.    *)
(***************************************************************************)
EXTENDS Integers, Sequences

CONSTANTS Threads,      \* the threads that share the stack
          Values        \* the integers that are pushed

VARIABLES stack,        \* the contents, bottom first
          op            \* op[t]: the call thread t is in, or its last answer

vars == <<stack, op>>

(* What pop answers on an empty stack; a push, which is void, "returns" it. *)
NoValue == -1

Op(k, v) == [kind |-> k, val |-> v]

TopOf(s) == s[Len(s)]
Popped(s) == SubSeq(s, 1, Len(s) - 1)

Init == /\ stack = <<>>
        /\ op = [t \in Threads |-> Op("idle", NoValue)]

CallPush(t, v) == /\ op[t].kind = "idle"
                  /\ op' = [op EXCEPT ![t] = Op("push", v)]
                  /\ UNCHANGED stack

CallPop(t) == /\ op[t].kind = "idle"
              /\ op' = [op EXCEPT ![t] = Op("pop", NoValue)]
              /\ UNCHANGED stack

(* The instant at which a push takes effect. *)
DoPush(t) == /\ op[t].kind = "push"
             /\ stack' = Append(stack, op[t].val)
             /\ op' = [op EXCEPT ![t] = Op("done", NoValue)]

(* The instant at which a pop takes effect: it takes the top, or finds none. *)
DoPop(t) == /\ op[t].kind = "pop"
            /\ \/ /\ stack # <<>>
                  /\ op' = [op EXCEPT ![t] = Op("done", TopOf(stack))]
                  /\ stack' = Popped(stack)
               \/ /\ stack = <<>>
                  /\ op' = [op EXCEPT ![t] = Op("done", NoValue)]
                  /\ UNCHANGED stack

Return(t) == /\ op[t].kind = "done"
             /\ op' = [op EXCEPT ![t] = Op("idle", op[t].val)]
             /\ UNCHANGED stack

Next == \E t \in Threads : \/ \E v \in Values : CallPush(t, v)
                           \/ CallPop(t)
                           \/ DoPush(t)
                           \/ DoPop(t)
                           \/ Return(t)

Spec == Init /\ [][Next]_vars
==============================================================================
